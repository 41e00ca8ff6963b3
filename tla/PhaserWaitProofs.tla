-------------------------- MODULE PhaserWaitProofs --------------------------
(***************************************************************************)
(* Proofs about PhaserWait: every node of a stack is live and none is      *)
(* lost, and no waiter stays asleep in a phase that is over.               *)
(***************************************************************************)
EXTENDS PhaserWait, TLAPS

\* The marks are no nodes and no threads, and the advancer does not wait.
Distinct == /\ Null \notin Nodes /\ Lock \notin Nodes
            /\ Null \notin Waiters /\ Advancer \notin Waiters

(***************************************************************************)
(* Types.                                                                  *)
(***************************************************************************)
Releasing == {"release", "pop", "next", "clear", "waiter", "unpark", "wake"}
WaitLabels == {"loop", "park", "head", "test", "push", "flag", "recheck",
               "asleep", "again", "drop", "free", "last", "done"}
Labels == Releasing \cup WaitLabels \cup {"idle", "odd"}

NodeType ==
  [live : BOOLEAN, in_use : BOOLEAN, queued : BOOLEAN,
   was_interrupted : BOOLEAN, kind : Kinds \cup {"default"},
   next : Nodes \cup {Null}, waiter : Waiters \cup {Null}, phase : Nat]
LocalType ==
  [pc : Labels, in : Nat, kind : Kinds \cup {"default"},
   node : Nodes \cup {Null}, p : Nodes \cup {Null, Lock}, q : 0 .. 1,
   next : Nodes \cup {Null}, who : Waiters \cup {Null},
   back : {"idle", "odd", "loop", "done"}]

TypeInv ==
  /\ policy \in {"WAKING_THREAD", "COOPERATIVE"}
  /\ phase \in Nat /\ terminated \in BOOLEAN
  /\ qhead \in [0 .. 1 -> Nodes \cup {Null, Lock}]
  /\ node \in [Nodes -> NodeType]
  /\ released \in [Waiters -> BOOLEAN]
  /\ interrupted \in [Waiters -> BOOLEAN]
  /\ held \in [Waiters -> BOOLEAN]
  /\ asleep \in [Waiters -> BOOLEAN]
  /\ v \in [Threads -> LocalType]
  /\ broken \in BOOLEAN
  /\ late \subseteq Nodes

(***************************************************************************)
(* Reachability: the smallest set that is closed under a successor.        *)
(***************************************************************************)
From(f, S) ==
  {n \in Nodes : \A T \in SUBSET Nodes :
     S \cap Nodes \subseteq T /\ (\A m \in T : f[m] \in Nodes => f[m] \in T)
       => n \in T}

\* No node comes twice on the way from x.
Straight(f, x) == \A n \in From(f, {x}) : n \notin From(f, {f[n]})

\* The successors of the state, and the nodes from a pointer on.
Succ == [n \in Nodes |-> node[n].next]
Chain(x) == From(Succ, {x})
\* It contains its start and is closed, and any other such set contains it.
LEMMA FromClosed ==
  ASSUME NEW f, NEW S
  PROVE  /\ From(f, S) \subseteq Nodes
         /\ S \cap Nodes \subseteq From(f, S)
         /\ \A m \in From(f, S) : f[m] \in Nodes => f[m] \in From(f, S)
  BY DEF From

\* ... and is part of every closed set that holds its start.
LEMMA FromLeast ==
  ASSUME NEW f, NEW S, NEW T \in SUBSET Nodes, S \cap Nodes \subseteq T,
         \A m \in T : f[m] \in Nodes => f[m] \in T
  PROVE  From(f, S) \subseteq T
  BY DEF From

\* Nothing is reachable from a pointer that is not a node.
LEMMA FromNull ==
  ASSUME NEW f, NEW x, x \notin Nodes
  PROVE  From(f, {x}) = {} /\ Straight(f, x)
<1> DEFINE T == {}
<1>1. T \in SUBSET Nodes /\ {x} \cap Nodes \subseteq T
  OBVIOUS
<1>2. \A m \in T : f[m] \in Nodes => f[m] \in T
  OBVIOUS
<1>3. From(f, {x}) \subseteq T
  BY ONLY <1>1, <1>2, FromLeast
<1>4. QED BY <1>3 DEF Straight

\* A chain is its head and the chain of the successor.
LEMMA FromHead ==
  ASSUME NEW f, NEW x \in Nodes
  PROVE  From(f, {x}) = {x} \cup From(f, {f[x]})
<1> DEFINE T == {x} \cup From(f, {f[x]})
<1>1. T \in SUBSET Nodes /\ {x} \cap Nodes \subseteq T
  BY FromClosed
<1>2. \A m \in T : f[m] \in Nodes => f[m] \in T
  BY FromClosed
<1>3. From(f, {x}) \subseteq T
  BY <1>1, <1>2, FromLeast
<1>4. x \in From(f, {x})
  BY FromClosed
<1>5. {f[x]} \cap Nodes \subseteq From(f, {x})
  BY <1>4, FromClosed
<1>6. From(f, {f[x]}) \subseteq From(f, {x})
  BY <1>5, FromClosed, FromLeast
<1>7. QED BY <1>3, <1>4, <1>6

\* The chain of a node of a chain is part of it.
LEMMA FromInner ==
  ASSUME NEW f, NEW S, NEW y \in From(f, S)
  PROVE  From(f, {y}) \subseteq From(f, S) /\ From(f, {f[y]}) \subseteq From(f, S)
<1>1. {y} \cap Nodes \subseteq From(f, S) /\ {f[y]} \cap Nodes \subseteq From(f, S)
  BY FromClosed
<1>2. QED BY <1>1, FromClosed, FromLeast

\* Only the successors of its own nodes matter to a chain.
LEMMA FromFrame ==
  ASSUME NEW f, NEW g, NEW S, \A m \in From(f, S) : g[m] = f[m]
  PROVE  From(g, S) = From(f, S)
<1>1. From(g, S) \subseteq From(f, S)
  BY FromClosed, FromLeast
<1>2. \A m \in From(g, S) : f[m] = g[m]
  BY <1>1
<1>3. From(f, S) \subseteq From(g, S)
  BY <1>2, FromClosed, FromLeast
<1>4. QED BY <1>1, <1>3

\* The same of a chain without repetitions.
LEMMA StraightFrame ==
  ASSUME NEW f, NEW g, NEW x, \A m \in From(f, {x}) : g[m] = f[m], Straight(f, x)
  PROVE  From(g, {x}) = From(f, {x}) /\ Straight(g, x)
<1>1. From(g, {x}) = From(f, {x})
  BY FromFrame
<1>2. ASSUME NEW n \in From(f, {x})
      PROVE  From(g, {g[n]}) = From(f, {f[n]})
  <2>1. From(f, {f[n]}) \subseteq From(f, {x})
    BY FromInner
  <2>2. From(g, {f[n]}) = From(f, {f[n]})
    BY <2>1, FromFrame
  <2>3. QED BY <2>2
<1>3. QED BY <1>1, <1>2 DEF Straight

\* A straight chain does not come back to its head.
LEMMA StraightHead ==
  ASSUME NEW f, NEW x \in Nodes
  PROVE  Straight(f, x) <=> x \notin From(f, {f[x]}) /\ Straight(f, f[x])
<1>1. From(f, {x}) = {x} \cup From(f, {f[x]})
  BY FromHead
<1>2. QED BY <1>1 DEF Straight

\* Two pointers reach what either of them reaches.
LEMMA FromPair ==
  ASSUME NEW f, NEW x, NEW y
  PROVE  From(f, {x, y}) = From(f, {x}) \cup From(f, {y})
<1> DEFINE T == From(f, {x}) \cup From(f, {y})
<1>1. T \in SUBSET Nodes /\ {x, y} \cap Nodes \subseteq T
  BY FromClosed
<1>2. \A m \in T : f[m] \in Nodes => f[m] \in T
  BY FromClosed
<1> HIDE DEF T
<1>3. From(f, {x, y}) \subseteq T
  BY <1>1, <1>2, FromLeast
<1>4. {x} \cap Nodes \subseteq From(f, {x, y}) /\ {y} \cap Nodes \subseteq From(f, {x, y})
  BY FromClosed
<1>5. From(f, {x}) \subseteq From(f, {x, y}) /\ From(f, {y}) \subseteq From(f, {x, y})
  BY <1>4, FromClosed, FromLeast
<1>6. QED BY <1>3, <1>5 DEF T

(***************************************************************************)
(* The inductive invariant, as long as nothing has gone wrong.             *)
(***************************************************************************)

\* Where a thread is, and what its locals are there.
Stage(t) ==
  /\ v[t].pc \in Releasing \ {"release"} => v[t].p \in Nodes
  /\ v[t].pc = "pop" => policy = "COOPERATIVE"
  /\ v[t].pc = "wake" => v[t].who \in Waiters
  /\ v[t].pc \notin {"clear", "waiter", "unpark", "wake"} => v[t].next = Null
  /\ v[t].pc \in Releasing =>
       v[t].back \in IF t = Advancer THEN {"idle", "odd"} ELSE {"loop", "done"}
  /\ t = Advancer => v[t].pc \in Releasing \cup {"idle", "odd"}
  /\ t \in Waiters =>
       /\ v[t].pc # "odd"
       /\ v[t].pc \in {"park", "head", "test", "push", "flag", "recheck", "asleep",
                       "again", "drop", "free"} => v[t].node # Null
       /\ v[t].pc \in Releasing \cup {"idle", "last", "done"} => v[t].node = Null
       /\ v[t].pc = "push" => v[t].p # Lock

\* A node belongs to one waiter from "loop" to "free".
Owner(w) ==
  v[w].node # Null =>
    /\ node[v[w].node].live /\ node[v[w].node].in_use
    /\ node[v[w].node].waiter \in {Null, w}
    /\ \A u \in Waiters : v[u].node = v[w].node => u = w

\* The lock of a stack belongs to the thread that reads the successor.
Locked ==
  /\ policy = "WAKING_THREAD" => \A i \in 0 .. 1 : qhead[i] # Lock
  /\ policy = "COOPERATIVE" =>
       \A t \in Threads : v[t].pc = "next" =>
         /\ qhead[v[t].q] = Lock
         /\ \A u \in Threads : v[u].pc = "next" /\ v[u].q = v[t].q => u = t

\* What thread t has in hand: the rest of a stack, the node it is about to
\* release, the successor it has read.
Rest(t) == IF v[t].pc = "next" THEN v[t].p ELSE Null
Own(t)  == IF v[t].pc = "clear" THEN {v[t].p} ELSE {}
Then(t) == IF policy = "WAKING_THREAD" THEN v[t].next ELSE Null
Hand(t) == Chain(Rest(t)) \cup Own(t) \cup Chain(Then(t))
Stack(i) == Chain(qhead[i])
Linked == Stack(0) \cup Stack(1) \cup UNION {Hand(t) : t \in Threads}

\* Stacks and what has been taken off them have no node in common, and no
\* node comes twice.
Apart ==
  /\ Stack(0) \cap Stack(1) = {}
  /\ \A t \in Threads :
       /\ \A i \in 0 .. 1 : Hand(t) \cap Stack(i) = {}
       /\ \A u \in Threads : u # t => Hand(t) \cap Hand(u) = {}
Chains ==
  /\ \A i \in 0 .. 1 : Straight(Succ, qhead[i])
  /\ \A t \in Threads :
       /\ Straight(Succ, Rest(t)) /\ Straight(Succ, Then(t))
       /\ Own(t) \cap Chain(Then(t)) = {}

\* The flags of a node say where it is.
Flags ==
  /\ \A n \in Linked :
       /\ node[n].live
       /\ node[n].queued \/ \E w \in Waiters : v[w].node = n /\ v[w].pc = "flag"
  /\ \A n \in Nodes :
       /\ node[n].live /\ node[n].queued => n \in Linked \cup late
       /\ node[n].live /\ ~node[n].in_use => node[n].queued

Shape == /\ \A t \in Threads : Stage(t)
         /\ \A w \in Waiters : Owner(w)
         /\ Locked /\ Apart /\ Chains /\ Flags
NInv == TypeInv /\ (~broken => Shape)

(***************************************************************************)
(* The sets of the model are those of this module.                         *)
(***************************************************************************)
LEMMA ReachIsFrom ==
  ASSUME NEW S
  PROVE  Reach(S) = From(Succ, S)
  BY DEF Reach, Closed, From, Succ

\* What is listed, or in the hands of a thread, are chains.
LEMMA ListedIsLinked ==
  ASSUME TypeInv, \A t \in Threads : Stage(t), Distinct
  PROVE  /\ \A t \in Threads : InHand(t) = Hand(t)
         /\ Listed = Linked
<1>1. ASSUME NEW t \in Threads
      PROVE  InHand(t) = Hand(t)
  <2>1. Chain(Null) = {}
    BY FromNull DEF Chain, Distinct
  <2>2. Reach({v[t].p}) = Chain(v[t].p) /\ Reach({v[t].next}) = Chain(v[t].next)
    BY ReachIsFrom DEF Chain
  <2>3. QED BY <2>1, <2>2 DEF InHand, Hand, Rest, Own, Then
<1>2. Reach({qhead[0], qhead[1]}) = Stack(0) \cup Stack(1)
  BY ReachIsFrom, FromPair DEF Stack, Chain
<1>3. QED BY <1>1, <1>2 DEF Listed, Linked


(***************************************************************************)
(* What a step does to the locals of a thread, field by field.             *)
(***************************************************************************)
Locals(t, pc, in, kind, n, p, q, next, who, back) ==
  /\ v' \in [Threads -> LocalType]
  /\ \A u \in Threads : u # t => v'[u] = v[u]
  /\ v'[t].pc = pc /\ v'[t].in = in /\ v'[t].kind = kind /\ v'[t].node = n /\ v'[t].p = p
  /\ v'[t].q = q /\ v'[t].next = next /\ v'[t].who = who /\ v'[t].back = back

\* The fields of a thread's locals.
LEMMA Fields ==
  ASSUME TypeInv, NEW t \in Threads
  PROVE  /\ v[t] \in LocalType
         /\ v[t].pc \in Labels /\ v[t].in \in Nat /\ v[t].kind \in Kinds \cup {"default"}
         /\ v[t].node \in Nodes \cup {Null} /\ v[t].p \in Nodes \cup {Null, Lock}
         /\ v[t].q \in 0 .. 1 /\ v[t].next \in Nodes \cup {Null}
         /\ v[t].who \in Waiters \cup {Null} /\ v[t].back \in {"idle", "odd", "loop", "done"}
  BY DEF TypeInv, LocalType

\* Replacing them by a record.
LEMMA Replace ==
  ASSUME TypeInv, NEW t \in Threads, NEW r \in LocalType, v' = [v EXCEPT ![t] = r]
  PROVE  /\ v' \in [Threads -> LocalType] /\ v'[t] = r
         /\ \A u \in Threads : u # t => v'[u] = v[u]
<1>1. v \in [Threads -> LocalType]
  BY DEF TypeInv
<1>2. QED BY <1>1

\* One lemma for each kind of update.
LEMMA GotoLocals ==
  ASSUME TypeInv, NEW t \in Threads, NEW label \in Labels,
         Goto(t, label)
  PROVE  Locals(t, label, v[t].in, v[t].kind, v[t].node, v[t].p,
                v[t].q, v[t].next, v[t].who, v[t].back)
<1> DEFINE r == [v[t] EXCEPT !.pc = label]
<1>1. v' = [v EXCEPT ![t] = r]
  BY DEF Goto
<1>2. r \in LocalType /\ r.pc = label /\ r.in = v[t].in /\ r.kind = v[t].kind /\ r.node = v[t].node
      /\ r.p = v[t].p /\ r.q = v[t].q /\ r.next = v[t].next /\ r.who = v[t].who /\ r.back = v[t].back
  BY Fields DEF LocalType
<1> HIDE DEF r
<1>3. QED BY <1>1, <1>2, Replace DEF Locals

\* release_waiters.
LEMMA TurnLocals ==
  ASSUME TypeInv, NEW t \in Threads, NEW q \in 0 .. 1, NEW back \in {"idle", "odd", "loop", "done"},
         release_waiters(t, q, back)
  PROVE  Locals(t, "release", v[t].in, v[t].kind, v[t].node, v[t].p, q, v[t].next, v[t].who, back)
<1>0. "release" \in Labels
  BY DEF Labels, WaitLabels, Releasing
<1> DEFINE r == [v[t] EXCEPT !.pc = "release", !.q = q, !.back = back]
<1>1. v' = [v EXCEPT ![t] = r]
  BY DEF release_waiters
<1>2. r \in LocalType /\ r.pc = "release" /\ r.in = v[t].in /\ r.kind = v[t].kind /\ r.node = v[t].node
      /\ r.p = v[t].p /\ r.q = q /\ r.next = v[t].next /\ r.who = v[t].who /\ r.back = back
  BY <1>0, Fields DEF LocalType
<1> HIDE DEF r
<1>3. QED BY <1>1, <1>2, Replace DEF Locals

\* LoadHead, Push.
LEMMA HeadLocals ==
  ASSUME TypeInv, NEW t \in Threads, NEW label \in Labels, NEW p \in Nodes \cup {Null, Lock},
         v' = [v EXCEPT ![t].p = p, ![t].pc = label]
  PROVE  Locals(t, label, v[t].in, v[t].kind, v[t].node, p, v[t].q, v[t].next, v[t].who, v[t].back)
<1> DEFINE r == [v[t] EXCEPT !.p = p, !.pc = label]
<1>1. v' = [v EXCEPT ![t] = r]
  OBVIOUS
<1>2. r \in LocalType /\ r.pc = label /\ r.in = v[t].in /\ r.kind = v[t].kind /\ r.node = v[t].node
      /\ r.p = p /\ r.q = v[t].q /\ r.next = v[t].next /\ r.who = v[t].who /\ r.back = v[t].back
  BY Fields DEF LocalType
<1> HIDE DEF r
<1>3. QED BY <1>1, <1>2, Replace DEF Locals

\* The same update in the other order.
LEMMA EntryLocals ==
  ASSUME TypeInv, NEW t \in Threads, NEW label \in Labels, NEW p \in Nodes \cup {Null, Lock},
         v' = [v EXCEPT ![t].pc = label, ![t].p = p]
  PROVE  Locals(t, label, v[t].in, v[t].kind, v[t].node, p, v[t].q, v[t].next, v[t].who, v[t].back)
<1> DEFINE r == [v[t] EXCEPT !.pc = label, !.p = p]
<1>1. v' = [v EXCEPT ![t] = r]
  OBVIOUS
<1>2. r \in LocalType /\ r.pc = label /\ r.in = v[t].in /\ r.kind = v[t].kind /\ r.node = v[t].node
      /\ r.p = p /\ r.q = v[t].q /\ r.next = v[t].next /\ r.who = v[t].who /\ r.back = v[t].back
  BY Fields DEF LocalType
<1> HIDE DEF r
<1>3. QED BY <1>1, <1>2, Replace DEF Locals

\* Loop.
LEMMA NodeLocals ==
  ASSUME TypeInv, NEW t \in Threads, NEW n \in Nodes,
         v' = [v EXCEPT ![t].node = n]
  PROVE  Locals(t, v[t].pc, v[t].in, v[t].kind, n, v[t].p, v[t].q, v[t].next, v[t].who, v[t].back)
<1> DEFINE r == [v[t] EXCEPT !.node = n]
<1>1. v' = [v EXCEPT ![t] = r]
  OBVIOUS
<1>2. r \in LocalType /\ r.pc = v[t].pc /\ r.in = v[t].in /\ r.kind = v[t].kind /\ r.node = n
      /\ r.p = v[t].p /\ r.q = v[t].q /\ r.next = v[t].next /\ r.who = v[t].who /\ r.back = v[t].back
  BY Fields DEF LocalType
<1> HIDE DEF r
<1>3. QED BY <1>1, <1>2, Replace DEF Locals

\* ReleaseNode.
LEMMA FreeLocals ==
  ASSUME TypeInv, NEW t \in Threads,
         v' = [v EXCEPT ![t].node = Null, ![t].pc = "last"]
  PROVE  Locals(t, "last", v[t].in, v[t].kind, Null, v[t].p, v[t].q, v[t].next, v[t].who, v[t].back)
<1>0. "last" \in Labels
  BY DEF Labels, WaitLabels, Releasing
<1> DEFINE r == [v[t] EXCEPT !.node = Null, !.pc = "last"]
<1>1. v' = [v EXCEPT ![t] = r]
  OBVIOUS
<1>2. r \in LocalType /\ r.pc = "last" /\ r.in = v[t].in /\ r.kind = v[t].kind /\ r.node = Null
      /\ r.p = v[t].p /\ r.q = v[t].q /\ r.next = v[t].next /\ r.who = v[t].who /\ r.back = v[t].back
  BY <1>0, Fields DEF LocalType
<1> HIDE DEF r
<1>3. QED BY <1>1, <1>2, Replace DEF Locals

\* ReadNext.
LEMMA NextLocals ==
  ASSUME TypeInv, NEW t \in Threads, NEW x \in Nodes \cup {Null},
         v' = [v EXCEPT ![t].next = x, ![t].pc = "clear"]
  PROVE  Locals(t, "clear", v[t].in, v[t].kind, v[t].node, v[t].p, v[t].q, x, v[t].who, v[t].back)
<1>0. "clear" \in Labels
  BY DEF Labels, WaitLabels, Releasing
<1> DEFINE r == [v[t] EXCEPT !.next = x, !.pc = "clear"]
<1>1. v' = [v EXCEPT ![t] = r]
  OBVIOUS
<1>2. r \in LocalType /\ r.pc = "clear" /\ r.in = v[t].in /\ r.kind = v[t].kind /\ r.node = v[t].node
      /\ r.p = v[t].p /\ r.q = v[t].q /\ r.next = x /\ r.who = v[t].who /\ r.back = v[t].back
  BY <1>0, Fields DEF LocalType
<1> HIDE DEF r
<1>3. QED BY <1>1, <1>2, Replace DEF Locals

\* ReadWaiter.
LEMMA WhoLocals ==
  ASSUME TypeInv, NEW t \in Threads, NEW who \in Waiters,
         v' = [v EXCEPT ![t].who = who, ![t].pc = "wake"]
  PROVE  Locals(t, "wake", v[t].in, v[t].kind, v[t].node, v[t].p, v[t].q, v[t].next, who, v[t].back)
<1>0. "wake" \in Labels
  BY DEF Labels, WaitLabels, Releasing
<1> DEFINE r == [v[t] EXCEPT !.who = who, !.pc = "wake"]
<1>1. v' = [v EXCEPT ![t] = r]
  OBVIOUS
<1>2. r \in LocalType /\ r.pc = "wake" /\ r.in = v[t].in /\ r.kind = v[t].kind /\ r.node = v[t].node
      /\ r.p = v[t].p /\ r.q = v[t].q /\ r.next = v[t].next /\ r.who = who /\ r.back = v[t].back
  BY <1>0, Fields DEF LocalType
<1> HIDE DEF r
<1>3. QED BY <1>1, <1>2, Replace DEF Locals

\* GoOn: at the label with the pointer, or back where release_waiters was called.
LEMMA GoOnLocals ==
  ASSUME TypeInv, NEW t \in Threads, NEW label \in Labels, NEW p \in Nodes \cup {Null},
         GoOn(t, p, label)
  PROVE  /\ p = Null => Locals(t, v[t].back, v[t].in, v[t].kind, v[t].node, Null, 0, Null,
                               Null, "idle")
         /\ p # Null => Locals(t, label, v[t].in, v[t].kind, v[t].node, p, v[t].q, Null,
                               Null, v[t].back)
<1>0. v[t].back \in Labels
  BY Fields DEF Labels, WaitLabels
<1>1. CASE p = Null
  <2> DEFINE s == [v[t] EXCEPT !.pc = v[t].back, !.p = Null, !.next = Null, !.who = Null]
             z == [s EXCEPT !.q = 0]
             r == [z EXCEPT !.back = "idle"]
  <2>1. v' = [v EXCEPT ![t] = r]
    BY <1>1 DEF GoOn
  <2>2. s \in LocalType /\ s.pc = v[t].back /\ s.in = v[t].in /\ s.kind = v[t].kind
        /\ s.node = v[t].node /\ s.p = Null /\ s.next = Null /\ s.who = Null
    BY Fields, <1>0 DEF LocalType
  <2> HIDE DEF s
  <2>3. z \in LocalType /\ z.pc = s.pc /\ z.in = s.in /\ z.kind = s.kind /\ z.node = s.node
        /\ z.p = s.p /\ z.q = 0 /\ z.next = s.next /\ z.who = s.who
    BY <2>2 DEF LocalType
  <2> HIDE DEF z
  <2>4. r \in LocalType /\ r.pc = z.pc /\ r.in = z.in /\ r.kind = z.kind /\ r.node = z.node
        /\ r.p = z.p /\ r.q = z.q /\ r.next = z.next /\ r.who = z.who /\ r.back = "idle"
    BY <2>3 DEF LocalType
  <2> HIDE DEF r
  <2>5. QED BY <1>1, <2>1, <2>2, <2>3, <2>4, Replace DEF Locals
<1>2. CASE p # Null
  <2> DEFINE r == [v[t] EXCEPT !.pc = label, !.p = p, !.next = Null, !.who = Null]
  <2>1. v' = [v EXCEPT ![t] = r]
    BY <1>2 DEF GoOn
  <2>2. r \in LocalType /\ r.pc = label /\ r.in = v[t].in /\ r.kind = v[t].kind /\ r.node = v[t].node
        /\ r.p = p /\ r.q = v[t].q /\ r.next = Null /\ r.who = Null /\ r.back = v[t].back
    BY Fields DEF LocalType
  <2> HIDE DEF r
  <2>3. QED BY <1>2, <2>1, <2>2, Replace DEF Locals
<1>3. QED BY <1>1, <1>2

\* Return: the initial locals.
LEMMA LocalLocals ==
  ASSUME TypeInv, NEW t \in Threads, v' = [v EXCEPT ![t] = Local]
  PROVE  Locals(t, "idle", 0, "default", Null, Null, 0, Null, Null, "idle")
<1>1. Local \in LocalType
  BY DEF Local, LocalType, Labels
<1>2. QED BY <1>1, Replace DEF Locals, Local

\* await_advance: a call of release_waiters in the phase.
LEMMA AwaitLocals ==
  ASSUME TypeInv, NEW w \in Waiters, NEW kind \in Kinds, await_advance(w, kind)
  PROVE  Locals(w, "release", phase, kind, Null, Null, 1 - get_queue(phase), Null, Null, "loop")
<1> DEFINE r == [Local EXCEPT !.in = phase, !.kind = kind, !.pc = "release",
                              !.q = 1 - get_queue(phase), !.back = "loop"]
<1>1. v' = [v EXCEPT ![w] = r] /\ w \in Threads
  BY DEF await_advance, Threads
<1>2. phase \in Nat /\ 1 - get_queue(phase) \in 0 .. 1
  BY DEF TypeInv, get_queue
<1>3. r \in LocalType /\ r.pc = "release" /\ r.in = phase /\ r.kind = kind /\ r.node = Null
      /\ r.p = Null /\ r.q = 1 - get_queue(phase) /\ r.next = Null /\ r.who = Null
      /\ r.back = "loop"
  BY <1>2 DEF Local, LocalType, Labels, Releasing
<1> HIDE DEF r
<1>4. QED BY <1>1, <1>3, Replace DEF Locals

(***************************************************************************)
(* What a step does to the chains.                                         *)
(***************************************************************************)

\* The marks reach nothing, and have no successor.
LEMMA Ends ==
  ASSUME Distinct, NEW x \in {Null, Lock}, NEW f
  PROVE  x \notin Nodes /\ From(f, {x}) = {} /\ Straight(f, x)
<1>1. x \notin Nodes
  BY DEF Distinct
<1>2. QED BY <1>1, FromNull

\* The chains of the state, before and after a step.
LEMMA Unfold ==
  /\ \A x : Chain(x) = From(Succ, {x})
  /\ \A i : Stack(i) = From(Succ, {qhead[i]}) /\ Stack(i)' = From(Succ', {qhead'[i]})
  /\ \A t : Hand(t) = From(Succ, {Rest(t)}) \cup Own(t) \cup From(Succ, {Then(t)})
  /\ \A t : Hand(t)' = From(Succ', {Rest(t)'}) \cup Own(t)' \cup From(Succ', {Then(t)'})
  /\ Linked' = Stack(0)' \cup Stack(1)' \cup UNION {Hand(t)' : t \in Threads}
<1>1. \A x : Chain(x) = From(Succ, {x})
  BY DEF Chain
<1>2. \A i : Stack(i) = From(Succ, {qhead[i]}) /\ Stack(i)' = From(Succ', {qhead'[i]})
  BY DEF Stack, Chain
<1>3. \A t : Hand(t) = From(Succ, {Rest(t)}) \cup Own(t) \cup From(Succ, {Then(t)})
  BY DEF Hand, Chain
<1>4. \A t : Hand(t)' = From(Succ', {Rest(t)'}) \cup Own(t)' \cup From(Succ', {Then(t)'})
  BY DEF Hand, Chain
<1>5. Linked' = Stack(0)' \cup Stack(1)' \cup UNION {Hand(t)' : t \in Threads}
  BY DEF Linked
<1>6. QED BY <1>1, <1>2, <1>3, <1>4, <1>5

\* The parts of what is linked.
LEMMA Parts ==
  /\ \A i \in 0 .. 1 : Stack(i) \subseteq Linked
  /\ \A t \in Threads : Hand(t) \subseteq Linked
  /\ \A n \in Linked : \/ \E i \in 0 .. 1 : n \in Stack(i)
                       \/ \E t \in Threads : n \in Hand(t)
<1>1. \A i \in 0 .. 1 : i = 0 \/ i = 1
  OBVIOUS
<1>2. \A i \in 0 .. 1 : Stack(i) \subseteq Linked
  BY <1>1 DEF Linked
<1>3. \A t \in Threads : Hand(t) \subseteq Linked
  BY DEF Linked
<1>4. \A n \in Linked : n \in Stack(0) \/ n \in Stack(1) \/ \E t \in Threads : n \in Hand(t)
  BY DEF Linked
<1>5. QED BY <1>2, <1>3, <1>4

\* The same after a step.
LEMMA PartsAfter ==
  \A n : n \in Linked' <=> \/ \E i \in 0 .. 1 : n \in Stack(i)'
                          \/ \E t \in Threads : n \in Hand(t)'
<1>1. \A i \in 0 .. 1 : i = 0 \/ i = 1
  OBVIOUS
<1>2. QED BY <1>1, Unfold

\* They are nodes.
LEMMA LinkedNodes ==
  ASSUME \A t \in Threads : Stage(t)
  PROVE  \A n \in Linked : n \in Nodes
<1>1. \A i \in 0 .. 1 : \A m \in Stack(i) : m \in Nodes
  BY Unfold, FromClosed
<1>2. ASSUME NEW u \in Threads, NEW m \in Hand(u)
      PROVE  m \in Nodes
  <2>1. Own(u) \subseteq Nodes
    BY DEF Stage, Own, Releasing
  <2>2. QED BY <2>1, Unfold, FromClosed
<1>3. QED BY <1>1, <1>2, Parts

\* A pointer whose chain keeps its successors.
LEMMA SameChain ==
  ASSUME NEW x, Straight(Succ, x), \A m \in From(Succ, {x}) : Succ'[m] = Succ[m]
  PROVE  From(Succ', {x}) = From(Succ, {x}) /\ Straight(Succ', x)
  BY StraightFrame

\* A step that leaves the successors of all other linked nodes than that of
\* t's own alone: what does not move keeps its chain.
LEMMA Kept ==
  ASSUME Shape, Distinct, NEW t \in Threads,
         \A n \in Linked : n \notin Own(t) => Succ'[n] = Succ[n]
  PROVE  /\ \A i \in 0 .. 1 : /\ From(Succ', {qhead[i]}) = Stack(i)
                              /\ Straight(Succ', qhead[i])
         /\ \A u \in Threads : /\ From(Succ', {Rest(u)}) = From(Succ, {Rest(u)})
                               /\ From(Succ', {Then(u)}) = From(Succ, {Then(u)})
                               /\ Straight(Succ', Rest(u)) /\ Straight(Succ', Then(u))
<1>1. Own(t) # {} => Rest(t) = Null
  BY DEF Own, Rest
<1>2. From(Succ, {Null}) = {}
  BY Ends
<1>3. ASSUME NEW i \in 0 .. 1
      PROVE  \A m \in From(Succ, {qhead[i]}) : Succ'[m] = Succ[m]
  <2>1. Stack(i) \subseteq Linked /\ Stack(i) \cap Own(t) = {}
    BY <1>3, Parts, Unfold DEF Shape, Apart
  <2>2. QED BY <2>1, Unfold
<1>4. ASSUME NEW u \in Threads
      PROVE  /\ \A m \in From(Succ, {Rest(u)}) : Succ'[m] = Succ[m]
             /\ \A m \in From(Succ, {Then(u)}) : Succ'[m] = Succ[m]
  <2>1. \A m \in From(Succ, {Rest(u)}) : m \notin Own(t)
    BY <1>1, <1>2, Unfold DEF Shape, Apart
  <2>2. \A m \in From(Succ, {Then(u)}) : m \notin Own(t)
    BY Unfold DEF Shape, Apart, Chains
  <2>3. Hand(u) \subseteq Linked
    BY <1>4, Parts
  <2>4. From(Succ, {Rest(u)}) \subseteq Linked /\ From(Succ, {Then(u)}) \subseteq Linked
    BY <2>3, Unfold
  <2>5. QED BY <2>1, <2>2, <2>4
<1>5. QED BY <1>3, <1>4, SameChain, Unfold DEF Shape, Chains

\* A step that moves nothing, but may let go of the node that t owns or turn
\* to the successor that t has read.
LEMMA Still ==
  ASSUME Shape, Distinct, NEW t \in Threads,
         \A n \in Linked : n \notin Own(t) => Succ'[n] = Succ[n],
         qhead' = qhead,
         \A u \in Threads : u # t => Rest(u)' = Rest(u) /\ Then(u)' = Then(u) /\ Own(u)' = Own(u),
         Own(t)' \subseteq Own(t),
         \/ Rest(t)' = Rest(t) /\ Then(t)' = Then(t)
         \/ Rest(t)' = Then(t) /\ Then(t)' = Null /\ Rest(t) = Null
  PROVE  /\ Apart' /\ Chains'
         /\ \A i \in 0 .. 1 : Stack(i)' = Stack(i)
         /\ \A u \in Threads : u # t => Hand(u)' = Hand(u)
         /\ Hand(t)' = Own(t)' \cup (Hand(t) \ Own(t))
<1>1. From(Succ, {Null}) = {} /\ From(Succ', {Null}) = {} /\ Straight(Succ', Null)
  BY Ends
<1>2. \A i \in 0 .. 1 : Stack(i)' = Stack(i)
  BY Kept, Unfold
<1>3. \A u \in Threads : u # t => Hand(u)' = Hand(u)
  BY Kept, Unfold
<1>4. Own(t) # {} => Rest(t) = Null
  BY DEF Own, Rest
<1>5. Own(t) \cap From(Succ, {Then(t)}) = {}
  BY Unfold DEF Shape, Chains
<1>6. Hand(t)' = Own(t)' \cup (Hand(t) \ Own(t))
  BY <1>1, <1>4, <1>5, Kept, Unfold
<1>7. Apart'
  <2>1. Hand(t)' \subseteq Hand(t)
    BY <1>6, Unfold
  <2>2. QED BY <1>2, <1>3, <2>1 DEF Shape, Apart
<1>8. Chains'
  <2>1. \A i \in 0 .. 1 : Straight(Succ', qhead'[i])
    BY Kept
  <2>2. ASSUME NEW u \in Threads
        PROVE  /\ Straight(Succ', Rest(u)') /\ Straight(Succ', Then(u)')
               /\ Own(u)' \cap From(Succ', {Then(u)'}) = {}
    <3>1. Straight(Succ', Rest(u)') /\ Straight(Succ', Then(u)')
      BY <1>1, Kept
    <3>2. Own(u)' \subseteq Own(u)
      OBVIOUS
    <3>3. From(Succ', {Then(u)'}) \subseteq From(Succ, {Then(u)})
      BY <1>1, Kept
    <3>4. Own(u) \cap From(Succ, {Then(u)}) = {}
      BY Unfold DEF Shape, Chains
    <3>5. QED BY <3>1, <3>2, <3>3, <3>4
  <2>3. QED BY <2>1, <2>2 DEF Chains, Chain
<1>9. QED BY <1>2, <1>3, <1>6, <1>7, <1>8

\* A thread takes a whole stack (release_waiters_single), or locks it for
\* the time in which it reads the successor (LockHead).
LEMMA Taken ==
  ASSUME TypeInv, Shape, Distinct, NEW t \in Threads, NEW q \in 0 .. 1, NEW e \in {Null, Lock},
         Succ' = Succ, qhead' = [qhead EXCEPT ![q] = e],
         \A u \in Threads : u # t => Rest(u)' = Rest(u) /\ Then(u)' = Then(u) /\ Own(u)' = Own(u),
         Rest(t) = Null, Then(t) = Null, Own(t) = {},
         Rest(t)' = qhead[q], Then(t)' = Null, Own(t)' = {}
  PROVE  /\ Apart' /\ Chains'
         /\ Stack(q)' = {} /\ \A i \in 0 .. 1 : i # q => Stack(i)' = Stack(i)
         /\ \A u \in Threads : u # t => Hand(u)' = Hand(u)
         /\ Hand(t) = {} /\ Hand(t)' = Stack(q)
<1>0. qhead'[q] = e /\ \A i \in 0 .. 1 : i # q => qhead'[i] = qhead[i]
  BY DEF TypeInv
<1>1. \A x \in {Null, Lock} : From(Succ, {x}) = {} /\ Straight(Succ, x)
  BY Ends
<1>2. Stack(q)' = {} /\ \A i \in 0 .. 1 : i # q => Stack(i)' = Stack(i)
  BY <1>0, <1>1, Unfold
<1>3. \A u \in Threads : u # t => Hand(u)' = Hand(u)
  BY Unfold
<1>4. Hand(t) = {} /\ Hand(t)' = Stack(q)
  BY <1>1, Unfold
<1>5. Apart'
  <2>1. ASSUME NEW i \in 0 .. 1, i # q
        PROVE  Stack(q) \cap Stack(i) = {}
    <3>1. (q = 0 \/ q = 1) /\ (i = 0 \/ i = 1)
      OBVIOUS
    <3>2. QED BY <2>1, <3>1 DEF Shape, Apart
  <2>2. ASSUME NEW u \in Threads, u # t
        PROVE  Hand(u) \cap Stack(q) = {}
    BY <2>2 DEF Shape, Apart
  <2>3. Stack(0)' \cap Stack(1)' = {}
    <3>1. q = 0 \/ q = 1
      OBVIOUS
    <3>2. QED BY <1>2, <3>1
  <2>4. ASSUME NEW u \in Threads
        PROVE  /\ \A i \in 0 .. 1 : Hand(u)' \cap Stack(i)' = {}
               /\ \A x \in Threads : x # u => Hand(u)' \cap Hand(x)' = {}
    <3>1. CASE u = t
      BY <1>2, <1>3, <1>4, <2>1, <2>2, <3>1
    <3>2. CASE u # t
      <4>1. \A i \in 0 .. 1 : Hand(u)' \cap Stack(i)' = {}
        BY <1>2, <1>3, <3>2 DEF Shape, Apart
      <4>2. \A x \in Threads : x # u => Hand(u)' \cap Hand(x)' = {}
        BY <1>3, <1>4, <2>2, <3>2 DEF Shape, Apart
      <4>3. QED BY <4>1, <4>2
    <3>3. QED BY <3>1, <3>2
  <2>5. QED BY <2>3, <2>4 DEF Apart
<1>6. Chains'
  <2>1. \A i \in 0 .. 1 : Straight(Succ', qhead'[i])
    BY <1>0, <1>1 DEF Shape, Chains
  <2>2. ASSUME NEW u \in Threads
        PROVE  /\ Straight(Succ', Rest(u)') /\ Straight(Succ', Then(u)')
               /\ Own(u)' \cap From(Succ', {Then(u)'}) = {}
    BY <1>1, Unfold DEF Shape, Chains
  <2>3. QED BY <2>1, <2>2 DEF Chains, Chain
<1>7. QED BY <1>2, <1>3, <1>4, <1>5, <1>6

\* ReadNext, cooperative: the successor is the new head.
LEMMA Split ==
  ASSUME Shape, Distinct, NEW t \in Threads, NEW q \in 0 .. 1, NEW p \in Nodes,
         Succ' = Succ, qhead[q] = Lock, qhead'[q] = Succ[p],
         \A i \in 0 .. 1 : i # q => qhead'[i] = qhead[i],
         \A u \in Threads : u # t => Rest(u)' = Rest(u) /\ Then(u)' = Then(u) /\ Own(u)' = Own(u),
         Rest(t) = p, Then(t) = Null, Own(t) = {},
         Rest(t)' = Null, Then(t)' = Null, Own(t)' = {p}
  PROVE  /\ Apart' /\ Chains'
         /\ \A i \in 0 .. 1 : i # q => Stack(i)' = Stack(i)
         /\ \A u \in Threads : u # t => Hand(u)' = Hand(u)
         /\ Hand(t)' = {p} /\ Stack(q) = {} /\ Stack(q)' = Hand(t) \ {p} /\ p \in Hand(t)
<1>0. qhead'[q] = Succ[p] /\ \A i \in 0 .. 1 : i # q => qhead'[i] = qhead[i]
  OBVIOUS
<1>1. \A x \in {Null, Lock} : From(Succ, {x}) = {} /\ Straight(Succ, x)
  BY Ends
<1>2. \A i \in 0 .. 1 : i # q => Stack(i)' = Stack(i)
  BY <1>0, Unfold
<1>3. \A u \in Threads : u # t => Hand(u)' = Hand(u)
  BY Unfold
<1>4. p \notin From(Succ, {Succ[p]}) /\ Straight(Succ, Succ[p])
  BY StraightHead DEF Shape, Chains
<1>5. /\ Hand(t) = {p} \cup From(Succ, {Succ[p]}) /\ Hand(t)' = {p}
      /\ Stack(q) = {} /\ Stack(q)' = From(Succ, {Succ[p]})
  BY <1>0, <1>1, FromHead, Unfold
<1>6. Apart'
  <2>1. ASSUME NEW i \in 0 .. 1, i # q
        PROVE  Hand(t) \cap Stack(i) = {}
    BY DEF Shape, Apart
  <2>2. ASSUME NEW u \in Threads, u # t
        PROVE  Hand(t) \cap Hand(u) = {}
    BY <2>2 DEF Shape, Apart
  <2>3. Stack(0)' \cap Stack(1)' = {}
    <3>1. q = 0 \/ q = 1
      OBVIOUS
    <3>2. QED BY <1>2, <1>5, <2>1, <3>1
  <2>4. ASSUME NEW u \in Threads
        PROVE  /\ \A i \in 0 .. 1 : Hand(u)' \cap Stack(i)' = {}
               /\ \A x \in Threads : x # u => Hand(u)' \cap Hand(x)' = {}
    <3>1. CASE u = t
      BY <1>2, <1>3, <1>4, <1>5, <2>1, <2>2, <3>1
    <3>2. CASE u # t
      <4>1. \A i \in 0 .. 1 : Hand(u)' \cap Stack(i)' = {}
        BY <1>2, <1>3, <1>5, <2>2, <3>2 DEF Shape, Apart
      <4>2. \A x \in Threads : x # u => Hand(u)' \cap Hand(x)' = {}
        BY <1>3, <1>5, <2>2, <3>2 DEF Shape, Apart
      <4>3. QED BY <4>1, <4>2
    <3>3. QED BY <3>1, <3>2
  <2>5. QED BY <2>3, <2>4 DEF Apart
<1>7. Chains'
  <2>1. \A i \in 0 .. 1 : Straight(Succ', qhead'[i])
    BY <1>0, <1>4 DEF Shape, Chains
  <2>2. ASSUME NEW u \in Threads
        PROVE  /\ Straight(Succ', Rest(u)') /\ Straight(Succ', Then(u)')
               /\ Own(u)' \cap From(Succ', {Then(u)'}) = {}
    BY <1>1, Unfold DEF Shape, Chains
  <2>3. QED BY <2>1, <2>2 DEF Chains, Chain
<1>8. QED BY <1>2, <1>3, <1>4, <1>5, <1>6, <1>7

\* ReadNext, waking thread: the successor is the rest.
LEMMA Read ==
  ASSUME Shape, Distinct, NEW t \in Threads, NEW p \in Nodes,
         Succ' = Succ, qhead' = qhead,
         \A u \in Threads : u # t => Rest(u)' = Rest(u) /\ Then(u)' = Then(u) /\ Own(u)' = Own(u),
         Rest(t) = p, Then(t) = Null, Own(t) = {},
         Rest(t)' = Null, Then(t)' = Succ[p], Own(t)' = {p}
  PROVE  /\ Apart' /\ Chains'
         /\ \A i \in 0 .. 1 : Stack(i)' = Stack(i)
         /\ \A u \in Threads : Hand(u)' = Hand(u)
<1>1. From(Succ, {Null}) = {} /\ Straight(Succ, Null)
  BY Ends
<1>2. \A i \in 0 .. 1 : Stack(i)' = Stack(i)
  BY Unfold
<1>3. p \notin From(Succ, {Succ[p]}) /\ Straight(Succ, Succ[p])
  BY StraightHead DEF Shape, Chains
<1>4. ASSUME NEW u \in Threads
      PROVE  Hand(u)' = Hand(u)
  <2>1. CASE u = t
    <3>1. From(Succ, {p}) = {p} \cup From(Succ, {Succ[p]})
      BY FromHead
    <3>2. Hand(t) = From(Succ, {p}) /\ Hand(t)' = {p} \cup From(Succ, {Succ[p]})
      BY <1>1, Unfold
    <3>3. QED BY <2>1, <3>1, <3>2
  <2>2. CASE u # t
    BY <2>2, Unfold
  <2>3. QED BY <2>1, <2>2
<1>5. Apart'
  BY <1>2, <1>4 DEF Shape, Apart
<1>6. Chains'
  <2>1. \A i \in 0 .. 1 : Straight(Succ', qhead'[i])
    BY DEF Shape, Chains
  <2>2. ASSUME NEW u \in Threads
        PROVE  /\ Straight(Succ', Rest(u)') /\ Straight(Succ', Then(u)')
               /\ Own(u)' \cap From(Succ', {Then(u)'}) = {}
    BY <1>1, <1>3, Unfold DEF Shape, Chains
  <2>3. QED BY <2>1, <2>2 DEF Chains, Chain
<1>7. QED BY <1>2, <1>4, <1>5, <1>6

\* Push: a node that is nowhere becomes the head.
LEMMA Pushed ==
  ASSUME TypeInv, Shape, Distinct, NEW t \in Threads, NEW q \in 0 .. 1,
         NEW n \in Nodes, n \notin Linked,
         Succ' = [Succ EXCEPT ![n] = qhead[q]], qhead' = [qhead EXCEPT ![q] = n],
         \A u \in Threads : Rest(u)' = Rest(u) /\ Then(u)' = Then(u) /\ Own(u)' = Own(u)
  PROVE  /\ Apart' /\ Chains'
         /\ Stack(q)' = {n} \cup Stack(q) /\ \A i \in 0 .. 1 : i # q => Stack(i)' = Stack(i)
         /\ \A u \in Threads : Hand(u)' = Hand(u)
<1>0. /\ qhead'[q] = n /\ \A i \in 0 .. 1 : i # q => qhead'[i] = qhead[i]
      /\ Succ'[n] = qhead[q] /\ \A m \in Nodes : m # n => Succ'[m] = Succ[m]
  BY DEF TypeInv, Succ
<1>1. \A m \in Linked : m \in Nodes
  BY LinkedNodes DEF Shape
<1>2. \A m \in Linked : Succ'[m] = Succ[m]
  BY <1>0, <1>1
<1>3. /\ \A i \in 0 .. 1 : From(Succ', {qhead[i]}) = Stack(i) /\ Straight(Succ', qhead[i])
      /\ \A u \in Threads : /\ From(Succ', {Rest(u)}) = From(Succ, {Rest(u)})
                            /\ From(Succ', {Then(u)}) = From(Succ, {Then(u)})
                            /\ Straight(Succ', Rest(u)) /\ Straight(Succ', Then(u))
  BY <1>2, Kept
<1>4. Stack(q)' = {n} \cup Stack(q) /\ \A i \in 0 .. 1 : i # q => Stack(i)' = Stack(i)
  <2>1. From(Succ', {n}) = {n} \cup From(Succ', {Succ'[n]})
    BY FromHead
  <2>2. QED BY <1>0, <1>3, <2>1, Unfold
<1>5. \A u \in Threads : Hand(u)' = Hand(u)
  BY <1>3, Unfold
<1>6. Apart'
  <2>1. \A i \in 0 .. 1 : n \notin Stack(i)
    BY Parts
  <2>2. \A u \in Threads : n \notin Hand(u)
    BY Parts
  <2>3. Stack(0)' \cap Stack(1)' = {}
    <3>1. q = 0 \/ q = 1
      OBVIOUS
    <3>2. QED BY <1>4, <2>1, <3>1 DEF Shape, Apart
  <2>4. ASSUME NEW u \in Threads
        PROVE  /\ \A i \in 0 .. 1 : Hand(u)' \cap Stack(i)' = {}
               /\ \A x \in Threads : x # u => Hand(u)' \cap Hand(x)' = {}
    <3>1. \A i \in 0 .. 1 : Hand(u) \cap Stack(i) = {}
      BY DEF Shape, Apart
    <3>2. \A i \in 0 .. 1 : Hand(u)' \cap Stack(i)' = {}
      BY <1>4, <1>5, <2>2, <3>1
    <3>3. \A x \in Threads : x # u => Hand(u)' \cap Hand(x)' = {}
      BY <1>5 DEF Shape, Apart
    <3>4. QED BY <3>2, <3>3
  <2>5. QED BY <2>3, <2>4 DEF Apart
<1>7. Chains'
  <2>1. Straight(Succ', n)
    <3>1. n \notin From(Succ', {Succ'[n]}) /\ Straight(Succ', Succ'[n])
      BY <1>0, <1>3, Parts
    <3>2. QED BY <3>1, StraightHead
  <2>2. \A i \in 0 .. 1 : Straight(Succ', qhead'[i])
    BY <1>0, <1>3, <2>1
  <2>3. ASSUME NEW u \in Threads
        PROVE  /\ Straight(Succ', Rest(u)') /\ Straight(Succ', Then(u)')
               /\ Own(u)' \cap From(Succ', {Then(u)'}) = {}
    BY <1>3, Unfold DEF Shape, Chains
  <2>4. QED BY <2>2, <2>3 DEF Chains, Chain
<1>8. QED BY <1>4, <1>5, <1>6, <1>7

(***************************************************************************)
(* Steps that leave the stacks alone.                                      *)
(***************************************************************************)

\* Nothing in hand outside of a release.
LEMMA Away ==
  ASSUME NEW t \in Threads, Stage(t), v[t].pc \notin {"next", "clear", "waiter", "unpark", "wake"}
  PROVE  Rest(t) = Null /\ Then(t) = Null /\ Own(t) = {}
  BY DEF Stage, Rest, Then, Own

\* The same after a step.
LEMMA AwayAfter ==
  ASSUME NEW t \in Threads, Stage(t)', v'[t].pc \notin {"next", "clear", "waiter", "unpark", "wake"}
  PROVE  Rest(t)' = Null /\ Then(t)' = Null /\ Own(t)' = {}
  BY DEF Stage, Rest, Then, Own

\* The conjuncts that concern the other threads.
LEMMA StageOthers ==
  ASSUME Shape, NEW t \in Threads, policy' = policy,
         \A u \in Threads : u # t => v'[u] = v[u], Stage(t)'
  PROVE  /\ \A u \in Threads : Stage(u)'
         /\ \A u \in Threads : u # t => Rest(u)' = Rest(u) /\ Then(u)' = Then(u) /\ Own(u)' = Own(u)
<1>1. ASSUME NEW u \in Threads, u # t
      PROVE  Stage(u)' /\ Rest(u)' = Rest(u) /\ Then(u)' = Then(u) /\ Own(u)' = Own(u)
  BY <1>1 DEF Shape, Stage, Rest, Then, Own
<1>2. QED BY <1>1

\* The owners stay.
LEMMA OwnerOthers ==
  ASSUME Shape,
         \A w \in Waiters :
           /\ v'[w].node \in {v[w].node, Null}
           /\ v'[w].node # Null => /\ node'[v[w].node].live /\ node'[v[w].node].in_use
                                   /\ node'[v[w].node].waiter \in {Null, w}
  PROVE  \A w \in Waiters : Owner(w)'
  BY DEF Shape, Owner

\* The locked head stays.
LEMMA LockedOthers ==
  ASSUME Shape, policy' = policy, qhead' = qhead,
         policy = "COOPERATIVE" =>
           \A t \in Threads : v'[t].pc = "next" => v[t].pc = "next" /\ v'[t].q = v[t].q
  PROVE  Locked'
  BY DEF Shape, Locked

\* The flags stay.
LEMMA FlagsSame ==
  ASSUME Shape, Linked' = Linked, late' = late,
         \A n \in Nodes : /\ node'[n].live = node[n].live /\ node'[n].in_use = node[n].in_use
                          /\ node'[n].queued = node[n].queued,
         \A n \in Linked : n \in Nodes,
         \A w \in Waiters : v[w].pc = "flag" => v'[w].pc = "flag" /\ v'[w].node = v[w].node
  PROVE  Flags'
  BY DEF Shape, Flags

\* What is linked, when the parts are the same.
LEMMA SameLinked ==
  ASSUME \A i \in 0 .. 1 : Stack(i)' = Stack(i), \A u \in Threads : Hand(u)' = Hand(u)
  PROVE  Linked' = Linked
<1>1. Stack(0)' = Stack(0) /\ Stack(1)' = Stack(1)
  OBVIOUS
<1>2. QED BY <1>1 DEF Linked

\* A step of t that moves no node: it may change a waiter field, and the
\* successor of a node that is not linked.
LEMMA Quiet ==
  ASSUME TypeInv, Shape, Distinct, NEW t \in Threads,
         policy' = policy, qhead' = qhead, late' = late,
         \A u \in Threads : u # t => v'[u] = v[u],
         Stage(t)',
         v'[t].node \in {v[t].node, Null},
         v[t].pc # "flag",
         policy = "COOPERATIVE" /\ v'[t].pc = "next" => v[t].pc = "next" /\ v'[t].q = v[t].q,
         Own(t)' = Own(t),
         \/ Rest(t)' = Rest(t) /\ Then(t)' = Then(t)
         \/ Rest(t)' = Then(t) /\ Then(t)' = Null /\ Rest(t) = Null,
         \A n \in Nodes :
           /\ node'[n].live = node[n].live /\ node'[n].in_use = node[n].in_use
           /\ node'[n].queued = node[n].queued /\ node'[n].waiter \in {node[n].waiter, Null},
         \A n \in Linked : Succ'[n] = Succ[n]
  PROVE  /\ Shape'
         /\ \A i \in 0 .. 1 : Stack(i)' = Stack(i)
         /\ \A u \in Threads : Hand(u)' = Hand(u)
<1>1. /\ \A u \in Threads : Stage(u)'
      /\ \A u \in Threads : u # t => Rest(u)' = Rest(u) /\ Then(u)' = Then(u) /\ Own(u)' = Own(u)
  BY StageOthers
<1>2. /\ Apart' /\ Chains'
      /\ \A i \in 0 .. 1 : Stack(i)' = Stack(i)
      /\ \A u \in Threads : u # t => Hand(u)' = Hand(u)
      /\ Hand(t)' = Own(t)' \cup (Hand(t) \ Own(t))
  BY <1>1, Still
<1>3. \A u \in Threads : Hand(u)' = Hand(u)
  <2>1. Own(t) \subseteq Hand(t)
    BY Unfold
  <2>2. Hand(t)' = Hand(t)
    BY <1>2, <2>1
  <2>3. QED BY <1>2, <2>2
<1>4. \A w \in Waiters : Owner(w)'
  <2>1. ASSUME NEW w \in Waiters
        PROVE  v'[w].node \in {v[w].node, Null}
    BY DEF Threads
  <2>2. ASSUME NEW w \in Waiters, v'[w].node # Null
        PROVE  /\ node'[v[w].node].live /\ node'[v[w].node].in_use
               /\ node'[v[w].node].waiter \in {Null, w}
    <3>1. v[w].node \in Nodes
      BY <2>1, <2>2, Fields DEF Threads
    <3>2. QED BY <2>1, <2>2, <3>1 DEF Shape, Owner
  <2>3. QED BY <2>1, <2>2, OwnerOthers
<1>5. Locked'
  BY LockedOthers
<1>6. Flags'
  <2>1. Linked' = Linked
    BY <1>2, <1>3, SameLinked
  <2>2. \A n \in Linked : n \in Nodes
    BY LinkedNodes DEF Shape
  <2>3. \A w \in Waiters : v[w].pc = "flag" => v'[w].pc = "flag" /\ v'[w].node = v[w].node
    BY DEF Threads
  <2>4. QED BY <2>1, <2>2, <2>3, FlagsSame
<1>7. QED BY <1>1, <1>2, <1>3, <1>4, <1>5, <1>6 DEF Shape

(***************************************************************************)
(* What a step does to a node, field by field.                             *)
(***************************************************************************)
NodeIs(n, live, in_use, queued, next, waiter) ==
  /\ node' \in [Nodes -> NodeType]
  /\ \A m \in Nodes : m # n => node'[m] = node[m]
  /\ node'[n].live = live /\ node'[n].in_use = in_use /\ node'[n].queued = queued
  /\ node'[n].next = next /\ node'[n].waiter = waiter

\* The fields of a node.
LEMMA NodeFields ==
  ASSUME TypeInv, NEW n \in Nodes
  PROVE  /\ node[n] \in NodeType
         /\ node[n].live \in BOOLEAN /\ node[n].in_use \in BOOLEAN /\ node[n].queued \in BOOLEAN
         /\ node[n].next \in Nodes \cup {Null} /\ node[n].waiter \in Waiters \cup {Null}
  BY DEF TypeInv, NodeType

\* Replacing them by a record.
LEMMA NodeReplace ==
  ASSUME TypeInv, NEW n \in Nodes, NEW r \in NodeType, node' = [node EXCEPT ![n] = r]
  PROVE  /\ node' \in [Nodes -> NodeType] /\ node'[n] = r
         /\ \A m \in Nodes : m # n => node'[m] = node[m]
<1>1. node \in [Nodes -> NodeType]
  BY DEF TypeInv
<1>2. QED BY <1>1

\* One lemma for each kind of update.
LEMMA NodeFreed ==
  ASSUME TypeInv, NEW n \in Nodes, node' = [node EXCEPT ![n] = Free]
  PROVE  NodeIs(n, FALSE, FALSE, FALSE, Null, Null)
<1>1. Free \in NodeType
  BY DEF Free, NodeType
<1>2. QED BY <1>1, NodeReplace DEF NodeIs, Free

\* queue_release.
LEMMA NodeUnqueued ==
  ASSUME TypeInv, NEW n \in Nodes, node' = [node EXCEPT ![n] = [node[n] EXCEPT !.queued = FALSE]]
  PROVE  NodeIs(n, node[n].live, node[n].in_use, FALSE, node[n].next, node[n].waiter)
<1> DEFINE r == [node[n] EXCEPT !.queued = FALSE]
<1>1. /\ r \in NodeType /\ r.live = node[n].live /\ r.in_use = node[n].in_use
      /\ r.queued = FALSE /\ r.next = node[n].next /\ r.waiter = node[n].waiter
  BY NodeFields DEF NodeType
<1>2. node' = [node EXCEPT ![n] = r]
  OBVIOUS
<1> HIDE DEF r
<1>3. QED BY <1>1, <1>2, NodeReplace DEF NodeIs

\* SetQueued.
LEMMA NodeQueued ==
  ASSUME TypeInv, NEW n \in Nodes, node' = [node EXCEPT ![n].queued = TRUE]
  PROVE  NodeIs(n, node[n].live, node[n].in_use, TRUE, node[n].next, node[n].waiter)
<1> DEFINE r == [node[n] EXCEPT !.queued = TRUE]
<1>1. /\ r \in NodeType /\ r.live = node[n].live /\ r.in_use = node[n].in_use
      /\ r.queued = TRUE /\ r.next = node[n].next /\ r.waiter = node[n].waiter
  BY NodeFields DEF NodeType
<1>2. node' = [node EXCEPT ![n] = r]
  OBVIOUS
<1> HIDE DEF r
<1>3. QED BY <1>1, <1>2, NodeReplace DEF NodeIs

\* ReleaseNode.
LEMMA NodeLeft ==
  ASSUME TypeInv, NEW n \in Nodes, node' = [node EXCEPT ![n] = [node[n] EXCEPT !.in_use = FALSE]]
  PROVE  NodeIs(n, node[n].live, FALSE, node[n].queued, node[n].next, node[n].waiter)
<1> DEFINE r == [node[n] EXCEPT !.in_use = FALSE]
<1>1. /\ r \in NodeType /\ r.live = node[n].live /\ r.in_use = FALSE
      /\ r.queued = node[n].queued /\ r.next = node[n].next /\ r.waiter = node[n].waiter
  BY NodeFields DEF NodeType
<1>2. node' = [node EXCEPT ![n] = r]
  OBVIOUS
<1> HIDE DEF r
<1>3. QED BY <1>1, <1>2, NodeReplace DEF NodeIs

\* Push.
LEMMA NodeLinked ==
  ASSUME TypeInv, NEW n \in Nodes, NEW x \in Nodes \cup {Null},
         node' = [node EXCEPT ![n].next = x]
  PROVE  NodeIs(n, node[n].live, node[n].in_use, node[n].queued, x, node[n].waiter)
<1> DEFINE r == [node[n] EXCEPT !.next = x]
<1>1. /\ r \in NodeType /\ r.live = node[n].live /\ r.in_use = node[n].in_use
      /\ r.queued = node[n].queued /\ r.next = x /\ r.waiter = node[n].waiter
  BY NodeFields DEF NodeType
<1>2. node' = [node EXCEPT ![n] = r]
  OBVIOUS
<1> HIDE DEF r
<1>3. QED BY <1>1, <1>2, NodeReplace DEF NodeIs

\* DropWaiter.
LEMMA NodeDropped ==
  ASSUME TypeInv, NEW n \in Nodes, node' = [node EXCEPT ![n].waiter = Null]
  PROVE  NodeIs(n, node[n].live, node[n].in_use, node[n].queued, node[n].next, Null)
<1> DEFINE r == [node[n] EXCEPT !.waiter = Null]
<1>1. /\ r \in NodeType /\ r.live = node[n].live /\ r.in_use = node[n].in_use
      /\ r.queued = node[n].queued /\ r.next = node[n].next /\ r.waiter = Null
  BY NodeFields DEF NodeType
<1>2. node' = [node EXCEPT ![n] = r]
  OBVIOUS
<1> HIDE DEF r
<1>3. QED BY <1>1, <1>2, NodeReplace DEF NodeIs

\* is_releasable.
LEMMA NodeLooked ==
  ASSUME TypeInv, NEW n \in Nodes, NEW int \in BOOLEAN, NEW x \in Waiters \cup {Null},
         node' = [node EXCEPT ![n].was_interrupted = int, ![n].waiter = x]
  PROVE  NodeIs(n, node[n].live, node[n].in_use, node[n].queued, node[n].next, x)
<1> DEFINE r == [node[n] EXCEPT !.was_interrupted = int, !.waiter = x]
<1>1. /\ r \in NodeType /\ r.live = node[n].live /\ r.in_use = node[n].in_use
      /\ r.queued = node[n].queued /\ r.next = node[n].next /\ r.waiter = x
  BY NodeFields DEF NodeType
<1>2. node' = [node EXCEPT ![n] = r]
  OBVIOUS
<1> HIDE DEF r
<1>3. QED BY <1>1, <1>2, NodeReplace DEF NodeIs

\* Loop.
LEMMA NodeMade ==
  ASSUME TypeInv, NEW n \in Nodes, NEW kind \in Kinds \cup {"default"}, NEW int \in BOOLEAN,
         NEW w \in Waiters, NEW in \in Nat,
         node' = [node EXCEPT ![n] =
                    [live |-> TRUE, in_use |-> TRUE, queued |-> FALSE, kind |-> kind,
                     was_interrupted |-> int, next |-> Null, waiter |-> w, phase |-> in]]
  PROVE  NodeIs(n, TRUE, TRUE, FALSE, Null, w)
<1> DEFINE r == [live |-> TRUE, in_use |-> TRUE, queued |-> FALSE, kind |-> kind,
                 was_interrupted |-> int, next |-> Null, waiter |-> w, phase |-> in]
<1>1. r \in NodeType
  BY DEF NodeType
<1>2. node' = [node EXCEPT ![n] = r]
  OBVIOUS
<1>3. node' \in [Nodes -> NodeType] /\ node'[n] = r /\ \A m \in Nodes : m # n => node'[m] = node[m]
  BY <1>1, <1>2, NodeReplace
<1>4. QED BY <1>3 DEF NodeIs

\* The successors change as the next fields do.
LEMMA SuccIs ==
  ASSUME NEW n \in Nodes, NEW live, NEW in_use, NEW queued, NEW next, NEW waiter,
         NodeIs(n, live, in_use, queued, next, waiter)
  PROVE  /\ Succ' = [Succ EXCEPT ![n] = next]
         /\ \A m \in Nodes : m # n => Succ'[m] = Succ[m]
         /\ next = node[n].next => Succ' = Succ
<1>1. Succ' = [Succ EXCEPT ![n] = next]
  BY DEF NodeIs, Succ
<1>2. \A m \in Nodes : m # n => Succ'[m] = Succ[m]
  BY DEF NodeIs, Succ
<1>3. ASSUME next = node[n].next
      PROVE  Succ' = Succ
  BY <1>1, <1>3 DEF Succ
<1>4. QED BY <1>1, <1>2, <1>3

(***************************************************************************)
(* The steps of release_waiters.                                           *)
(***************************************************************************)

\* After GoOn the thread has nothing in hand but what it goes on with.
LEMMA GoOnStage ==
  ASSUME TypeInv, Distinct, NEW t \in Threads, Stage(t), v[t].pc \in Releasing,
         NEW p \in Nodes \cup {Null}, NEW label \in {"pop", "next"},
         label = "pop" => policy = "COOPERATIVE", policy' = policy, GoOn(t, p, label)
  PROVE  /\ Stage(t)' /\ v' \in [Threads -> LocalType]
         /\ \A u \in Threads : u # t => v'[u] = v[u]
         /\ v'[t].node = v[t].node /\ v'[t].pc # "flag"
         /\ Own(t)' = {} /\ Then(t)' = Null /\ Rest(t)' = IF label = "next" THEN p ELSE Null
         /\ v'[t].pc \in {"pop", "next"} => v'[t].q = v[t].q
         /\ v'[t].pc = "next" => label = "next"
         /\ p = Null => v'[t].pc = v[t].back
         /\ p # Null => /\ v'[t].pc = label /\ v'[t].p = p /\ v'[t].q = v[t].q
                        /\ v'[t].back = v[t].back
<1>0. label \in Labels
  BY DEF Labels, Releasing
<1>1. CASE p = Null
  <2>1. Locals(t, v[t].back, v[t].in, v[t].kind, v[t].node, Null, 0, Null, Null, "idle")
    BY <1>0, <1>1, GoOnLocals
  <2>2. v[t].back \in IF t = Advancer THEN {"idle", "odd"} ELSE {"loop", "done"}
    BY DEF Stage
  <2>3. Stage(t)'
    BY <2>1, <2>2 DEF Locals, Stage, Releasing, Distinct
  <2>4. QED BY <1>1, <2>1, <2>2, <2>3 DEF Locals, Own, Then, Rest
<1>2. CASE p # Null
  <2>1. Locals(t, label, v[t].in, v[t].kind, v[t].node, p, v[t].q, Null, Null, v[t].back)
    BY <1>0, <1>2, GoOnLocals
  <2>2. Stage(t)'
    BY <1>2, <2>1 DEF Locals, Stage, Releasing, Distinct
  <2>3. QED BY <1>2, <2>1, <2>2 DEF Locals, Own, Then, Rest
<1>3. QED BY <1>1, <1>2

\* The whole stack goes to the hand of t, or is locked while t has it.
LEMMA TakenShape ==
  ASSUME TypeInv, Shape, Distinct, NEW t \in Threads, NEW q \in 0 .. 1, NEW e \in {Null, Lock},
         policy' = policy, late' = late, node' = node, qhead' = [qhead EXCEPT ![q] = e],
         \A u \in Threads : u # t => v'[u] = v[u],
         Stage(t)', v'[t].node = v[t].node, v[t].pc # "flag",
         Rest(t) = Null, Then(t) = Null, Own(t) = {},
         Rest(t)' = qhead[q], Then(t)' = Null, Own(t)' = {},
         Locked'
  PROVE  Shape'
<1>1. /\ \A u \in Threads : Stage(u)'
      /\ \A u \in Threads : u # t => Rest(u)' = Rest(u) /\ Then(u)' = Then(u) /\ Own(u)' = Own(u)
  BY StageOthers
<1>2. Succ' = Succ
  BY DEF Succ
<1>3. /\ Apart' /\ Chains'
      /\ Stack(q)' = {} /\ \A i \in 0 .. 1 : i # q => Stack(i)' = Stack(i)
      /\ \A u \in Threads : u # t => Hand(u)' = Hand(u)
      /\ Hand(t) = {} /\ Hand(t)' = Stack(q)
  BY <1>1, <1>2, Taken
<1>4. \A w \in Waiters : Owner(w)'
  <2>1. \A w \in Waiters : v'[w].node = v[w].node
    BY DEF Threads
  <2>2. QED BY <2>1 DEF Shape, Owner
<1>5. Flags'
  <2>1. \A n : n \in Linked' <=> n \in Linked
    <3>1. ASSUME NEW n
          PROVE  n \in Linked <=> \/ \E i \in 0 .. 1 : n \in Stack(i)
                                  \/ \E u \in Threads : n \in Hand(u)
      BY Parts
    <3>2. QED BY <1>3, <3>1, PartsAfter
  <2>2. Linked' = Linked
    BY <2>1, Unfold DEF Linked
  <2>3. \A n \in Linked : n \in Nodes
    BY LinkedNodes DEF Shape
  <2>4. \A w \in Waiters : v[w].pc = "flag" => v'[w].pc = "flag" /\ v'[w].node = v[w].node
    BY DEF Threads
  <2>5. QED BY <2>2, <2>3, <2>4, FlagsSame
<1>6. QED BY <1>1, <1>3, <1>4, <1>5 DEF Shape

\* release_waiters_single keeps the invariant.
LEMMA SingleInv ==
  ASSUME NInv, Distinct, NEW t \in Threads, release_waiters_single(t)
  PROVE  NInv'
<1> USE DEF park, past
<1>0. TypeInv /\ ~broken /\ Shape /\ Stage(t)
  BY DEF NInv, release_waiters_single, At, Shape
<1>1. /\ v[t].pc = "release" /\ policy = "WAKING_THREAD" /\ policy' = policy
      /\ qhead' = [qhead EXCEPT ![v[t].q] = Null] /\ GoOn(t, qhead[v[t].q], "next")
      /\ node' = node /\ late' = late /\ broken' = broken
  BY DEF release_waiters_single, At
<1>2. v[t].q \in 0 .. 1 /\ qhead[v[t].q] \in Nodes \cup {Null}
  <2>1. v[t].q \in 0 .. 1
    BY <1>0, Fields
  <2>2. qhead[v[t].q] \in Nodes \cup {Null, Lock}
    BY <1>0, <2>1 DEF TypeInv
  <2>3. QED BY <1>0, <1>1, <2>1, <2>2 DEF Shape, Locked
<1>3. /\ Stage(t)' /\ v' \in [Threads -> LocalType]
      /\ \A u \in Threads : u # t => v'[u] = v[u]
      /\ v'[t].node = v[t].node
      /\ Own(t)' = {} /\ Then(t)' = Null /\ Rest(t)' = qhead[v[t].q]
  BY <1>0, <1>1, <1>2, GoOnStage DEF Releasing
<1>4. Rest(t) = Null /\ Then(t) = Null /\ Own(t) = {}
  BY <1>0, <1>1, Away
<1>5. Locked'
  <2>1. \A i \in 0 .. 1 : qhead'[i] = IF i = v[t].q THEN Null ELSE qhead[i]
    BY <1>0, <1>1 DEF TypeInv
  <2>2. Null # Lock
    BY DEF Null, Lock
  <2>3. QED BY <1>0, <1>1, <2>1, <2>2 DEF Shape, Locked
<1>6. Shape'
  BY <1>0, <1>1, <1>2, <1>3, <1>4, <1>5, TakenShape
<1>7. TypeInv'
  BY <1>0, <1>1, <1>2, <1>3 DEF TypeInv, release_waiters_single
<1>8. QED BY <1>6, <1>7 DEF NInv

\* A step that touches no node and no head.
LEMMA QuietInv ==
  ASSUME NInv, ~broken, Distinct, NEW t \in Threads,
         policy' = policy, phase' \in Nat, terminated' \in BOOLEAN, qhead' = qhead,
         late' = late, broken' = broken, node' = node, v' \in [Threads -> LocalType],
         released' \in [Waiters -> BOOLEAN], interrupted' \in [Waiters -> BOOLEAN],
         held' \in [Waiters -> BOOLEAN], asleep' \in [Waiters -> BOOLEAN],
         \A u \in Threads : u # t => v'[u] = v[u],
         Stage(t)',
         v'[t].node \in {v[t].node, Null},
         v[t].pc # "flag",
         policy = "COOPERATIVE" /\ v'[t].pc = "next" => v[t].pc = "next" /\ v'[t].q = v[t].q,
         Own(t)' = Own(t),
         \/ Rest(t)' = Rest(t) /\ Then(t)' = Then(t)
         \/ Rest(t)' = Then(t) /\ Then(t)' = Null /\ Rest(t) = Null
  PROVE  NInv'
<1>1. TypeInv /\ Shape
  BY DEF NInv
<1>2. TypeInv'
  BY <1>1 DEF TypeInv
<1>3. Succ' = Succ
  BY DEF Succ
<1>4. Shape'
  BY <1>1, <1>3, Quiet
<1>5. QED BY <1>2, <1>4 DEF NInv

\* release_waiters_cooperative keeps the invariant.
LEMMA CooperativeInv ==
  ASSUME NInv, Distinct, NEW t \in Threads, release_waiters_cooperative(t)
  PROVE  NInv'
<1> USE DEF park, past
<1>0. TypeInv /\ ~broken /\ Shape /\ Stage(t)
  BY DEF NInv, release_waiters_cooperative, At, Shape
<1>1. /\ v[t].pc = "release" /\ policy = "COOPERATIVE" /\ policy' = policy
      /\ GoOn(t, qhead[v[t].q], "pop") /\ qhead[v[t].q] # Lock
  BY DEF release_waiters_cooperative, At
<1>2. v[t].q \in 0 .. 1 /\ qhead[v[t].q] \in Nodes \cup {Null}
  BY <1>0, <1>1, Fields DEF TypeInv
<1>3. /\ Stage(t)' /\ v' \in [Threads -> LocalType]
      /\ \A u \in Threads : u # t => v'[u] = v[u]
      /\ v'[t].node = v[t].node
      /\ Own(t)' = {} /\ Then(t)' = Null /\ Rest(t)' = Null /\ v'[t].pc # "next"
  BY <1>0, <1>1, <1>2, GoOnStage DEF Releasing
<1>4. Rest(t) = Null /\ Then(t) = Null /\ Own(t) = {}
  BY <1>0, <1>1, Away
<1>5. QED
  BY <1>0, <1>1, <1>3, <1>4, QuietInv DEF TypeInv, release_waiters_cooperative

\* LockHead keeps the invariant.
LEMMA LockHeadInv ==
  ASSUME NInv, Distinct, NEW t \in Threads, LockHead(t)
  PROVE  NInv'
<1> USE DEF park, past
<1>0. TypeInv /\ ~broken /\ Shape /\ Stage(t)
  BY DEF NInv, LockHead, At, Shape
<1>1. /\ v[t].pc = "pop" /\ policy = "COOPERATIVE" /\ policy' = policy
      /\ v[t].p \in Nodes /\ v[t].q \in 0 .. 1
      /\ node' = node /\ late' = late /\ broken' = broken
  BY <1>0, Fields DEF LockHead, At, Stage, Releasing
<1>2. Rest(t) = Null /\ Then(t) = Null /\ Own(t) = {}
  BY <1>0, <1>1, Away
<1>3. CASE qhead[v[t].q] = v[t].p
  <2>1. qhead' = [qhead EXCEPT ![v[t].q] = Lock] /\ Goto(t, "next")
    BY <1>3 DEF LockHead
  <2>2. Locals(t, "next", v[t].in, v[t].kind, v[t].node, v[t].p, v[t].q, v[t].next,
               v[t].who, v[t].back)
    BY <1>0, <2>1, GotoLocals DEF Labels, Releasing
  <2>3. Stage(t)'
    BY <1>0, <1>1, <2>2 DEF Locals, Stage, Releasing
  <2>4. Rest(t)' = qhead[v[t].q] /\ Then(t)' = Null /\ Own(t)' = {}
    BY <1>1, <1>2, <1>3, <2>2 DEF Locals, Rest, Then, Own
  <2>5. \A i \in 0 .. 1 : qhead'[i] = IF i = v[t].q THEN Lock ELSE qhead[i]
    BY <1>0, <2>1 DEF TypeInv
  <2>6. Locked'
    <3>1. \A u \in Threads : v[u].pc = "next" => v[u].q # v[t].q
      BY <1>0, <1>1, <1>3 DEF Shape, Locked, Distinct
    <3>2. QED BY <1>0, <1>1, <2>2, <2>5, <3>1, Fields DEF Shape, Locked, Locals
  <2>7. Shape'
    BY <1>0, <1>1, <1>2, <2>1, <2>2, <2>3, <2>4, <2>6, TakenShape DEF Locals
  <2>8. TypeInv'
    BY <1>0, <1>1, <2>1, <2>2 DEF TypeInv, LockHead, Locals
  <2>9. QED BY <2>7, <2>8 DEF NInv
<1>4. CASE qhead[v[t].q] # v[t].p
  <2>1. qhead' = qhead /\ Goto(t, "release")
    BY <1>4 DEF LockHead
  <2>2. Locals(t, "release", v[t].in, v[t].kind, v[t].node, v[t].p, v[t].q, v[t].next,
               v[t].who, v[t].back)
    BY <1>0, <2>1, GotoLocals DEF Labels, Releasing
  <2>3. Stage(t)'
    BY <1>0, <1>1, <2>2 DEF Locals, Stage, Releasing
  <2>4. Rest(t)' = Null /\ Then(t)' = Null /\ Own(t)' = {}
    BY <2>2, <2>3, AwayAfter DEF Locals
  <2>5. QED
    BY <1>0, <1>1, <1>2, <2>1, <2>2, <2>3, <2>4, QuietInv DEF TypeInv, LockHead, Locals
<1>5. QED BY <1>3, <1>4

\* An access that goes wrong: nothing is claimed of what follows.
LEMMA BreakInv ==
  ASSUME NInv, NEW t \in Threads, Break(t), policy' = policy, phase' \in Nat,
         terminated' \in BOOLEAN, qhead' = qhead, late' = late, node' = node,
         released' \in [Waiters -> BOOLEAN], interrupted' \in [Waiters -> BOOLEAN],
         held' \in [Waiters -> BOOLEAN], asleep' \in [Waiters -> BOOLEAN]
  PROVE  NInv'
<1>1. Local \in LocalType
  BY DEF Local, LocalType, Labels
<1>2. v' \in [Threads -> LocalType] /\ broken' = TRUE
  BY <1>1 DEF Break
<1>3. QED BY <1>2 DEF NInv, TypeInv

\* ReadNext keeps the invariant.
LEMMA ReadNextInv ==
  ASSUME NInv, Distinct, NEW t \in Threads, ReadNext(t)
  PROVE  NInv'
<1> USE DEF park, past
<1>0. TypeInv /\ ~broken /\ Shape /\ Stage(t)
  BY DEF NInv, ReadNext, At, Shape
<1>p. PICK p \in Nodes \cup {Null, Lock} : p = v[t].p
  BY <1>0, Fields
<1>q. PICK q \in 0 .. 1 : q = v[t].q
  BY <1>0, Fields
<1>1. /\ v[t].pc = "next" /\ policy' = policy /\ p \in Nodes /\ q \in 0 .. 1
      /\ node' = node /\ late' = late /\ v[t].next = Null
  BY <1>0, <1>p, <1>q DEF ReadNext, At, Stage, Releasing
<1>2. Rest(t) = p /\ Then(t) = Null /\ Own(t) = {}
  BY <1>1, <1>p DEF Rest, Then, Own
<1>3. CASE ~node[p].live
  BY <1>0, <1>1, <1>3, <1>p, BreakInv DEF ReadNext, TypeInv
<1>4. CASE node[p].live
  <2>1. /\ v' = [v EXCEPT ![t].next = node[p].next, ![t].pc = "clear"] /\ broken' = broken
        /\ qhead' = IF policy = "COOPERATIVE" THEN [qhead EXCEPT ![q] = node[p].next] ELSE qhead
    BY <1>4, <1>p, <1>q DEF ReadNext, Same
  <2>2. node[p].next \in Nodes \cup {Null} /\ Succ[p] = node[p].next /\ Succ' = Succ
    BY <1>0, <1>1, NodeFields DEF Succ
  <2>3. Locals(t, "clear", v[t].in, v[t].kind, v[t].node, p, q, node[p].next, v[t].who, v[t].back)
    BY <1>0, <1>p, <1>q, <2>1, <2>2, NextLocals
  <2>4. /\ v' \in [Threads -> LocalType] /\ \A u \in Threads : u # t => v'[u] = v[u]
        /\ v'[t].node = v[t].node /\ v'[t].pc = "clear" /\ v'[t].q = q
    BY <2>3 DEF Locals
  <2>5. Stage(t)'
    BY <1>0, <1>1, <2>3 DEF Locals, Stage, Releasing
  <2>6. Rest(t)' = Null /\ Own(t)' = {p}
        /\ Then(t)' = IF policy = "WAKING_THREAD" THEN Succ[p] ELSE Null
    BY <1>1, <2>2, <2>3 DEF Locals, Rest, Then, Own
  <2>7. /\ \A u \in Threads : Stage(u)'
        /\ \A u \in Threads : u # t => Rest(u)' = Rest(u) /\ Then(u)' = Then(u) /\ Own(u)' = Own(u)
    BY <1>0, <1>1, <2>4, <2>5, StageOthers
  <2>8. Apart' /\ Chains' /\ Locked' /\ Linked' = Linked
    <3>1. CASE policy = "COOPERATIVE"
      <4>1. qhead[q] = Lock /\ \A u \in Threads : v[u].pc = "next" /\ v[u].q = q => u = t
        BY <1>0, <1>1, <1>q, <3>1 DEF Shape, Locked
      <4>2. /\ Apart' /\ Chains'
            /\ \A i \in 0 .. 1 : i # q => Stack(i)' = Stack(i)
            /\ \A u \in Threads : u # t => Hand(u)' = Hand(u)
            /\ Hand(t)' = {p} /\ Stack(q) = {} /\ Stack(q)' = Hand(t) \ {p} /\ p \in Hand(t)
        <5>1. /\ qhead'[q] = Succ[p] /\ Then(t)' = Null
              /\ \A i \in 0 .. 1 : i # q => qhead'[i] = qhead[i]
          BY <1>0, <1>1, <2>1, <2>2, <2>6, <3>1 DEF TypeInv
        <5>2. QED BY <1>0, <1>1, <1>2, <2>2, <2>6, <2>7, <4>1, <5>1, Split
      <4>3. \A i \in 0 .. 1 : i # q => qhead'[i] = qhead[i]
        BY <1>0, <2>1, <3>1 DEF TypeInv
      <4>4. Locked'
        BY <1>0, <1>1, <2>4, <3>1, <4>1, <4>3, Fields DEF Shape, Locked
      <4>5. ASSUME NEW n
            PROVE  n \in Linked' <=> n \in Linked
        <5>1. n \in Linked <=> \/ \E i \in 0 .. 1 : n \in Stack(i)
                               \/ \E u \in Threads : n \in Hand(u)
          BY Parts
        <5>2. n \in Linked' <=> \/ n \in Stack(q)' \/ n \in Hand(t)'
                                \/ \E i \in 0 .. 1 : i # q /\ n \in Stack(i)
                                \/ \E u \in Threads : u # t /\ n \in Hand(u)
          BY <1>1, <4>2, PartsAfter
        <5>3. n \in Stack(q)' \/ n \in Hand(t)' <=> n \in Hand(t)
          BY <4>2
        <5>4. QED BY <1>1, <4>2, <5>1, <5>2, <5>3
      <4>6. Linked' = Linked
        BY <4>5, Unfold DEF Linked
      <4>7. QED BY <4>2, <4>4, <4>6
    <3>2. CASE policy = "WAKING_THREAD"
      <4>1. qhead' = qhead
        BY <2>1, <3>2
      <4>2. /\ Apart' /\ Chains'
            /\ \A i \in 0 .. 1 : Stack(i)' = Stack(i)
            /\ \A u \in Threads : Hand(u)' = Hand(u)
        BY <1>0, <1>1, <1>2, <2>2, <2>6, <2>7, <3>2, <4>1, Read
      <4>3. Locked'
        BY <1>0, <1>1, <3>2, <4>1 DEF Shape, Locked
      <4>4. QED BY <4>2, <4>3, SameLinked
    <3>3. QED BY <1>0, <3>1, <3>2 DEF TypeInv
  <2>9. \A w \in Waiters : Owner(w)'
    <3>1. \A w \in Waiters : v'[w].node = v[w].node
      BY <2>4 DEF Threads
    <3>2. QED BY <1>0, <1>1, <3>1 DEF Shape, Owner
  <2>10. Flags'
    <3>1. \A n \in Linked : n \in Nodes
      BY <1>0, LinkedNodes DEF Shape
    <3>2. \A w \in Waiters : v[w].pc = "flag" => v'[w].pc = "flag" /\ v'[w].node = v[w].node
      BY <1>1, <2>4 DEF Threads
    <3>3. QED BY <1>0, <1>1, <2>8, <3>1, <3>2, FlagsSame
  <2>11. TypeInv'
    <3>1. qhead' \in [0 .. 1 -> Nodes \cup {Null, Lock}]
      BY <1>0, <2>1, <2>2 DEF TypeInv
    <3>2. QED BY <1>0, <1>1, <2>1, <2>4, <3>1 DEF TypeInv, ReadNext
  <2>12. QED BY <2>7, <2>8, <2>9, <2>10, <2>11 DEF Shape, NInv
<1>5. QED BY <1>3, <1>4

\* queue_release: t lets go of its node, which loses FLAG_QUEUED or its life.
LEMMA LetGo ==
  ASSUME TypeInv, Shape, Distinct, NEW t \in Threads, NEW n \in Nodes,
         policy' = policy, qhead' = qhead, late' = late,
         \A u \in Threads : u # t => v'[u] = v[u],
         Stage(t)', v'[t].node = v[t].node, v[t].pc = "clear", Own(t) = {n}, Own(t)' = {},
         policy = "COOPERATIVE" => v'[t].pc # "next",
         \/ Rest(t)' = Rest(t) /\ Then(t)' = Then(t)
         \/ Rest(t)' = Then(t) /\ Then(t)' = Null /\ Rest(t) = Null,
         \/ /\ node[n].in_use
            /\ NodeIs(n, node[n].live, node[n].in_use, FALSE, node[n].next, node[n].waiter)
         \/ ~node[n].in_use /\ NodeIs(n, FALSE, FALSE, FALSE, Null, Null)
  PROVE  /\ Shape'
         /\ \A i \in 0 .. 1 : Stack(i)' = Stack(i)
         /\ \A u \in Threads : u # t => Hand(u)' = Hand(u)
         /\ Hand(t)' = Hand(t) \ {n}
<1>1. /\ \A u \in Threads : Stage(u)'
      /\ \A u \in Threads : u # t => Rest(u)' = Rest(u) /\ Then(u)' = Then(u) /\ Own(u)' = Own(u)
  BY StageOthers
<1>2. \A m \in Linked : m \in Nodes
  BY LinkedNodes DEF Shape
<1>3. \A m \in Nodes : m # n => Succ'[m] = Succ[m] /\ node'[m] = node[m]
  BY SuccIs DEF NodeIs
<1>4. /\ Apart' /\ Chains'
      /\ \A i \in 0 .. 1 : Stack(i)' = Stack(i)
      /\ \A u \in Threads : u # t => Hand(u)' = Hand(u)
      /\ Hand(t)' = Hand(t) \ {n}
  <2>1. \A m \in Linked : m \notin Own(t) => Succ'[m] = Succ[m]
    BY <1>2, <1>3
  <2>2. Own(t)' \subseteq Own(t)
    OBVIOUS
  <2>3. QED BY <1>1, <2>1, <2>2, Still
<1>5. \A w \in Waiters : Owner(w)'
  <2>1. \A w \in Waiters : v'[w].node = v[w].node
    BY DEF Threads
  <2>2. ASSUME NEW w \in Waiters, v[w].node # Null
        PROVE  /\ node'[v[w].node].live /\ node'[v[w].node].in_use
               /\ node'[v[w].node].waiter \in {Null, w}
    <3>1. v[w].node \in Nodes
      BY <2>2, Fields DEF Threads
    <3>2. node[v[w].node].in_use /\ node[v[w].node].live /\ node[v[w].node].waiter \in {Null, w}
      BY <2>2 DEF Shape, Owner
    <3>3. CASE v[w].node = n
      BY <3>2, <3>3 DEF NodeIs
    <3>4. CASE v[w].node # n
      BY <1>3, <3>1, <3>2, <3>4
    <3>5. QED BY <3>3, <3>4
  <2>3. QED BY <2>1, <2>2, OwnerOthers
<1>6. Locked'
  BY LockedOthers
<1>7. Flags'
  <2>1. ASSUME NEW m
        PROVE  m \in Linked' <=> m \in Linked /\ m # n
    <3>1. n \in Hand(t)
      BY Unfold
    <3>2. \A i \in 0 .. 1 : n \notin Stack(i)
      BY <3>1 DEF Shape, Apart
    <3>3. \A u \in Threads : u # t => n \notin Hand(u)
      BY <3>1 DEF Shape, Apart
    <3>4. m \in Linked <=> \/ \E i \in 0 .. 1 : m \in Stack(i)
                           \/ \E u \in Threads : m \in Hand(u)
      BY Parts
    <3>5. CASE m = n
      BY <1>4, <3>2, <3>3, <3>5, PartsAfter
    <3>6. CASE m # n
      <4>1. \A u \in Threads : m \in Hand(u)' <=> m \in Hand(u)
        BY <1>4, <3>6
      <4>2. QED BY <1>4, <3>4, <3>6, <4>1, PartsAfter
    <3>7. QED BY <3>5, <3>6
  <2>2. \A w \in Waiters : v[w].pc = "flag" => v'[w].pc = "flag" /\ v'[w].node = v[w].node
    BY DEF Threads
  <2>3. ASSUME NEW m \in Linked'
        PROVE  /\ node'[m].live
               /\ node'[m].queued \/ \E w \in Waiters : v'[w].node = m /\ v'[w].pc = "flag"
    <3>1. m \in Linked /\ m # n /\ m \in Nodes
      BY <1>2, <2>1
    <3>2. QED BY <1>3, <2>2, <3>1 DEF Shape, Flags
  <2>4. ASSUME NEW m \in Nodes
        PROVE  /\ node'[m].live /\ node'[m].queued => m \in Linked' \cup late'
               /\ node'[m].live /\ ~node'[m].in_use => node'[m].queued
    <3>1. CASE m = n
      BY <3>1 DEF NodeIs
    <3>2. CASE m # n
      BY <1>3, <2>1, <3>2 DEF Shape, Flags
    <3>3. QED BY <3>1, <3>2
  <2>5. QED BY <2>3, <2>4 DEF Flags
<1>8. QED BY <1>1, <1>4, <1>5, <1>6, <1>7 DEF Shape

\* Advance: what t has read is what t has in hand.
LEMMA AdvanceStage ==
  ASSUME TypeInv, Distinct, NEW t \in Threads, Stage(t),
         v[t].pc \in {"clear", "waiter", "wake"},
         policy' = policy, Advance(t, v[t].next)
  PROVE  /\ Stage(t)' /\ v' \in [Threads -> LocalType]
         /\ \A u \in Threads : u # t => v'[u] = v[u]
         /\ v'[t].node = v[t].node /\ v'[t].pc # "flag" /\ Own(t)' = {}
         /\ v'[t].pc \in {"pop", "next"} => v'[t].q = v[t].q
         /\ policy = "COOPERATIVE" => v'[t].pc # "next"
         /\ \/ Rest(t)' = Rest(t) /\ Then(t)' = Then(t)
            \/ Rest(t)' = Then(t) /\ Then(t)' = Null /\ Rest(t) = Null
         /\ v[t].next = Null => v'[t].pc = v[t].back
         /\ v[t].next # Null =>
              /\ v'[t].pc = (IF policy = "COOPERATIVE" THEN "pop" ELSE "next")
              /\ v'[t].p = v[t].next /\ v'[t].q = v[t].q /\ v'[t].back = v[t].back
<1> DEFINE label == IF policy = "COOPERATIVE" THEN "pop" ELSE "next"
<1>1. GoOn(t, v[t].next, label)
  BY DEF Advance
<1>2. v[t].next \in Nodes \cup {Null}
  BY Fields
<1>3. label \in {"pop", "next"} /\ (label = "pop" => policy = "COOPERATIVE")
      /\ (label = "next" => policy = "WAKING_THREAD")
  BY DEF TypeInv
<1> HIDE DEF label
<1>4. /\ Stage(t)' /\ v' \in [Threads -> LocalType]
      /\ \A u \in Threads : u # t => v'[u] = v[u]
      /\ v'[t].node = v[t].node /\ v'[t].pc # "flag"
      /\ Own(t)' = {} /\ Then(t)' = Null /\ Rest(t)' = IF label = "next" THEN v[t].next ELSE Null
      /\ v'[t].pc \in {"pop", "next"} => v'[t].q = v[t].q
      /\ v'[t].pc = "next" => label = "next"
      /\ v[t].next = Null => v'[t].pc = v[t].back
      /\ v[t].next # Null => /\ v'[t].pc = label /\ v'[t].p = v[t].next /\ v'[t].q = v[t].q
                             /\ v'[t].back = v[t].back
  BY <1>1, <1>2, <1>3, GoOnStage DEF Releasing
<1>5. Rest(t) = Null /\ (label = "next" => Then(t) = v[t].next) /\ (label = "pop" => Then(t) = Null)
  BY <1>3 DEF Rest, Then
<1>6. QED BY <1>3, <1>4, <1>5 DEF label

\* queue_release keeps the invariant.
LEMMA QueueReleaseInv ==
  ASSUME NInv, Distinct, NEW t \in Threads, queue_release(t)
  PROVE  NInv'
<1> USE DEF park, past
<1>0. TypeInv /\ ~broken /\ Shape /\ Stage(t)
  BY DEF NInv, queue_release, At, Shape
<1>n. PICK n \in Nodes : n = v[t].p
  BY <1>0 DEF queue_release, At, Stage, Releasing
<1>1. /\ v[t].pc = "clear" /\ policy' = policy /\ qhead' = qhead /\ late' = late
      /\ Own(t) = {n} /\ Rest(t) = Null
  BY <1>n DEF queue_release, At, Own, Rest
<1>2. CASE ~node[n].live
  BY <1>0, <1>1, <1>2, <1>n, BreakInv DEF queue_release, TypeInv
<1>3. CASE node[n].live /\ node[n].in_use
  <2>1. /\ node' = [node EXCEPT ![n] = [node[n] EXCEPT !.queued = FALSE]]
        /\ Goto(t, "waiter") /\ broken' = broken
    BY <1>3, <1>n DEF queue_release, Same
  <2>2. NodeIs(n, node[n].live, node[n].in_use, FALSE, node[n].next, node[n].waiter)
    BY <1>0, <2>1, NodeUnqueued
  <2>3. Locals(t, "waiter", v[t].in, v[t].kind, v[t].node, v[t].p, v[t].q, v[t].next,
               v[t].who, v[t].back)
    BY <1>0, <2>1, GotoLocals DEF Labels, Releasing
  <2>4. Stage(t)'
    BY <1>0, <1>1, <2>3 DEF Locals, Stage, Releasing
  <2>5. Own(t)' = {} /\ Rest(t)' = Rest(t) /\ Then(t)' = Then(t) /\ v'[t].pc # "next"
    BY <1>1, <2>3 DEF Locals, Own, Rest, Then
  <2>6. Shape'
    BY <1>0, <1>1, <1>3, <2>2, <2>3, <2>4, <2>5, LetGo DEF Locals
  <2>7. TypeInv'
    BY <1>0, <1>1, <2>1, <2>2, <2>3 DEF TypeInv, queue_release, Locals, NodeIs
  <2>8. QED BY <2>6, <2>7 DEF NInv
<1>4. CASE node[n].live /\ ~node[n].in_use
  <2>1. /\ node' = [node EXCEPT ![n] = Free] /\ Advance(t, v[t].next) /\ broken' = broken
    BY <1>4, <1>n DEF queue_release, Same
  <2>2. NodeIs(n, FALSE, FALSE, FALSE, Null, Null)
    BY <1>0, <2>1, NodeFreed
  <2>3. /\ Stage(t)' /\ v' \in [Threads -> LocalType]
        /\ \A u \in Threads : u # t => v'[u] = v[u]
        /\ v'[t].node = v[t].node /\ Own(t)' = {}
        /\ policy = "COOPERATIVE" => v'[t].pc # "next"
        /\ \/ Rest(t)' = Rest(t) /\ Then(t)' = Then(t)
           \/ Rest(t)' = Then(t) /\ Then(t)' = Null /\ Rest(t) = Null
    BY <1>0, <1>1, <2>1, AdvanceStage
  <2>4. Shape'
    BY <1>0, <1>1, <1>4, <2>2, <2>3, LetGo
  <2>5. TypeInv'
    BY <1>0, <1>1, <2>1, <2>2, <2>3 DEF TypeInv, queue_release, NodeIs
  <2>6. QED BY <2>4, <2>5 DEF NInv
<1>5. QED BY <1>2, <1>3, <1>4

\* TestWaiter keeps the invariant.
LEMMA TestWaiterInv ==
  ASSUME NInv, Distinct, NEW t \in Threads, TestWaiter(t)
  PROVE  NInv'
<1> USE DEF park, past
<1>0. TypeInv /\ ~broken /\ Shape /\ Stage(t)
  BY DEF NInv, TestWaiter, At, Shape
<1>1. v[t].pc = "waiter" /\ policy' = policy /\ Own(t) = {} /\ Rest(t) = Null
  BY DEF TestWaiter, At, Own, Rest
<1>2. CASE Break(t)
  BY <1>0, <1>1, <1>2, BreakInv DEF TestWaiter, TypeInv
<1>3. CASE Advance(t, v[t].next) /\ broken' = broken
  <2>1. /\ Stage(t)' /\ v' \in [Threads -> LocalType]
        /\ \A u \in Threads : u # t => v'[u] = v[u]
        /\ v'[t].node = v[t].node /\ Own(t)' = {}
        /\ policy = "COOPERATIVE" => v'[t].pc # "next"
        /\ \/ Rest(t)' = Rest(t) /\ Then(t)' = Then(t)
           \/ Rest(t)' = Then(t) /\ Then(t)' = Null /\ Rest(t) = Null
    BY <1>0, <1>1, <1>3, AdvanceStage
  <2>2. QED BY <1>0, <1>1, <1>3, <2>1, QuietInv DEF TestWaiter, TypeInv
<1>4. CASE Goto(t, "unpark") /\ broken' = broken
  <2>1. Locals(t, "unpark", v[t].in, v[t].kind, v[t].node, v[t].p, v[t].q, v[t].next,
               v[t].who, v[t].back)
    BY <1>0, <1>4, GotoLocals DEF Labels, Releasing
  <2>2. Stage(t)'
    BY <1>0, <1>1, <2>1 DEF Locals, Stage, Releasing
  <2>3. Own(t)' = {} /\ Rest(t)' = Rest(t) /\ Then(t)' = Then(t) /\ v'[t].pc # "next"
    BY <1>1, <2>1 DEF Locals, Own, Rest, Then
  <2>4. QED BY <1>0, <1>1, <1>4, <2>1, <2>2, <2>3, QuietInv DEF TestWaiter, TypeInv, Locals
<1>5. QED BY <1>2, <1>3, <1>4 DEF TestWaiter, Same

\* ReadWaiter keeps the invariant.
LEMMA ReadWaiterInv ==
  ASSUME NInv, Distinct, NEW t \in Threads, ReadWaiter(t)
  PROVE  NInv'
<1> USE DEF park, past
<1>0. TypeInv /\ ~broken /\ Shape /\ Stage(t)
  BY DEF NInv, ReadWaiter, At, Shape
<1>n. PICK n \in Nodes : n = v[t].p
  BY <1>0 DEF ReadWaiter, At, Stage, Releasing
<1>1. v[t].pc = "unpark" /\ policy' = policy /\ Own(t) = {} /\ Rest(t) = Null
  BY DEF ReadWaiter, At, Own, Rest
<1>2. CASE node[n].waiter = Null
  BY <1>0, <1>1, <1>2, <1>n, BreakInv DEF ReadWaiter, TypeInv
<1>3. CASE node[n].waiter # Null
  <2>1. v' = [v EXCEPT ![t].who = node[n].waiter, ![t].pc = "wake"] /\ broken' = broken
    BY <1>3, <1>n DEF ReadWaiter, Same
  <2>2. node[n].waiter \in Waiters
    BY <1>0, <1>3, NodeFields
  <2>3. Locals(t, "wake", v[t].in, v[t].kind, v[t].node, v[t].p, v[t].q, v[t].next,
               node[n].waiter, v[t].back)
    BY <1>0, <2>1, <2>2, WhoLocals
  <2>4. Stage(t)'
    BY <1>0, <1>1, <2>2, <2>3 DEF Locals, Stage, Releasing
  <2>5. Own(t)' = {} /\ Rest(t)' = Rest(t) /\ Then(t)' = Then(t) /\ v'[t].pc # "next"
    BY <1>1, <2>3 DEF Locals, Own, Rest, Then
  <2>6. QED BY <1>0, <1>1, <2>1, <2>3, <2>4, <2>5, QuietInv DEF ReadWaiter, TypeInv, Locals
<1>4. QED BY <1>2, <1>3

\* unpark keeps the invariant.
LEMMA UnparkInv ==
  ASSUME NInv, Distinct, NEW t \in Threads, unpark(t)
  PROVE  NInv'
<1> USE DEF park, past
<1>0. TypeInv /\ ~broken /\ Shape /\ Stage(t)
  BY DEF NInv, unpark, At, Shape
<1>1. v[t].pc = "wake" /\ policy' = policy /\ Own(t) = {} /\ Rest(t) = Null
  BY DEF unpark, At, Own, Rest
<1>2. /\ Stage(t)' /\ v' \in [Threads -> LocalType]
      /\ \A u \in Threads : u # t => v'[u] = v[u]
      /\ v'[t].node = v[t].node /\ Own(t)' = {}
      /\ policy = "COOPERATIVE" => v'[t].pc # "next"
      /\ \/ Rest(t)' = Rest(t) /\ Then(t)' = Then(t)
         \/ Rest(t)' = Then(t) /\ Then(t)' = Null /\ Rest(t) = Null
  BY <1>0, <1>1, AdvanceStage DEF unpark
<1>3. released' \in [Waiters -> BOOLEAN] /\ asleep' \in [Waiters -> BOOLEAN]
  BY <1>0 DEF unpark, TypeInv
<1>4. QED BY <1>0, <1>1, <1>2, <1>3, QuietInv DEF unpark, TypeInv

(***************************************************************************)
(* The advancer, and the steps of a waiter that touch no stack.            *)
(***************************************************************************)

\* A step that begins and ends with nothing in hand.
LEMMA AwayInv ==
  ASSUME NInv, ~broken, Distinct, NEW t \in Threads,
         policy' = policy, phase' \in Nat, terminated' \in BOOLEAN, qhead' = qhead,
         late' = late, broken' = broken, node' = node, v' \in [Threads -> LocalType],
         released' \in [Waiters -> BOOLEAN], interrupted' \in [Waiters -> BOOLEAN],
         held' \in [Waiters -> BOOLEAN], asleep' \in [Waiters -> BOOLEAN],
         \A u \in Threads : u # t => v'[u] = v[u],
         Stage(t)',
         v'[t].node \in {v[t].node, Null},
         v[t].pc \notin {"flag", "next", "clear", "waiter", "unpark", "wake"},
         v'[t].pc \notin {"next", "clear", "waiter", "unpark", "wake"}
  PROVE  NInv'
<1>1. Rest(t) = Null /\ Then(t) = Null /\ Own(t) = {}
  BY Away DEF NInv, Shape
<1>2. Rest(t)' = Null /\ Then(t)' = Null /\ Own(t)' = {}
  BY AwayAfter
<1>3. QED BY <1>1, <1>2, QuietInv

\* The advancer's own steps keep the invariant.
LEMMA AdvancerInv ==
  ASSUME NInv, Distinct, advance \/ force_termination \/ ReleaseOdd
  PROVE  NInv'
<1> USE DEF park, past
<1>0. TypeInv /\ ~broken /\ Shape /\ Advancer \in Threads /\ Stage(Advancer)
  BY DEF NInv, advance, force_termination, ReleaseOdd, At, Shape, Threads
<1>1. \E q \in 0 .. 1, back \in {"idle", "odd"} : release_waiters(Advancer, q, back)
  BY <1>0 DEF advance, force_termination, ReleaseOdd, get_queue, TypeInv
<1>2. PICK q \in 0 .. 1, back \in {"idle", "odd"} : release_waiters(Advancer, q, back)
  BY <1>1
<1>3. v[Advancer].pc \in {"idle", "odd"}
  BY DEF advance, force_termination, ReleaseOdd, At
<1>4. Locals(Advancer, "release", v[Advancer].in, v[Advancer].kind, v[Advancer].node,
             v[Advancer].p, q, v[Advancer].next, v[Advancer].who, back)
  BY <1>0, <1>2, TurnLocals
<1>5. Stage(Advancer)'
  BY <1>0, <1>3, <1>4 DEF Locals, Stage, Releasing, Distinct
<1>6. phase' \in Nat /\ terminated' \in BOOLEAN
  <2>1. phase \in Nat /\ terminated \in BOOLEAN
    BY <1>0 DEF TypeInv
  <2>2. CASE advance
    BY <2>1, <2>2 DEF advance
  <2>3. CASE force_termination
    BY <2>1, <2>3 DEF force_termination
  <2>4. CASE ReleaseOdd
    BY <2>1, <2>4 DEF ReleaseOdd
  <2>5. QED BY <2>2, <2>3, <2>4
<1>7. QED
  BY <1>0, <1>3, <1>4, <1>5, <1>6, AwayInv
     DEF Locals, TypeInv, advance, force_termination, ReleaseOdd

\* await_advance keeps the invariant.
LEMMA AwaitInv ==
  ASSUME NInv, Distinct, NEW w \in Waiters, NEW kind \in Kinds, await_advance(w, kind)
  PROVE  NInv'
<1> USE DEF park, past
<1>0. TypeInv /\ ~broken /\ Shape /\ w \in Threads /\ Stage(w)
  BY DEF NInv, await_advance, At, Shape, Threads
<1>1. v[w].pc = "idle" /\ policy' = policy /\ w # Advancer
  BY DEF await_advance, At, Distinct
<1>2. Locals(w, "release", phase, kind, Null, Null, 1 - get_queue(phase), Null, Null, "loop")
  BY <1>0, AwaitLocals
<1>3. Stage(w)'
  BY <1>1, <1>2 DEF Locals, Stage, Releasing
<1>4. QED BY <1>0, <1>1, <1>2, <1>3, AwayInv DEF Locals, TypeInv, await_advance

\* Park keeps the invariant.
LEMMA ParkInv ==
  ASSUME NInv, Distinct, NEW w \in Waiters, Park(w)
  PROVE  NInv'
<1> USE DEF park, past
<1>0. TypeInv /\ ~broken /\ Shape /\ w \in Threads /\ Stage(w) /\ w # Advancer
  BY DEF NInv, Park, At, Shape, Threads, Distinct
<1>1. v[w].pc = "park" /\ policy' = policy
  BY DEF Park, At
<1>2. PICK label \in {"again", "head"} : Goto(w, label)
  BY DEF Park
<1>3. Locals(w, label, v[w].in, v[w].kind, v[w].node, v[w].p, v[w].q, v[w].next, v[w].who,
             v[w].back)
  BY <1>0, <1>2, GotoLocals DEF Labels, WaitLabels
<1>4. Stage(w)'
  BY <1>0, <1>1, <1>3 DEF Locals, Stage, Releasing
<1>5. released' \in [Waiters -> BOOLEAN] /\ held' \in [Waiters -> BOOLEAN]
  BY <1>0 DEF TypeInv, Park
<1>6. QED BY <1>0, <1>1, <1>3, <1>4, <1>5, AwayInv DEF Locals, TypeInv, Park

\* LoadHead keeps the invariant.
LEMMA LoadHeadInv ==
  ASSUME NInv, Distinct, NEW w \in Waiters, LoadHead(w)
  PROVE  NInv'
<1> USE DEF park, past
<1>0. TypeInv /\ ~broken /\ Shape /\ w \in Threads /\ Stage(w) /\ w # Advancer
  BY DEF NInv, LoadHead, At, Shape, Threads, Distinct
<1>1. v[w].pc = "head" /\ policy' = policy
  BY DEF LoadHead, At
<1>2. qhead[get_queue(v[w].in)] \in Nodes \cup {Null, Lock}
  BY <1>0, Fields DEF TypeInv, get_queue
<1>3. Locals(w, "test", v[w].in, v[w].kind, v[w].node, qhead[get_queue(v[w].in)], v[w].q,
             v[w].next, v[w].who, v[w].back)
  BY <1>0, <1>2, HeadLocals DEF Labels, WaitLabels, LoadHead
<1>4. Stage(w)'
  BY <1>0, <1>1, <1>3 DEF Locals, Stage, Releasing
<1>5. QED BY <1>0, <1>1, <1>3, <1>4, AwayInv DEF Locals, TypeInv, LoadHead

\* The thread leaves park.
LEMMA UnparkedStage ==
  ASSUME TypeInv, Distinct, NEW w \in Waiters, Stage(w),
         v[w].pc \in {"test", "recheck", "asleep"}, policy' = policy, Unparked(w)
  PROVE  /\ Locals(w, "again", v[w].in, v[w].kind, v[w].node, Null, v[w].q, v[w].next, v[w].who,
                   v[w].back)
         /\ Stage(w)' /\ held' \in [Waiters -> BOOLEAN] /\ released' \in [Waiters -> BOOLEAN]
<1>0. w \in Threads /\ w # Advancer
  BY DEF Threads, Distinct
<1>1. Locals(w, "again", v[w].in, v[w].kind, v[w].node, Null, v[w].q, v[w].next, v[w].who,
             v[w].back)
  BY <1>0, EntryLocals DEF Unparked, Labels, WaitLabels
<1>2. Stage(w)'
  BY <1>0, <1>1 DEF Locals, Stage, Releasing
<1>3. QED BY <1>1, <1>2 DEF Unparked, TypeInv

\* WakeUp keeps the invariant.
LEMMA WakeUpInv ==
  ASSUME NInv, Distinct, NEW w \in Waiters, WakeUp(w)
  PROVE  NInv'
<1> USE DEF park, past
<1>0. TypeInv /\ ~broken /\ Shape /\ w \in Threads /\ Stage(w)
  BY DEF NInv, WakeUp, At, Shape, Threads
<1>1. v[w].pc = "asleep" /\ policy' = policy /\ Unparked(w)
  BY DEF WakeUp, At
<1>2. /\ Locals(w, "again", v[w].in, v[w].kind, v[w].node, Null, v[w].q, v[w].next, v[w].who,
                v[w].back)
      /\ Stage(w)' /\ held' \in [Waiters -> BOOLEAN] /\ released' \in [Waiters -> BOOLEAN]
  BY <1>0, <1>1, UnparkedStage
<1>3. QED BY <1>0, <1>1, <1>2, AwayInv DEF Locals, TypeInv, WakeUp

\* Last keeps the invariant.
LEMMA LastInv ==
  ASSUME NInv, Distinct, NEW w \in Waiters, Last(w)
  PROVE  NInv'
<1> USE DEF park, past
<1>0. TypeInv /\ ~broken /\ Shape /\ w \in Threads /\ Stage(w) /\ w # Advancer
  BY DEF NInv, Last, At, Shape, Threads, Distinct
<1>1. v[w].pc = "last" /\ policy' = policy
  BY DEF Last, At
<1>2. CASE release_waiters(w, get_queue(v[w].in), "done")
  <2>1. get_queue(v[w].in) \in 0 .. 1
    BY <1>0, Fields DEF get_queue
  <2>2. Locals(w, "release", v[w].in, v[w].kind, v[w].node, v[w].p, get_queue(v[w].in),
               v[w].next, v[w].who, "done")
    BY <1>0, <1>2, <2>1, TurnLocals
  <2>3. Stage(w)'
    BY <1>0, <1>1, <2>2 DEF Locals, Stage, Releasing
  <2>4. QED BY <1>0, <1>1, <2>2, <2>3, AwayInv DEF Locals, TypeInv, Last
<1>3. CASE Goto(w, "done")
  <2>1. Locals(w, "done", v[w].in, v[w].kind, v[w].node, v[w].p, v[w].q, v[w].next, v[w].who,
               v[w].back)
    BY <1>0, <1>3, GotoLocals DEF Labels, WaitLabels
  <2>2. Stage(w)'
    BY <1>0, <1>1, <2>1 DEF Locals, Stage, Releasing
  <2>3. QED BY <1>0, <1>1, <2>1, <2>2, AwayInv DEF Locals, TypeInv, Last
<1>4. QED BY <1>2, <1>3 DEF Last

\* Return keeps the invariant.
LEMMA ReturnInv ==
  ASSUME NInv, Distinct, NEW w \in Waiters, Return(w)
  PROVE  NInv'
<1> USE DEF park, past
<1>0. TypeInv /\ ~broken /\ Shape /\ w \in Threads /\ Stage(w) /\ w # Advancer
  BY DEF NInv, Return, At, Shape, Threads, Distinct
<1>1. v[w].pc = "done" /\ policy' = policy
  BY DEF Return, At
<1>2. Locals(w, "idle", 0, "default", Null, Null, 0, Null, Null, "idle")
  BY <1>0, LocalLocals DEF Return
<1>3. Stage(w)'
  BY <1>0, <1>2 DEF Locals, Stage, Releasing
<1>4. QED BY <1>0, <1>1, <1>2, <1>3, AwayInv DEF Locals, TypeInv, Return

\* Flags of a parked thread, and nothing else.
LEMMA OutsideInv ==
  ASSUME NInv, Distinct, NEW w \in Waiters, Spurious(w) \/ interrupt(w)
  PROVE  NInv'
<1> USE DEF park, past
<1>0. TypeInv /\ ~broken /\ Shape
  BY DEF NInv, Spurious, interrupt, At
<1>1. TypeInv'
  BY <1>0 DEF TypeInv, Spurious, interrupt
<1>2. policy' = policy /\ qhead' = qhead /\ late' = late /\ node' = node /\ v' = v
  BY DEF Spurious, interrupt
<1>3. Advancer \in Threads /\ v[Advancer].pc # "flag" /\ Stage(Advancer)'
  BY <1>0, <1>2 DEF Threads, Shape, Stage, Releasing
<1>4. Succ' = Succ /\ Own(Advancer)' = Own(Advancer) /\ Rest(Advancer)' = Rest(Advancer)
      /\ Then(Advancer)' = Then(Advancer)
  BY <1>2 DEF Succ, Own, Rest, Then
<1>5. Shape'
  BY <1>0, <1>2, <1>3, <1>4, Quiet
<1>6. QED BY <1>1, <1>5 DEF NInv

(***************************************************************************)
(* is_releasable: the flags and the handle of the own node.                *)
(***************************************************************************)

\* What is_releasable does to a node, with its handle x afterwards.
Looks(w, x) ==
  \E int \in BOOLEAN :
    /\ node' = [node EXCEPT ![v[w].node].was_interrupted = int, ![v[w].node].waiter = x]
    /\ interrupted' = IF Changed(w) THEN interrupted ELSE [interrupted EXCEPT ![w] = FALSE]
LooksOver(w) == UNCHANGED <<node, interrupted>> \/ Looks(w, Null)
LooksOn(w) == ~Changed(w) /\ node[v[w].node].waiter # Null /\ Looks(w, node[v[w].node].waiter)

\* What is_releasable changes keeps its type.
LEMMA LookTypes ==
  ASSUME TypeInv, NEW w \in Waiters, NEW n \in Nodes, n = v[w].node, LooksOver(w) \/ LooksOn(w)
  PROVE  /\ interrupted' \in [Waiters -> BOOLEAN]
         /\ \/ NodeIs(n, node[n].live, node[n].in_use, node[n].queued, node[n].next, node[n].waiter)
            \/ NodeIs(n, node[n].live, node[n].in_use, node[n].queued, node[n].next, Null)
         /\ LooksOn(w) =>
              NodeIs(n, node[n].live, node[n].in_use, node[n].queued, node[n].next, node[n].waiter)
<1>1. interrupted' \in [Waiters -> BOOLEAN]
  BY DEF TypeInv, LooksOver, LooksOn, Looks
<1>2. node[n].waiter \in Waiters \cup {Null}
  BY NodeFields
<1>3. ASSUME UNCHANGED <<node, interrupted>>
      PROVE  NodeIs(n, node[n].live, node[n].in_use, node[n].queued, node[n].next, node[n].waiter)
  BY <1>3 DEF NodeIs, TypeInv
<1>4. ASSUME NEW x \in Waiters \cup {Null}, Looks(w, x)
      PROVE  NodeIs(n, node[n].live, node[n].in_use, node[n].queued, node[n].next, x)
  <2>1. PICK int \in BOOLEAN :
          node' = [node EXCEPT ![n].was_interrupted = int, ![n].waiter = x]
    BY <1>4 DEF Looks
  <2>2. QED BY <2>1, NodeLooked
<1>5. QED BY <1>1, <1>2, <1>3, <1>4 DEF LooksOver, LooksOn

\* is_releasable either ends the wait or finds the phase unchanged.
LEMMA Releasable ==
  ASSUME TypeInv, NEW w \in Waiters, v[w].node \in Nodes,
         NEW ACTION yes, NEW ACTION no, is_releasable(w, yes, no)
  PROVE  (LooksOver(w) /\ yes) \/ (LooksOn(w) /\ no)
<1> DEFINE n == v[w].node
           int == node[n].was_interrupted \/ interrupted[w]
           end == Changed(w) \/ (int /\ node[n].kind # "default")
           flag == IF Changed(w) THEN node[n].was_interrupted ELSE int
           look(over) == /\ node' = [node EXCEPT ![n].was_interrupted = IF Changed(w) THEN @ ELSE int,
                                                 ![n].waiter = IF over THEN Null ELSE @]
                         /\ interrupted' = IF Changed(w) THEN interrupted
                                           ELSE [interrupted EXCEPT ![w] = FALSE]
                         /\ IF over THEN yes ELSE no
<1>1. int \in BOOLEAN /\ flag \in BOOLEAN
  <2>1. node[n].was_interrupted \in BOOLEAN
    BY NodeFields DEF NodeType
  <2>2. QED BY <2>1 DEF TypeInv
<1>2. CASE node[n].waiter = Null
  <2>1. yes /\ UNCHANGED <<node, interrupted>>
    BY <1>2 DEF is_releasable
  <2>2. LooksOver(w)
    BY <2>1 DEF LooksOver
  <2>3. QED BY <2>1, <2>2
<1>3. CASE node[n].waiter # Null
  <2>1. PICK over \in {end, end \/ node[n].kind = "for"} : look(over)
    BY <1>3 DEF is_releasable
  <2>2. CASE over
    <3>1. node' = [node EXCEPT ![n].was_interrupted = flag, ![n].waiter = Null] /\ yes
      BY <2>1, <2>2
    <3>2. Looks(w, Null)
      BY <1>1, <2>1, <3>1 DEF Looks
    <3>3. LooksOver(w)
      BY <3>2 DEF LooksOver
    <3>4. QED BY <3>1, <3>3
  <2>3. CASE ~over
    <3>0. no
      BY <2>1, <2>3
    <3>1. ~Changed(w)
      BY <2>3
    <3>2. node' = [node EXCEPT ![n].was_interrupted = flag, ![n].waiter = node[n].waiter]
      BY <2>1, <2>3
    <3>3. Looks(w, node[n].waiter)
      BY <1>1, <2>1, <3>2 DEF Looks
    <3>4. LooksOn(w)
      BY <1>3, <3>1, <3>3 DEF LooksOn
    <3>5. QED BY <3>0, <3>4
  <2>4. QED BY <2>2, <2>3
<1>4. QED BY <1>2, <1>3

\* A step of a waiter with a node that changes at most its handle.
LEMMA HandleInv ==
  ASSUME NInv, ~broken, Distinct, NEW w \in Waiters, NEW n \in Nodes, n = v[w].node,
         policy' = policy, phase' = phase, terminated' = terminated, qhead' = qhead,
         late' = late, broken' = broken, v' \in [Threads -> LocalType],
         released' \in [Waiters -> BOOLEAN], interrupted' \in [Waiters -> BOOLEAN],
         held' \in [Waiters -> BOOLEAN], asleep' \in [Waiters -> BOOLEAN],
         \A u \in Threads : u # w => v'[u] = v[u],
         Stage(w)', v'[w].node = n,
         v[w].pc \in WaitLabels \ {"flag"}, v'[w].pc \in WaitLabels,
         \/ NodeIs(n, node[n].live, node[n].in_use, node[n].queued, node[n].next, node[n].waiter)
         \/ NodeIs(n, node[n].live, node[n].in_use, node[n].queued, node[n].next, Null)
  PROVE  NInv'
<1>0. TypeInv /\ Shape /\ Stage(w) /\ w \in Threads
  BY DEF NInv, Shape, Threads
<1>1. Rest(w) = Null /\ Then(w) = Null /\ Own(w) = {} /\ v[w].pc # "flag"
  BY <1>0, Away DEF WaitLabels
<1>2. Rest(w)' = Null /\ Then(w)' = Null /\ Own(w)' = {} /\ v'[w].pc # "next"
  BY <1>0, AwayAfter DEF WaitLabels
<1>3. Succ' = Succ
  BY SuccIs
<1>4. \A m \in Nodes : /\ node'[m].live = node[m].live /\ node'[m].in_use = node[m].in_use
                       /\ node'[m].queued = node[m].queued
                       /\ node'[m].waiter \in {node[m].waiter, Null}
  BY DEF NodeIs
<1>5. TypeInv'
  BY <1>0 DEF TypeInv, NodeIs
<1>6. Shape'
  BY <1>0, <1>1, <1>2, <1>3, <1>4, Quiet
<1>7. QED BY <1>5, <1>6 DEF NInv

\* TestInvalid keeps the invariant.
LEMMA TestInvalidInv ==
  ASSUME NInv, Distinct, NEW w \in Waiters, TestInvalid(w)
  PROVE  NInv'
<1> USE DEF park, past
<1>0. TypeInv /\ ~broken /\ Shape /\ w \in Threads /\ Stage(w) /\ w # Advancer
  BY DEF NInv, TestInvalid, At, Shape, Threads, Distinct
<1>1. v[w].pc = "test" /\ policy' = policy
  BY DEF TestInvalid, At
<1>n. PICK n \in Nodes : n = v[w].node
  BY <1>0, <1>1, Fields DEF Stage
<1> DEFINE on == UNCHANGED <<held, released>> /\ Goto(w, IF v[w].p = Lock THEN "head" ELSE "push")
<1>2. (LooksOver(w) /\ Unparked(w)) \/ (LooksOn(w) /\ on)
  <2>1. is_releasable(w, Unparked(w), on)
    BY DEF TestInvalid
  <2> HIDE DEF on
  <2>2. QED BY <1>0, <1>n, <2>1, Releasable
<1>3. /\ interrupted' \in [Waiters -> BOOLEAN]
      /\ \/ NodeIs(n, node[n].live, node[n].in_use, node[n].queued, node[n].next, node[n].waiter)
         \/ NodeIs(n, node[n].live, node[n].in_use, node[n].queued, node[n].next, Null)
  BY <1>0, <1>2, <1>n, LookTypes
<1>4. CASE Unparked(w)
  <2>1. /\ Locals(w, "again", v[w].in, v[w].kind, v[w].node, Null, v[w].q, v[w].next, v[w].who,
                  v[w].back)
        /\ Stage(w)' /\ held' \in [Waiters -> BOOLEAN] /\ released' \in [Waiters -> BOOLEAN]
    BY <1>0, <1>1, <1>4, UnparkedStage
  <2>2. QED
    BY <1>0, <1>1, <1>n, <1>3, <2>1, HandleInv DEF Locals, TypeInv, TestInvalid, WaitLabels
<1>5. CASE on
  <2>1. PICK label \in {"head", "push"} : Goto(w, label) /\ (label = "push" => v[w].p # Lock)
    BY <1>5
  <2>2. Locals(w, label, v[w].in, v[w].kind, v[w].node, v[w].p, v[w].q, v[w].next, v[w].who,
               v[w].back)
    BY <1>0, <2>1, GotoLocals DEF Labels, WaitLabels
  <2>3. Stage(w)'
    BY <1>0, <1>1, <2>1, <2>2 DEF Locals, Stage, Releasing
  <2>4. QED
    BY <1>0, <1>1, <1>n, <1>3, <1>5, <2>2, <2>3, HandleInv
      DEF Locals, TypeInv, TestInvalid, WaitLabels
<1>6. QED BY <1>2, <1>4, <1>5

\* Recheck keeps the invariant.
LEMMA RecheckInv ==
  ASSUME NInv, Distinct, NEW w \in Waiters, Recheck(w)
  PROVE  NInv'
<1> USE DEF park, past
<1>0. TypeInv /\ ~broken /\ Shape /\ w \in Threads /\ Stage(w) /\ w # Advancer
  BY DEF NInv, Recheck, At, Shape, Threads, Distinct
<1>1. v[w].pc = "recheck" /\ policy' = policy
  BY DEF Recheck, At
<1>n. PICK n \in Nodes : n = v[w].node
  BY <1>0, <1>1, Fields DEF Stage
<1>2. \/ LooksOver(w) /\ Unparked(w) /\ UNCHANGED asleep
      \/ /\ LooksOn(w) /\ held' = [held EXCEPT ![w] = FALSE]
         /\ asleep' = [asleep EXCEPT ![w] = TRUE] /\ Goto(w, "asleep") /\ UNCHANGED released
  BY <1>0, <1>n, Releasable DEF Recheck
<1>3. /\ interrupted' \in [Waiters -> BOOLEAN]
      /\ \/ NodeIs(n, node[n].live, node[n].in_use, node[n].queued, node[n].next, node[n].waiter)
         \/ NodeIs(n, node[n].live, node[n].in_use, node[n].queued, node[n].next, Null)
  BY <1>0, <1>2, <1>n, LookTypes
<1>4. CASE Unparked(w) /\ UNCHANGED asleep
  <2>1. /\ Locals(w, "again", v[w].in, v[w].kind, v[w].node, Null, v[w].q, v[w].next, v[w].who,
                  v[w].back)
        /\ Stage(w)' /\ held' \in [Waiters -> BOOLEAN] /\ released' \in [Waiters -> BOOLEAN]
    BY <1>0, <1>1, <1>4, UnparkedStage
  <2>2. QED
    BY <1>0, <1>1, <1>n, <1>3, <1>4, <2>1, HandleInv DEF Locals, TypeInv, Recheck, WaitLabels
<1>5. CASE /\ held' = [held EXCEPT ![w] = FALSE]
           /\ asleep' = [asleep EXCEPT ![w] = TRUE] /\ Goto(w, "asleep") /\ UNCHANGED released
  <2>1. held' \in [Waiters -> BOOLEAN] /\ asleep' \in [Waiters -> BOOLEAN]
    BY <1>0, <1>5 DEF TypeInv
  <2>2. Locals(w, "asleep", v[w].in, v[w].kind, v[w].node, v[w].p, v[w].q, v[w].next, v[w].who,
               v[w].back)
    BY <1>0, <1>5, GotoLocals DEF Labels, WaitLabels
  <2>3. Stage(w)'
    BY <1>0, <1>1, <2>2 DEF Locals, Stage, Releasing
  <2>4. QED
    BY <1>0, <1>1, <1>n, <1>3, <1>5, <2>1, <2>2, <2>3, HandleInv
       DEF Locals, TypeInv, Recheck, WaitLabels
<1>6. QED BY <1>2, <1>4, <1>5

\* Again keeps the invariant.
LEMMA AgainInv ==
  ASSUME NInv, Distinct, NEW w \in Waiters, Again(w)
  PROVE  NInv'
<1> USE DEF park, past
<1>0. TypeInv /\ ~broken /\ Shape /\ w \in Threads /\ Stage(w) /\ w # Advancer
  BY DEF NInv, Again, At, Shape, Threads, Distinct
<1>1. v[w].pc = "again" /\ policy' = policy
  BY DEF Again, At
<1>n. PICK n \in Nodes : n = v[w].node
  BY <1>0, <1>1, Fields DEF Stage
<1>2. (LooksOver(w) /\ Goto(w, "drop")) \/ (LooksOn(w) /\ Goto(w, "loop"))
  BY <1>0, <1>n, Releasable DEF Again
<1>3. /\ interrupted' \in [Waiters -> BOOLEAN]
      /\ \/ NodeIs(n, node[n].live, node[n].in_use, node[n].queued, node[n].next, node[n].waiter)
         \/ NodeIs(n, node[n].live, node[n].in_use, node[n].queued, node[n].next, Null)
  BY <1>0, <1>2, <1>n, LookTypes
<1>4. PICK label \in {"drop", "loop"} : Goto(w, label)
  BY <1>2
<1>5. Locals(w, label, v[w].in, v[w].kind, v[w].node, v[w].p, v[w].q, v[w].next, v[w].who,
             v[w].back)
  BY <1>0, <1>4, GotoLocals DEF Labels, WaitLabels
<1>6. Stage(w)'
  BY <1>0, <1>1, <1>5 DEF Locals, Stage, Releasing
<1>7. QED
  BY <1>0, <1>1, <1>n, <1>3, <1>5, <1>6, HandleInv DEF Locals, TypeInv, Again, WaitLabels

\* DropWaiter keeps the invariant.
LEMMA DropWaiterInv ==
  ASSUME NInv, Distinct, NEW w \in Waiters, DropWaiter(w)
  PROVE  NInv'
<1> USE DEF park, past
<1>0. TypeInv /\ ~broken /\ Shape /\ w \in Threads /\ Stage(w) /\ w # Advancer
  BY DEF NInv, DropWaiter, At, Shape, Threads, Distinct
<1>1. v[w].pc = "drop" /\ policy' = policy /\ Goto(w, "free")
  BY DEF DropWaiter, At
<1>n. PICK n \in Nodes : n = v[w].node
  BY <1>0, <1>1, Fields DEF Stage
<1>2. NodeIs(n, node[n].live, node[n].in_use, node[n].queued, node[n].next, Null)
  BY <1>0, <1>n, NodeDropped DEF DropWaiter
<1>3. Locals(w, "free", v[w].in, v[w].kind, v[w].node, v[w].p, v[w].q, v[w].next, v[w].who,
             v[w].back)
  BY <1>0, <1>1, GotoLocals DEF Labels, WaitLabels
<1>4. Stage(w)'
  BY <1>0, <1>1, <1>3 DEF Locals, Stage, Releasing
<1>5. interrupted' \in [Waiters -> BOOLEAN] /\ released' \in [Waiters -> BOOLEAN]
  BY <1>0 DEF TypeInv, DropWaiter
<1>6. QED
  BY <1>0, <1>1, <1>n, <1>2, <1>3, <1>4, <1>5, HandleInv DEF Locals, TypeInv, DropWaiter, WaitLabels

(***************************************************************************)
(* The steps of a waiter that change its node.                             *)
(***************************************************************************)

\* A step of a waiter that leaves the chains alone.
LEMMA NodeShape ==
  ASSUME TypeInv, Shape, Distinct, NEW w \in Waiters, NEW n \in Nodes,
         policy' = policy, qhead' = qhead,
         \A u \in Threads : u # w => v'[u] = v[u],
         Stage(w)', v[w].pc \in WaitLabels, v'[w].pc \in WaitLabels,
         \A m \in Nodes : m # n => node'[m] = node[m],
         n \in Linked => node'[n].next = node[n].next,
         \A u \in Waiters : Owner(u)',
         late \subseteq late',
         \A u \in Waiters : v[u].pc = "flag" /\ v[u].node # n =>
                              v'[u].pc = "flag" /\ v'[u].node = v[u].node,
         n \in Linked => node'[n].live /\ node'[n].queued,
         node'[n].live /\ node'[n].queued => n \in Linked \cup late',
         node'[n].live /\ ~node'[n].in_use => node'[n].queued
  PROVE  Shape'
<1>0. w \in Threads /\ Stage(w)
  BY DEF Shape, Threads
<1>1. /\ \A u \in Threads : Stage(u)'
      /\ \A u \in Threads : u # w => Rest(u)' = Rest(u) /\ Then(u)' = Then(u) /\ Own(u)' = Own(u)
  BY <1>0, StageOthers
<1>2. Rest(w) = Null /\ Then(w) = Null /\ Own(w) = {} /\ v[w].pc # "next"
  BY <1>0, Away DEF WaitLabels
<1>3. Rest(w)' = Null /\ Then(w)' = Null /\ Own(w)' = {} /\ v'[w].pc # "next"
  BY <1>0, AwayAfter DEF WaitLabels
<1>4. \A m \in Linked : m \in Nodes
  BY LinkedNodes DEF Shape
<1>5. \A m \in Linked : Succ'[m] = Succ[m]
  BY <1>4 DEF Succ
<1>6. /\ Apart' /\ Chains'
      /\ \A i \in 0 .. 1 : Stack(i)' = Stack(i)
      /\ \A u \in Threads : u # w => Hand(u)' = Hand(u)
      /\ Hand(w)' = Own(w)' \cup (Hand(w) \ Own(w))
  BY <1>0, <1>1, <1>2, <1>3, <1>5, Still
<1>7. Linked' = Linked
  <2>1. Hand(w)' = Hand(w)
    BY <1>2, <1>3, <1>6
  <2>2. QED BY <1>6, <2>1, SameLinked
<1>8. Locked'
  BY <1>3, LockedOthers
<1>9. Flags'
  <2>1. ASSUME NEW m \in Linked
        PROVE  /\ node'[m].live
               /\ node'[m].queued \/ \E u \in Waiters : v'[u].node = m /\ v'[u].pc = "flag"
    BY <1>4, <2>1 DEF Shape, Flags
  <2>2. ASSUME NEW m \in Nodes
        PROVE  /\ node'[m].live /\ node'[m].queued => m \in Linked \cup late'
               /\ node'[m].live /\ ~node'[m].in_use => node'[m].queued
    BY <2>2 DEF Shape, Flags
  <2>3. QED BY <1>7, <2>1, <2>2 DEF Flags
<1>10. QED BY <1>1, <1>6, <1>8, <1>9 DEF Shape

\* The loop goes on with the thread's node, or without one.
LEMMA LoopInv ==
  ASSUME NInv, Distinct, NEW w \in Waiters, Loop(w)
  PROVE  NInv'
<1> USE DEF park, past
<1>0. TypeInv /\ ~broken /\ Shape /\ w \in Threads /\ Stage(w) /\ w # Advancer
  BY DEF NInv, Loop, At, Shape, Threads, Distinct
<1>1. v[w].pc = "loop" /\ policy' = policy /\ qhead' = qhead /\ late' = late
  BY DEF Loop, At
<1>2. ASSUME NEW label \in {"last", "drop", "park"}, Goto(w, label),
             label = "last" <=> v[w].node = Null, UNCHANGED <<node, interrupted>>
      PROVE  NInv'
  <2>1. Locals(w, label, v[w].in, v[w].kind, v[w].node, v[w].p, v[w].q, v[w].next, v[w].who,
               v[w].back)
    BY <1>0, <1>2, GotoLocals DEF Labels, WaitLabels
  <2>2. Stage(w)'
    BY <1>0, <1>1, <1>2, <2>1 DEF Locals, Stage, Releasing
  <2>3. QED BY <1>0, <1>1, <1>2, <2>1, <2>2, AwayInv DEF Locals, TypeInv, Loop
<1>3. CASE \E n \in Nodes :
             /\ ~node[n].live
             /\ node' = [node EXCEPT ![n] =
                  [live |-> TRUE, in_use |-> TRUE, queued |-> FALSE, kind |-> v[w].kind,
                   was_interrupted |-> interrupted[w] /\ v[w].kind # "for",
                   next |-> Null, waiter |-> w, phase |-> v[w].in]]
             /\ v' = [v EXCEPT ![w].node = n]
             /\ interrupted' = IF v[w].kind = "for" THEN interrupted
                               ELSE [interrupted EXCEPT ![w] = FALSE]
  <2>n. PICK n \in Nodes :
             /\ ~node[n].live
             /\ node' = [node EXCEPT ![n] =
                  [live |-> TRUE, in_use |-> TRUE, queued |-> FALSE, kind |-> v[w].kind,
                   was_interrupted |-> interrupted[w] /\ v[w].kind # "for",
                   next |-> Null, waiter |-> w, phase |-> v[w].in]]
             /\ v' = [v EXCEPT ![w].node = n]
             /\ interrupted' = IF v[w].kind = "for" THEN interrupted
                               ELSE [interrupted EXCEPT ![w] = FALSE]
    BY <1>3
  <2>1. NodeIs(n, TRUE, TRUE, FALSE, Null, w)
    <3>1. v[w].kind \in Kinds \cup {"default"} /\ v[w].in \in Nat
      BY <1>0, Fields
    <3>2. PICK int \in BOOLEAN : int = (interrupted[w] /\ v[w].kind # "for")
      BY <1>0 DEF TypeInv
    <3>3. QED BY <1>0, <2>n, <3>1, <3>2, NodeMade
  <2>2. Locals(w, v[w].pc, v[w].in, v[w].kind, n, v[w].p, v[w].q, v[w].next, v[w].who, v[w].back)
    BY <1>0, <2>n, NodeLocals
  <2>3. Stage(w)'
    BY <1>0, <1>1, <2>2 DEF Locals, Stage, Releasing
  <2>4. n \notin Linked
    BY <1>0, <2>n DEF Shape, Flags
  <2>5. \A u \in Waiters : v[u].node # n
    BY <1>0, <2>n DEF Shape, Owner, Distinct
  <2>6. \A u \in Waiters : Owner(u)'
    <3>1. Owner(w)'
      BY <2>1, <2>2, <2>5 DEF Owner, NodeIs, Locals, Threads
    <3>2. ASSUME NEW u \in Waiters, u # w
          PROVE  Owner(u)'
      <4>1. v'[u] = v[u] /\ v[u].node \in Nodes \cup {Null}
        BY <1>0, <2>2, <3>2, Fields DEF Locals, Threads
      <4>2. \A x \in Waiters : v'[x].node = v[u].node => x = w \/ v[x].node = v[u].node
        BY <2>2, <3>2 DEF Locals, Threads
      <4>3. QED BY <1>0, <2>1, <2>2, <2>5, <4>1, <4>2 DEF Shape, Owner, NodeIs, Locals
    <3>3. QED BY <3>1, <3>2
  <2>7. \A u \in Waiters : v[u].pc = "flag" => v'[u].pc = "flag" /\ v'[u].node = v[u].node
    BY <1>1, <2>2 DEF Locals, Threads
  <2>8. Shape'
    BY <1>0, <1>1, <2>1, <2>2, <2>3, <2>4, <2>6, <2>7, NodeShape DEF Locals, NodeIs, WaitLabels
  <2>9. TypeInv'
    BY <1>0, <1>1, <2>n, <2>1, <2>2 DEF TypeInv, Loop, NodeIs, Locals
  <2>10. QED BY <2>8, <2>9 DEF NInv
<1>4. QED BY <1>2, <1>3 DEF Loop

\* ReleaseNode keeps the invariant.
LEMMA ReleaseNodeInv ==
  ASSUME NInv, Distinct, NEW w \in Waiters, ReleaseNode(w)
  PROVE  NInv'
<1> USE DEF park, past
<1>0. TypeInv /\ ~broken /\ Shape /\ w \in Threads /\ Stage(w) /\ w # Advancer
  BY DEF NInv, ReleaseNode, At, Shape, Threads, Distinct
<1>1. v[w].pc = "free" /\ policy' = policy /\ qhead' = qhead /\ late' = late
  BY DEF ReleaseNode, At
<1>n. PICK n \in Nodes : n = v[w].node
  BY <1>0, <1>1, Fields DEF Stage
<1>2. Locals(w, "last", v[w].in, v[w].kind, Null, v[w].p, v[w].q, v[w].next, v[w].who, v[w].back)
  BY <1>0, FreeLocals DEF ReleaseNode
<1>3. Stage(w)'
  BY <1>0, <1>1, <1>2 DEF Locals, Stage, Releasing
<1>4. \A u \in Waiters : v[u].node = n => u = w
  BY <1>0, <1>n DEF Shape, Owner, Distinct
<1>5. \A u \in Waiters : u # w => v'[u] = v[u]
  BY <1>2 DEF Locals, Threads
<1>6. ASSUME NEW live, NEW in_use, NEW queued, NEW next, NEW waiter,
             NodeIs(n, live, in_use, queued, next, waiter)
      PROVE  \A u \in Waiters : Owner(u)'
  <2>1. Owner(w)'
    BY <1>2 DEF Owner, Locals
  <2>2. ASSUME NEW u \in Waiters, u # w
        PROVE  Owner(u)'
    <3>1. v[u].node \in Nodes \cup {Null} /\ v[u].node # n
      BY <1>0, <1>4, <2>2, Fields DEF Threads
    <3>2. \A x \in Waiters : v'[x].node = v[u].node /\ v[u].node # Null => v[x].node = v[u].node
      BY <1>2, <1>5 DEF Locals
    <3>3. QED BY <1>0, <1>5, <1>6, <2>2, <3>1, <3>2 DEF Shape, Owner, NodeIs
  <2>3. QED BY <2>1, <2>2
<1>7. \A u \in Waiters : v[u].pc = "flag" => v'[u].pc = "flag" /\ v'[u].node = v[u].node
  BY <1>1, <1>5
<1>8. CASE node[n].queued
  <2>1. node' = [node EXCEPT ![n] = [node[n] EXCEPT !.in_use = FALSE]]
    BY <1>8, <1>n DEF ReleaseNode
  <2>2. NodeIs(n, node[n].live, FALSE, node[n].queued, node[n].next, node[n].waiter)
    BY <1>0, <2>1, NodeLeft
  <2>3. n \in Linked \cup late /\ node[n].live
    BY <1>0, <1>8, <1>n DEF Shape, Flags, Owner, Distinct
  <2>4. Shape'
    BY <1>0, <1>1, <1>2, <1>3, <1>6, <1>7, <1>8, <2>2, <2>3, NodeShape
       DEF Locals, NodeIs, WaitLabels
  <2>5. TypeInv'
    BY <1>0, <1>1, <1>2, <2>2 DEF TypeInv, ReleaseNode, NodeIs, Locals
  <2>6. QED BY <2>4, <2>5 DEF NInv
<1>9. CASE ~node[n].queued
  <2>1. node' = [node EXCEPT ![n] = Free]
    BY <1>9, <1>n DEF ReleaseNode
  <2>2. NodeIs(n, FALSE, FALSE, FALSE, Null, Null)
    BY <1>0, <2>1, NodeFreed
  <2>3. n \notin Linked
    BY <1>0, <1>1, <1>4, <1>9 DEF Shape, Flags
  <2>4. Shape'
    BY <1>0, <1>1, <1>2, <1>3, <1>6, <1>7, <2>2, <2>3, NodeShape DEF Locals, NodeIs, WaitLabels
  <2>5. TypeInv'
    BY <1>0, <1>1, <1>2, <2>2 DEF TypeInv, ReleaseNode, NodeIs, Locals
  <2>6. QED BY <2>4, <2>5 DEF NInv
<1>10. QED BY <1>8, <1>9

\* The node's owner keeps it, and it stays live and in use.
LEMMA OwnerKept ==
  ASSUME Shape, \A u \in Waiters : v'[u].node = v[u].node,
         \A m \in Nodes : /\ node'[m].live = node[m].live /\ node'[m].in_use = node[m].in_use
                          /\ node'[m].waiter = node[m].waiter,
         \A u \in Waiters : v[u].node \in Nodes \cup {Null}
  PROVE  \A u \in Waiters : Owner(u)'
  BY DEF Shape, Owner

\* SetQueued keeps the invariant.
LEMMA SetQueuedInv ==
  ASSUME NInv, Distinct, NEW w \in Waiters, SetQueued(w)
  PROVE  NInv'
<1> USE DEF park, past
<1>0. TypeInv /\ ~broken /\ Shape /\ w \in Threads /\ Stage(w) /\ w # Advancer
  BY DEF NInv, SetQueued, At, Shape, Threads, Distinct
<1>1. v[w].pc = "flag" /\ policy' = policy /\ qhead' = qhead /\ Goto(w, "recheck")
  BY DEF SetQueued, At
<1>n. PICK n \in Nodes : n = v[w].node
  BY <1>0, <1>1, Fields DEF Stage
<1>2. Locals(w, "recheck", v[w].in, v[w].kind, n, v[w].p, v[w].q, v[w].next, v[w].who, v[w].back)
  BY <1>0, <1>1, <1>n, GotoLocals DEF Labels, WaitLabels
<1>3. Stage(w)'
  BY <1>0, <1>1, <1>2 DEF Locals, Stage, Releasing, Distinct
<1>4. NodeIs(n, node[n].live, node[n].in_use, TRUE, node[n].next, node[n].waiter)
  BY <1>0, <1>n, NodeQueued DEF SetQueued
<1>5. Listed = Linked
  BY <1>0, ListedIsLinked DEF Shape
<1>6. late' = IF n \in Linked THEN late ELSE late \cup {n}
  BY <1>5, <1>n DEF SetQueued
<1>7. \A u \in Waiters : Owner(u)'
  <2>1. \A u \in Waiters : v'[u].node = v[u].node /\ v[u].node \in Nodes \cup {Null}
    BY <1>0, <1>n, <1>2, Fields DEF Locals, Threads
  <2>2. QED BY <1>0, <1>4, <2>1, OwnerKept DEF NodeIs
<1>8. \A u \in Waiters : v[u].pc = "flag" /\ v[u].node # n =>
                           v'[u].pc = "flag" /\ v'[u].node = v[u].node
  BY <1>2, <1>n DEF Locals, Threads
<1>9. node[n].live /\ node[n].in_use
  BY <1>0, <1>n DEF Shape, Owner, Distinct
<1>10. Shape'
  <2>1. late \subseteq late' /\ n \in Linked \cup late'
    BY <1>6
  <2>2. QED
    BY <1>0, <1>1, <1>2, <1>3, <1>4, <1>7, <1>8, <1>9, <2>1, NodeShape
      DEF Locals, NodeIs, WaitLabels
<1>11. TypeInv'
  BY <1>0, <1>1, <1>2, <1>4, <1>6 DEF TypeInv, SetQueued, NodeIs, Locals
<1>12. QED BY <1>10, <1>11 DEF NInv

\* A push that succeeds: the node is the new head, and its owner is at "flag".
LEMMA PushedShape ==
  ASSUME TypeInv, Shape, Distinct, NEW w \in Waiters, NEW q \in 0 .. 1, NEW n \in Nodes,
         n = v[w].node, n \notin Linked, v[w].pc = "push", qhead[q] # Lock,
         policy' = policy, late' = late, qhead' = [qhead EXCEPT ![q] = n],
         NodeIs(n, node[n].live, node[n].in_use, node[n].queued, qhead[q], node[n].waiter),
         \A u \in Threads : u # w => v'[u] = v[u],
         Stage(w)', v'[w].pc = "flag", v'[w].node = n
  PROVE  /\ Shape'
         /\ Stack(q)' = {n} \cup Stack(q) /\ \A i \in 0 .. 1 : i # q => Stack(i)' = Stack(i)
         /\ \A u \in Threads : Hand(u)' = Hand(u)
<1>0. w \in Threads /\ Stage(w)
  BY DEF Shape, Threads
<1>1. /\ \A u \in Threads : Stage(u)'
      /\ \A u \in Threads : u # w => Rest(u)' = Rest(u) /\ Then(u)' = Then(u) /\ Own(u)' = Own(u)
  BY <1>0, StageOthers
<1>2. Rest(w) = Null /\ Then(w) = Null /\ Own(w) = {}
  BY <1>0, Away
<1>3. Rest(w)' = Null /\ Then(w)' = Null /\ Own(w)' = {}
  BY <1>0, AwayAfter
<1>4. Succ' = [Succ EXCEPT ![n] = qhead[q]]
  BY SuccIs
<1>5. /\ Apart' /\ Chains'
      /\ Stack(q)' = {n} \cup Stack(q) /\ \A i \in 0 .. 1 : i # q => Stack(i)' = Stack(i)
      /\ \A u \in Threads : Hand(u)' = Hand(u)
  BY <1>0, <1>1, <1>2, <1>3, <1>4, Pushed
<1>6. ASSUME NEW m
      PROVE  m \in Linked' <=> m \in Linked \/ m = n
  <2>1. m \in Linked <=> \/ \E i \in 0 .. 1 : m \in Stack(i)
                         \/ \E u \in Threads : m \in Hand(u)
    BY Parts
  <2>2. QED BY <1>5, <2>1, PartsAfter
<1>7. Locked'
  <2>1. \A i \in 0 .. 1 : qhead'[i] = IF i = q THEN n ELSE qhead[i]
    BY DEF TypeInv
  <2>2. n # Lock
    BY DEF Distinct
  <2>3. \A u \in Threads : v'[u].pc = "next" => v'[u] = v[u]
    OBVIOUS
  <2>4. QED BY <2>1, <2>2, <2>3, Fields DEF Shape, Locked
<1>8. \A u \in Waiters : Owner(u)'
  <2>1. \A u \in Waiters : v'[u].node = v[u].node /\ v[u].node \in Nodes \cup {Null}
    BY Fields DEF Threads
  <2>2. QED BY <2>1, OwnerKept DEF NodeIs
<1>9. Flags'
  <2>1. \A m \in Linked : m \in Nodes
    BY LinkedNodes DEF Shape
  <2>2. node[n].live /\ node[n].in_use
    BY DEF Shape, Owner, Distinct
  <2>3. \A u \in Waiters : v[u].pc = "flag" => v'[u].pc = "flag" /\ v'[u].node = v[u].node
    BY DEF Threads
  <2>4. ASSUME NEW m \in Linked'
        PROVE  /\ node'[m].live
               /\ node'[m].queued \/ \E u \in Waiters : v'[u].node = m /\ v'[u].pc = "flag"
    <3>1. CASE m = n
      BY <2>2, <3>1 DEF NodeIs
    <3>2. CASE m # n
      BY <1>6, <2>1, <2>3, <3>2 DEF Shape, Flags, NodeIs
    <3>3. QED BY <3>1, <3>2
  <2>5. ASSUME NEW m \in Nodes
        PROVE  /\ node'[m].live /\ node'[m].queued => m \in Linked' \cup late'
               /\ node'[m].live /\ ~node'[m].in_use => node'[m].queued
    BY <1>6, <2>2 DEF Shape, Flags, NodeIs
  <2>6. QED BY <2>4, <2>5 DEF Flags
<1>10. QED BY <1>1, <1>5, <1>7, <1>8, <1>9 DEF Shape

\* Push keeps the invariant.
LEMMA PushInv ==
  ASSUME NInv, Distinct, NEW w \in Waiters, Push(w)
  PROVE  NInv'
<1> USE DEF park, past
<1>0. TypeInv /\ ~broken /\ Shape /\ w \in Threads /\ Stage(w) /\ w # Advancer
  BY DEF NInv, Push, At, Shape, Threads, Distinct
<1>1. v[w].pc = "push" /\ policy' = policy /\ late' = late /\ v[w].p # Lock
  BY <1>0 DEF Push, At, Stage
<1>n. PICK n \in Nodes : n = v[w].node
  BY <1>0, <1>1, Fields DEF Stage
<1>q. PICK q \in 0 .. 1 : q = get_queue(v[w].in)
  BY <1>0, Fields DEF get_queue
<1>2. Listed = Linked
  BY <1>0, ListedIsLinked DEF Shape
<1>3. CASE n \in Linked
  BY <1>0, <1>2, <1>3, <1>n, BreakInv DEF Push, TypeInv
<1>4. CASE n \notin Linked
  <2>0. v[w].p \in Nodes \cup {Null} /\ qhead[q] \in Nodes \cup {Null, Lock}
    BY <1>0, <1>1, Fields DEF TypeInv
  <2>1. node' = [node EXCEPT ![n].next = v[w].p] /\ broken' = broken
    BY <1>2, <1>4, <1>n DEF Push, Same
  <2>2. NodeIs(n, node[n].live, node[n].in_use, node[n].queued, v[w].p, node[n].waiter)
    BY <1>0, <2>0, <2>1, NodeLinked
  <2>3. CASE /\ qhead[q] = v[w].p /\ qhead' = [qhead EXCEPT ![q] = n]
             /\ v' = [v EXCEPT ![w].pc = "flag", ![w].p = Null]
    <3>1. Locals(w, "flag", v[w].in, v[w].kind, n, Null, v[w].q, v[w].next, v[w].who, v[w].back)
      BY <1>0, <1>n, <2>3, EntryLocals DEF Labels, WaitLabels
    <3>2. Stage(w)'
      BY <1>0, <1>1, <3>1 DEF Locals, Stage, Releasing, Distinct
    <3>3. Shape'
      BY <1>0, <1>1, <1>4, <1>n, <2>2, <2>3, <3>1, <3>2, PushedShape DEF Locals
    <3>4. TypeInv'
      BY <1>0, <1>1, <2>1, <2>2, <2>3, <3>1 DEF TypeInv, Push, NodeIs, Locals
    <3>5. QED BY <3>3, <3>4 DEF NInv
  <2>4. CASE v' = [v EXCEPT ![w].p = qhead[q], ![w].pc = "test"] /\ qhead' = qhead
    <3>1. Locals(w, "test", v[w].in, v[w].kind, n, qhead[q], v[w].q, v[w].next, v[w].who, v[w].back)
      BY <1>0, <1>n, <2>0, <2>4, HeadLocals DEF Labels, WaitLabels
    <3>2. Stage(w)'
      BY <1>0, <1>1, <3>1 DEF Locals, Stage, Releasing, Distinct
    <3>3. \A u \in Waiters : Owner(u)'
      <4>1. \A u \in Waiters : v'[u].node = v[u].node /\ v[u].node \in Nodes \cup {Null}
        BY <1>0, <1>n, <3>1, Fields DEF Locals, Threads
      <4>2. QED BY <1>0, <2>2, <4>1, OwnerKept DEF NodeIs
    <3>4. node[n].in_use /\ (node[n].live /\ node[n].queued => n \in Linked \cup late)
      BY <1>0, <1>n DEF Shape, Owner, Distinct, Flags
    <3>5. \A u \in Waiters : v[u].pc = "flag" => v'[u].pc = "flag" /\ v'[u].node = v[u].node
      BY <1>1, <3>1 DEF Locals, Threads
    <3>6. Shape'
      <4>1. /\ \A m \in Nodes : m # n => node'[m] = node[m]
            /\ node'[n].live /\ node'[n].queued => n \in Linked \cup late'
            /\ node'[n].in_use
        BY <1>1, <2>2, <3>4 DEF NodeIs
      <4>2. v[w].pc \in WaitLabels /\ v'[w].pc \in WaitLabels
            /\ \A u \in Threads : u # w => v'[u] = v[u]
        BY <1>1, <3>1 DEF Locals, WaitLabels
      <4>3. QED BY <1>0, <1>1, <1>4, <2>4, <3>2, <3>3, <3>5, <4>1, <4>2, NodeShape
    <3>7. TypeInv'
      BY <1>0, <1>1, <2>1, <2>2, <2>4, <3>1 DEF TypeInv, Push, NodeIs, Locals
    <3>8. QED BY <3>6, <3>7 DEF NInv
  <2>5. QED BY <1>2, <1>4, <1>n, <1>q, <2>3, <2>4 DEF Push
<1>5. QED BY <1>3, <1>4

(***************************************************************************)
(* The invariant holds in every state.                                     *)
(***************************************************************************)
LEMMA InitInv ==
  ASSUME Init, Distinct
  PROVE  NInv
<1> USE DEF Init
<1>1. TypeInv
  <2>1. Local \in LocalType /\ Free \in NodeType
    BY DEF Local, LocalType, Labels, Free, NodeType
  <2>2. v = [t \in Threads |-> Local] /\ node = [n \in Nodes |-> Free]
    OBVIOUS
  <2> HIDE DEF Init
  <2>3. v \in [Threads -> LocalType] /\ node \in [Nodes -> NodeType]
    BY <2>1, <2>2
  <2>4. QED BY <2>3 DEF Init, TypeInv
<1>2. \A t \in Threads : v[t] = Local
  OBVIOUS
<1>3. \A n \in Nodes : node[n] = Free
  OBVIOUS
<1>4. \A i \in 0 .. 1 : qhead[i] = Null
  OBVIOUS
<1>5. late = {} /\ policy \in {"WAKING_THREAD", "COOPERATIVE"}
  OBVIOUS
<1> HIDE DEF Init
<1>6. \A t \in Threads : Stage(t) /\ Rest(t) = Null /\ Then(t) = Null /\ Own(t) = {}
  BY <1>2 DEF Local, Stage, Rest, Then, Own, Releasing
<1>7. \A w \in Waiters : Owner(w)
  BY <1>2 DEF Local, Owner, Threads
<1>8. Locked
  BY <1>2, <1>4 DEF Local, Locked, Lock, Null
<1>9. /\ From(Succ, {Null}) = {} /\ Straight(Succ, Null)
  BY Ends
<1>10. \A i \in 0 .. 1 : Stack(i) = {}
  BY <1>4, <1>9, Unfold
<1>11. \A t \in Threads : Hand(t) = {}
  BY <1>6, <1>9, Unfold
<1>12. Apart
  BY <1>10, <1>11 DEF Apart
<1>13. Chains
  BY <1>4, <1>6, <1>9 DEF Chains
<1>14. Flags
  BY <1>3, <1>10, <1>11, Parts DEF Flags, Free
<1>15. QED BY <1>1, <1>6, <1>7, <1>8, <1>12, <1>13, <1>14 DEF Shape, NInv

\* Every step keeps the invariant.
LEMMA NextInv ==
  ASSUME NInv, Distinct, [Next]_vars
  PROVE  NInv'
<1>1. ASSUME NEW t \in Threads, Release(t)
      PROVE  NInv'
  BY <1>1, SingleInv, CooperativeInv, LockHeadInv, ReadNextInv, QueueReleaseInv, TestWaiterInv,
     ReadWaiterInv, UnparkInv DEF Release
<1>2. ASSUME NEW w \in Waiters, Wait(w)
      PROVE  NInv'
  BY <1>2, LoopInv, ParkInv, LoadHeadInv, TestInvalidInv, PushInv, SetQueuedInv, RecheckInv,
     WakeUpInv, AgainInv, DropWaiterInv, ReleaseNodeInv, LastInv, ReturnInv DEF Wait
<1>3. CASE UNCHANGED vars
  <2>1. /\ policy' = policy /\ phase' = phase /\ terminated' = terminated /\ qhead' = qhead
        /\ node' = node /\ released' = released /\ interrupted' = interrupted /\ held' = held
        /\ asleep' = asleep /\ v' = v /\ broken' = broken /\ late' = late
    BY <1>3 DEF vars, park
  <2>2. TypeInv' = TypeInv
    BY <2>1 DEF TypeInv
  <2>3. Succ' = Succ
    BY <2>1 DEF Succ
  <2>4. CASE broken
    BY <2>1, <2>2, <2>4 DEF NInv
  <2>5. CASE ~broken
    <3>1. Advancer \in Threads /\ TypeInv /\ Shape /\ Stage(Advancer)' /\ v[Advancer].pc # "flag"
      BY <2>1, <2>5 DEF NInv, Threads, Shape, Stage, Releasing
    <3>2. Own(Advancer)' = Own(Advancer) /\ Rest(Advancer)' = Rest(Advancer)
          /\ Then(Advancer)' = Then(Advancer)
      BY <2>1 DEF Own, Rest, Then
    <3>3. Shape'
      BY <2>1, <2>3, <3>1, <3>2, Quiet
    <3>4. QED BY <2>2, <3>1, <3>3 DEF NInv
  <2>6. QED BY <2>4, <2>5
<1>4. QED
  BY <1>1, <1>2, <1>3, AdvancerInv, OutsideInv, AwaitInv DEF Next, Step

\* What is listed is live, and a node that was left is listed or late.
LEMMA InvOwned ==
  ASSUME NInv, Distinct
  PROVE  NodesOwned
<1>1. CASE broken
  BY <1>1 DEF NodesOwned
<1>2. CASE ~broken
  <2>1. Shape /\ Listed = Linked
    BY <1>2, ListedIsLinked DEF NInv, Shape
  <2>2. QED BY <2>1 DEF Shape, Flags, NodesOwned
<1>3. QED BY <1>1, <1>2

\* NodesOwned, for any number of waiters, nodes and phases: no stack reaches a
\* destroyed node, and no node is lost, until an access goes wrong.
THEOREM NodesStayOwned ==
  ASSUME Distinct
  PROVE  Spec => []NodesOwned
<1>1. Init => NInv
  BY InitInv
<1>2. NInv /\ [Next]_vars => NInv'
  BY NextInv
<1>3. NInv => NodesOwned
  BY InvOwned
<1>4. QED BY <1>1, <1>2, <1>3, PTL DEF Spec

(***************************************************************************)
(* Nobody stranded: the invariant.                                         *)
(***************************************************************************)

\* t will come to queue i again before it is done.
Comes(t, i) ==
  \/ v[t].pc \in {"release", "pop"} /\ v[t].q = i
  \/ /\ policy = "COOPERATIVE" /\ v[t].q = i
     /\ v[t].pc \in {"clear", "waiter", "unpark", "wake"} /\ v[t].next # Null
  \/ i = 1 /\ (v[t].pc = "odd" \/ (v[t].pc \in Releasing /\ v[t].back = "odd"))

\* w is going to block, and does not look at the phase again, or is asleep.
Blocking(w) == v[w].pc \in {"flag", "recheck"} \/ asleep[w]

\* An unpark of w is under way, or t has its node in hand.
Waking(t, w) ==
  \/ v[t].pc = "wake" /\ v[t].who = w
  \/ v[t].pc \in {"waiter", "unpark"} /\ v[t].p = v[w].node
Reached(w, i) ==
  \/ v[w].node \in Stack(i)
  \/ \E t \in Threads : Waking(t, w) \/ (v[w].node \in Hand(t) /\ v[t].q = i)

Sleeper(w) ==
  /\ asleep[w] => v[w].pc = "asleep"
  /\ v[w].pc \in {"head", "test", "push", "flag", "recheck"} => held[w]
  /\ v[w].pc \in {"push", "flag", "recheck"} \/ asleep[w] => node[v[w].node].waiter = w
  /\ \A i \in 0 .. 1 : i = get_queue(v[w].in) =>
       /\ Blocking(w) => Reached(w, i)
       /\ asleep[w] /\ Changed(w) /\ v[w].node \in Stack(i) => \E t \in Threads : Comes(t, i)

SInv == NInv /\ (~broken => \A w \in Waiters : Sleeper(w))

\* What a step of t in release_waiters does to the nodes: from a stack to its
\* hand, from there back to the stack or to an unpark; and to a stack that is
\* not empty it comes again.
Carried(t) ==
  /\ \A u \in Threads : u # t => Hand(u)' = Hand(u)
  /\ \A i \in 0 .. 1 : \A n \in Stack(i) : n \in Stack(i)' \/ (n \in Hand(t)' /\ v'[t].q = i)
  /\ \A i \in 0 .. 1 : i = v[t].q =>
       \A n \in Hand(t) : \/ n \in Hand(t)' /\ v'[t].q = i
                          \/ n \in Stack(i)'
                          \/ v'[t].pc = "waiter" /\ v'[t].p = n
                          \/ ~node[n].in_use
  /\ \A i \in 0 .. 1 : \A n \in Stack(i)' :
       \/ Comes(t, i)'
       \/ n \in Stack(i) /\ ~Comes(t, i)

(***************************************************************************)
(* The threads that a step does not concern.                               *)
(***************************************************************************)

\* A waiter outside of the callback, and awake.
LEMMA Awake ==
  ASSUME NEW w, ~asleep'[w], v'[w].pc \notin {"head", "test", "push", "flag", "recheck"}
  PROVE  Sleeper(w)'
  BY DEF Sleeper, Blocking

\* The node of a waiter on its way to block or asleep.
LEMMA SleeperNode ==
  ASSUME TypeInv, Shape, NEW w \in Waiters, Sleeper(w),
         v[w].pc \in {"push", "flag", "recheck"} \/ asleep[w]
  PROVE  /\ v[w].node \in Nodes /\ node[v[w].node].waiter = w
         /\ node[v[w].node].live /\ node[v[w].node].in_use
         /\ get_queue(v[w].in) \in 0 .. 1 /\ w \in Threads
<1>1. w \in Threads
  BY DEF Threads
<1>2. v[w].node # Null
  BY <1>1 DEF Shape, Stage, Sleeper
<1>3. v[w].node \in Nodes /\ v[w].in \in Nat
  BY <1>1, <1>2, Fields
<1>4. QED BY <1>1, <1>2, <1>3 DEF Shape, Owner, Sleeper, get_queue

\* A step of release_waiters, and the waiters other than t.
LEMMA ReleaseFrame ==
  ASSUME TypeInv, Shape, \A w \in Waiters : Sleeper(w), NEW t \in Threads, Carried(t),
         v[t].pc \in Releasing,
         v'[t].pc \notin {"head", "test", "push", "flag", "recheck"},
         \A u \in Threads : u # t => v'[u] = v[u],
         policy' = policy, held' = held, phase' = phase, terminated' = terminated,
         \A w \in Waiters : asleep'[w] => asleep[w],
         \A n \in Nodes : node[n].in_use => node'[n].waiter = node[n].waiter,
         \A w \in Waiters : w # t /\ Waking(t, w) /\ node[v[w].node].waiter = w =>
                              Waking(t, w)' \/ ~Blocking(w)'
  PROVE  \A w \in Waiters : Sleeper(w)'
<1>1. ASSUME t \in Waiters
      PROVE  Sleeper(t)'
  <2>1. ~asleep'[t]
    BY <1>1 DEF Sleeper, Releasing
  <2>2. QED BY <2>1, Awake
<1>2. ASSUME NEW w \in Waiters, w # t
      PROVE  Sleeper(w)'
  <2>1. w \in Threads /\ v'[w] = v[w] /\ (asleep'[w] => asleep[w]) /\ held'[w] = held[w]
        /\ Sleeper(w) /\ (Blocking(w)' => Blocking(w)) /\ (Changed(w)' <=> Changed(w))
    BY <1>2 DEF Threads, Blocking, Changed
  <2>2. v'[w].pc \in {"push", "flag", "recheck"} \/ asleep'[w] => node'[v'[w].node].waiter = w
    BY <2>1, SleeperNode
  <2>3. ASSUME NEW i \in 0 .. 1, i = get_queue(v[w].in), Blocking(w)'
        PROVE  Reached(w, i)'
    <3>1. Reached(w, i) /\ Blocking(w)
      BY <2>1, <2>3 DEF Sleeper
    <3>2. v[w].node \in Nodes /\ node[v[w].node].waiter = w /\ node[v[w].node].in_use
      BY <2>1, <3>1, SleeperNode DEF Blocking
    <3>3. CASE v[w].node \in Stack(i)
      BY <2>1, <3>3 DEF Carried, Reached
    <3>4. CASE v[w].node \in Hand(t) /\ v[t].q = i
      <4>1. \/ v[w].node \in Hand(t)' /\ v'[t].q = i
            \/ v[w].node \in Stack(i)'
            \/ v'[t].pc = "waiter" /\ v'[t].p = v[w].node
        BY <3>2, <3>4 DEF Carried
      <4>2. QED BY <2>1, <4>1 DEF Reached, Waking
    <3>5. CASE Waking(t, w)
      BY <1>2, <2>1, <2>3, <3>2, <3>5 DEF Reached
    <3>6. ASSUME NEW u \in Threads, u # t, Waking(u, w) \/ (v[w].node \in Hand(u) /\ v[u].q = i)
          PROVE  Reached(w, i)'
      BY <2>1, <3>6 DEF Carried, Reached, Waking
    <3>7. QED BY <3>1, <3>3, <3>4, <3>5, <3>6 DEF Reached
  <2>4. ASSUME NEW i \in 0 .. 1, i = get_queue(v[w].in),
               asleep'[w], Changed(w)', v[w].node \in Stack(i)'
        PROVE  \E u \in Threads : Comes(u, i)'
    <3>1. CASE Comes(t, i)'
      BY <3>1
    <3>2. CASE v[w].node \in Stack(i) /\ ~Comes(t, i)
      <4>1. PICK u \in Threads : Comes(u, i)
        BY <2>1, <2>4, <3>2 DEF Sleeper
      <4>2. u # t /\ v'[u] = v[u]
        BY <3>2, <4>1
      <4>3. policy' = policy
        OBVIOUS
      <4>4. QED BY <4>1, <4>2, <4>3 DEF Comes
    <3>3. QED BY <2>4, <3>1, <3>2 DEF Carried
  <2>5. QED BY <2>1, <2>2, <2>3, <2>4 DEF Sleeper
<1>3. QED BY <1>1, <1>2

\* A step of a waiter outside of release_waiters, and the other waiters: at
\* most its own node comes to a stack.
LEMMA WaitFrame ==
  ASSUME TypeInv, Shape, Distinct, \A u \in Waiters : Sleeper(u), NEW w \in Waiters,
         v[w].pc \in WaitLabels \cup {"idle"}, policy' = policy,
         \A u \in Threads : u # w => v'[u] = v[u],
         phase' = phase, terminated' = terminated,
         \A u \in Waiters : u # w => held'[u] = held[u] /\ asleep'[u] = asleep[u],
         \A n \in Nodes : n # v[w].node /\ node[n].live => node'[n].waiter = node[n].waiter,
         \A u \in Threads : Hand(u)' = Hand(u),
         \A i \in 0 .. 1 : /\ Stack(i) \subseteq Stack(i)'
                           /\ Stack(i)' \subseteq Stack(i) \cup {v[w].node}
  PROVE  /\ \A u \in Waiters : u # w => Sleeper(u)'
         /\ \A i \in 0 .. 1 : v'[w].node = v[w].node /\ Reached(w, i) => Reached(w, i)'
<1>0. w \in Threads /\ Stage(w)
  BY DEF Threads, Shape
<1>1. /\ Hand(w) = {} /\ \A x : ~Waking(w, x)
      /\ \A i : ~Comes(w, i)
  <2>1. Rest(w) = Null /\ Own(w) = {} /\ Then(w) = Null
    BY <1>0, Away DEF WaitLabels
  <2>2. Hand(w) = {}
    BY <2>1, Ends, Unfold
  <2>3. QED BY <2>2 DEF Waking, Comes, WaitLabels, Releasing
<1>2. ASSUME NEW u \in Waiters, u # w
      PROVE  Sleeper(u)'
  <2>1. u \in Threads /\ v'[u] = v[u] /\ asleep'[u] = asleep[u] /\ held'[u] = held[u]
        /\ Sleeper(u) /\ (Blocking(u)' => Blocking(u)) /\ (Changed(u)' <=> Changed(u))
    BY <1>2 DEF Threads, Blocking, Changed
  <2>2. v[u].pc \in {"push", "flag", "recheck"} \/ asleep[u] => v[u].node # v[w].node
    BY <1>2, <2>1, SleeperNode DEF Shape, Owner, Distinct
  <2>3. v'[u].pc \in {"push", "flag", "recheck"} \/ asleep'[u] => node'[v'[u].node].waiter = u
    BY <2>1, <2>2, SleeperNode
  <2>4. ASSUME NEW i \in 0 .. 1, i = get_queue(v[u].in), Blocking(u)'
        PROVE  Reached(u, i)'
    <3>1. Reached(u, i) /\ Blocking(u)
      BY <2>1, <2>4 DEF Sleeper
    <3>2. CASE v[u].node \in Stack(i)
      BY <2>1, <3>2 DEF Reached
    <3>3. ASSUME NEW x \in Threads, Waking(x, u) \/ (v[u].node \in Hand(x) /\ v[x].q = i)
          PROVE  Reached(u, i)'
      <4>1. x # w /\ v'[x] = v[x]
        BY <1>1, <3>3
      <4>2. QED BY <2>1, <3>3, <4>1 DEF Reached, Waking
    <3>4. QED BY <3>1, <3>2, <3>3 DEF Reached
  <2>5. ASSUME NEW i \in 0 .. 1, i = get_queue(v[u].in),
               asleep'[u], Changed(u)', v[u].node \in Stack(i)'
        PROVE  \E x \in Threads : Comes(x, i)'
    <3>1. v[u].node \in Stack(i)
      BY <2>1, <2>2, <2>5
    <3>2. PICK x \in Threads : Comes(x, i)
      BY <2>1, <2>5, <3>1 DEF Sleeper
    <3>3. x # w /\ v'[x] = v[x]
      BY <1>1, <3>2
    <3>4. QED BY <3>2, <3>3 DEF Comes
  <2>6. QED BY <2>1, <2>3, <2>4, <2>5 DEF Sleeper
<1>3. ASSUME NEW i \in 0 .. 1, v'[w].node = v[w].node, Reached(w, i)
      PROVE  Reached(w, i)'
  <2>1. CASE v[w].node \in Stack(i)
    BY <1>3, <2>1 DEF Reached
  <2>2. ASSUME NEW x \in Threads, Waking(x, w) \/ (v[w].node \in Hand(x) /\ v[x].q = i)
        PROVE  Reached(w, i)'
    <3>1. x # w /\ v'[x] = v[x]
      BY <1>1, <2>2
    <3>2. QED BY <1>3, <2>2, <3>1 DEF Reached, Waking
  <2>3. QED BY <1>3, <2>1, <2>2 DEF Reached
<1>4. QED BY <1>2, <1>3

\* A step that takes nothing in hand and leaves the heads and the successors
\* of what is linked alone.
LEMMA StillHands ==
  ASSUME TypeInv, Shape, Distinct, NEW t \in Threads, policy' = policy, qhead' = qhead,
         \A u \in Threads : u # t => v'[u] = v[u], Stage(t)',
         v[t].pc \notin {"next", "clear", "waiter", "unpark", "wake"},
         v'[t].pc \notin {"next", "clear", "waiter", "unpark", "wake"},
         \A n \in Linked : node'[n].next = node[n].next
  PROVE  /\ \A u \in Threads : Hand(u)' = Hand(u)
         /\ \A i \in 0 .. 1 : Stack(i)' = Stack(i)
<1>1. \A u \in Threads : u # t => Rest(u)' = Rest(u) /\ Then(u)' = Then(u) /\ Own(u)' = Own(u)
  BY StageOthers
<1>2. Rest(t) = Null /\ Then(t) = Null /\ Own(t) = {}
  BY Away DEF Shape
<1>3. Rest(t)' = Null /\ Then(t)' = Null /\ Own(t)' = {}
  BY AwayAfter
<1>4. \A m \in Linked : Succ'[m] = Succ[m]
  BY LinkedNodes DEF Shape, Succ
<1>5. /\ \A i \in 0 .. 1 : Stack(i)' = Stack(i)
      /\ \A u \in Threads : u # t => Hand(u)' = Hand(u)
      /\ Hand(t)' = Own(t)' \cup (Hand(t) \ Own(t))
  BY <1>1, <1>2, <1>3, <1>4, Still
<1>6. QED BY <1>2, <1>3, <1>5

(***************************************************************************)
(* The steps of release_waiters leave nobody asleep.                       *)
(***************************************************************************)

\* On its way through the even queue the advancer keeps in mind to come to
\* the odd one.
LEMMA OddComes ==
  ASSUME NEW t \in Threads, v[t].back = "odd",
         \/ v'[t].pc = v[t].back
         \/ v'[t].pc \in Releasing /\ v'[t].back = v[t].back
  PROVE  Comes(t, 1)'
  BY DEF Comes, Releasing

\* A step that moves no node, and turns away from empty stacks only.
LEMMA QuietCarried ==
  ASSUME TypeInv, Shape, Distinct, NEW t \in Threads,
         policy' = policy, qhead' = qhead, node' = node,
         \A u \in Threads : u # t => v'[u] = v[u], Stage(t)',
         Own(t) = {}, Own(t)' = {},
         \/ Rest(t)' = Rest(t) /\ Then(t)' = Then(t)
         \/ Rest(t)' = Then(t) /\ Then(t)' = Null /\ Rest(t) = Null,
         Rest(t)' # Null \/ Then(t)' # Null => v'[t].q = v[t].q,
         \A i \in 0 .. 1 : Comes(t, i) => Comes(t, i)' \/ Stack(i) = {}
  PROVE  Carried(t)
<1>1. \A u \in Threads : u # t => Rest(u)' = Rest(u) /\ Then(u)' = Then(u) /\ Own(u)' = Own(u)
  BY StageOthers
<1>2. Succ' = Succ
  BY DEF Succ
<1>3. /\ \A i \in 0 .. 1 : Stack(i)' = Stack(i)
      /\ \A u \in Threads : u # t => Hand(u)' = Hand(u)
      /\ Hand(t)' = Own(t)' \cup (Hand(t) \ Own(t))
  BY <1>1, <1>2, Still
<1>4. Hand(t)' = Hand(t)
  BY <1>3
<1>5. Hand(t)' # {} => v'[t].q = v[t].q
  BY Ends, Unfold
<1>6. QED BY <1>3, <1>4, <1>5 DEF Carried

\* Taking a stack in hand.
LEMMA TakenCarried ==
  ASSUME TypeInv, Shape, Distinct, NEW t \in Threads, NEW q \in 0 .. 1, NEW e \in {Null, Lock},
         q = v[t].q, policy' = policy, qhead' = [qhead EXCEPT ![q] = e], node' = node,
         \A u \in Threads : u # t => v'[u] = v[u], Stage(t)',
         Rest(t) = Null, Then(t) = Null, Own(t) = {},
         Rest(t)' = qhead[q], Then(t)' = Null, Own(t)' = {},
         Rest(t)' # Null => v'[t].q = q,
         \A i \in 0 .. 1 : i # q /\ Comes(t, i) => Comes(t, i)'
  PROVE  Carried(t)
<1>1. \A u \in Threads : u # t => Rest(u)' = Rest(u) /\ Then(u)' = Then(u) /\ Own(u)' = Own(u)
  BY StageOthers
<1>2. Succ' = Succ
  BY DEF Succ
<1>3. /\ Stack(q)' = {} /\ \A i \in 0 .. 1 : i # q => Stack(i)' = Stack(i)
      /\ \A u \in Threads : u # t => Hand(u)' = Hand(u)
      /\ Hand(t) = {} /\ Hand(t)' = Stack(q)
  BY <1>1, <1>2, Taken
<1>4. Stack(q) # {} => v'[t].q = q
  BY Ends, Unfold
<1>5. QED BY <1>3, <1>4 DEF Carried

\* release_waiters_single keeps it.
LEMMA SingleSleep ==
  ASSUME SInv, Distinct, NEW t \in Threads, release_waiters_single(t)
  PROVE  SInv'
<1> USE DEF park, past
<1>0. NInv /\ NInv' /\ TypeInv /\ ~broken /\ Shape /\ Stage(t) /\ \A w \in Waiters : Sleeper(w)
  BY SingleInv DEF SInv, NInv, release_waiters_single, At, Shape
<1>1. /\ v[t].pc = "release" /\ policy = "WAKING_THREAD" /\ policy' = policy
      /\ qhead' = [qhead EXCEPT ![v[t].q] = Null] /\ GoOn(t, qhead[v[t].q], "next")
      /\ node' = node /\ broken' = broken
  BY DEF release_waiters_single, At
<1>2. PICK q \in 0 .. 1 : q = v[t].q
  BY <1>0, Fields
<1>3. qhead[q] \in Nodes \cup {Null}
  BY <1>0, <1>1 DEF TypeInv, Shape, Locked
<1>4. /\ Stage(t)' /\ \A u \in Threads : u # t => v'[u] = v[u]
      /\ Own(t)' = {} /\ Then(t)' = Null /\ Rest(t)' = qhead[q]
      /\ qhead[q] = Null => v'[t].pc = v[t].back
      /\ qhead[q] # Null => v'[t].pc = "next" /\ v'[t].q = q /\ v'[t].back = v[t].back
  BY <1>0, <1>1, <1>2, <1>3, GoOnStage DEF Releasing
<1>5. Rest(t) = Null /\ Then(t) = Null /\ Own(t) = {}
  BY <1>0, <1>1, Away
<1>6. \A i \in 0 .. 1 : i # q /\ Comes(t, i) => Comes(t, i)'
  <2>1. ASSUME NEW i \in 0 .. 1, i # q, Comes(t, i)
        PROVE  i = 1 /\ v[t].back = "odd"
    BY <1>1, <1>2, <2>1 DEF Comes
  <2>2. QED BY <1>4, <2>1, OddComes DEF Releasing
<1>7. Carried(t)
  BY <1>0, <1>1, <1>2, <1>4, <1>5, <1>6, TakenCarried
<1>8. v[t].back \notin {"head", "test", "push", "flag", "recheck"}
  BY <1>0, Fields
<1>9. \A w \in Waiters : Sleeper(w)'
  BY <1>0, <1>1, <1>4, <1>7, <1>8, ReleaseFrame DEF Waking, Releasing, release_waiters_single
<1>10. QED BY <1>0, <1>9 DEF SInv

\* release_waiters_cooperative keeps it.
LEMMA CooperativeSleep ==
  ASSUME SInv, Distinct, NEW t \in Threads, release_waiters_cooperative(t)
  PROVE  SInv'
<1> USE DEF park, past
<1>0. NInv /\ NInv' /\ TypeInv /\ ~broken /\ Shape /\ Stage(t) /\ \A w \in Waiters : Sleeper(w)
  BY CooperativeInv DEF SInv, NInv, release_waiters_cooperative, At, Shape
<1>1. /\ v[t].pc = "release" /\ policy = "COOPERATIVE" /\ policy' = policy
      /\ GoOn(t, qhead[v[t].q], "pop") /\ qhead[v[t].q] # Lock
      /\ qhead' = qhead /\ node' = node /\ broken' = broken
  BY DEF release_waiters_cooperative, At
<1>2. PICK q \in 0 .. 1 : q = v[t].q
  BY <1>0, Fields
<1>3. qhead[q] \in Nodes \cup {Null}
  BY <1>0, <1>1, <1>2 DEF TypeInv
<1>4. /\ Stage(t)' /\ \A u \in Threads : u # t => v'[u] = v[u]
      /\ Own(t)' = {} /\ Then(t)' = Null /\ Rest(t)' = Null
      /\ qhead[q] = Null => v'[t].pc = v[t].back
      /\ qhead[q] # Null => v'[t].pc = "pop" /\ v'[t].q = q /\ v'[t].back = v[t].back
  BY <1>0, <1>1, <1>2, <1>3, GoOnStage DEF Releasing
<1>5. Rest(t) = Null /\ Then(t) = Null /\ Own(t) = {}
  BY <1>0, <1>1, Away
<1>6. \A i \in 0 .. 1 : Comes(t, i) => Comes(t, i)' \/ Stack(i) = {}
  <2>1. ASSUME NEW i \in 0 .. 1, Comes(t, i)
        PROVE  i = q \/ (i = 1 /\ v[t].back = "odd")
    BY <1>1, <1>2, <2>1 DEF Comes
  <2>2. CASE qhead[q] = Null
    BY <1>4, <2>1, <2>2, OddComes, Ends, Unfold
  <2>3. CASE qhead[q] # Null
    <3>1. Comes(t, q)'
      BY <1>4, <2>3 DEF Comes
    <3>2. QED BY <1>4, <2>1, <2>3, <3>1, OddComes DEF Releasing
  <2>4. QED BY <2>2, <2>3
<1>7. Carried(t)
  BY <1>0, <1>1, <1>4, <1>5, <1>6, QuietCarried
<1>8. v[t].back \notin {"head", "test", "push", "flag", "recheck"}
  BY <1>0, Fields
<1>9. \A w \in Waiters : Sleeper(w)'
  BY <1>0, <1>1, <1>4, <1>7, <1>8, ReleaseFrame DEF Waking, Releasing, release_waiters_cooperative
<1>10. QED BY <1>0, <1>9 DEF SInv

\* LockHead keeps it.
LEMMA LockHeadSleep ==
  ASSUME SInv, Distinct, NEW t \in Threads, LockHead(t)
  PROVE  SInv'
<1> USE DEF park, past
<1>0. NInv /\ NInv' /\ TypeInv /\ ~broken /\ Shape /\ Stage(t) /\ \A w \in Waiters : Sleeper(w)
  BY LockHeadInv DEF SInv, NInv, LockHead, At, Shape
<1>1. /\ v[t].pc = "pop" /\ policy = "COOPERATIVE" /\ policy' = policy
      /\ node' = node /\ broken' = broken
  BY <1>0 DEF LockHead, At, Stage
<1>2. PICK q \in 0 .. 1 : q = v[t].q
  BY <1>0, Fields
<1>3. Rest(t) = Null /\ Then(t) = Null /\ Own(t) = {}
  BY <1>0, <1>1, Away
<1>4. PICK label \in {"next", "release"} :
        /\ Goto(t, label)
        /\ label = "next" => qhead[q] = v[t].p /\ qhead' = [qhead EXCEPT ![q] = Lock]
        /\ label = "release" => qhead' = qhead
  BY <1>2 DEF LockHead
<1>5. Locals(t, label, v[t].in, v[t].kind, v[t].node, v[t].p, q, v[t].next, v[t].who, v[t].back)
  BY <1>0, <1>2, <1>4, GotoLocals DEF Labels, Releasing
<1>6. Stage(t)' /\ \A u \in Threads : u # t => v'[u] = v[u]
  BY <1>0, <1>1, <1>5 DEF Locals, NInv, Shape, SInv
<1>7. \A i \in 0 .. 1 : Comes(t, i) => Comes(t, i)' \/ (i = q /\ label = "next")
  <2>1. ASSUME NEW i \in 0 .. 1, Comes(t, i)
        PROVE  i = q \/ (i = 1 /\ v[t].back = "odd")
    BY <1>1, <1>2, <2>1 DEF Comes
  <2>2. label = "release" => Comes(t, q)'
    BY <1>5 DEF Locals, Comes
  <2>3. v[t].back = "odd" => Comes(t, 1)'
    BY <1>5, OddComes DEF Locals, Releasing
  <2>4. QED BY <2>1, <2>2, <2>3
<1>8. Carried(t)
  <2>1. CASE label = "next"
    <3>1. Rest(t)' = qhead[q] /\ Then(t)' = Null /\ Own(t)' = {} /\ v'[t].q = q
      BY <1>1, <1>3, <1>4, <1>5, <2>1 DEF Locals, Rest, Then, Own
    <3>2. QED BY <1>0, <1>1, <1>2, <1>3, <1>4, <1>6, <1>7, <2>1, <3>1, TakenCarried
  <2>2. CASE label = "release"
    <3>1. Rest(t)' = Null /\ Then(t)' = Null /\ Own(t)' = {} /\ v'[t].q = v[t].q
      BY <1>1, <1>2, <1>3, <1>5, <1>6, <2>2, AwayAfter DEF Locals
    <3>2. QED BY <1>0, <1>1, <1>3, <1>4, <1>6, <1>7, <2>2, <3>1, QuietCarried
  <2>3. QED BY <2>1, <2>2
<1>9. \A w \in Waiters : Sleeper(w)'
  BY <1>0, <1>1, <1>5, <1>6, <1>8, ReleaseFrame DEF Waking, Releasing, LockHead, Locals
<1>10. QED BY <1>0, <1>9 DEF SInv

\* Nothing is claimed of what follows an access that goes wrong.
LEMMA BrokenSleep ==
  ASSUME NInv', broken'
  PROVE  SInv'
  BY DEF SInv

\* ReadNext keeps it.
LEMMA ReadNextSleep ==
  ASSUME SInv, Distinct, NEW t \in Threads, ReadNext(t)
  PROVE  SInv'
<1> USE DEF park, past
<1>0. NInv /\ NInv' /\ TypeInv /\ ~broken /\ Shape /\ Stage(t) /\ \A w \in Waiters : Sleeper(w)
  BY ReadNextInv DEF SInv, NInv, ReadNext, At, Shape
<1>p. PICK p \in Nodes \cup {Null, Lock} : p = v[t].p
  BY <1>0, Fields
<1>q. PICK q \in 0 .. 1 : q = v[t].q
  BY <1>0, Fields
<1>1. /\ v[t].pc = "next" /\ policy' = policy /\ p \in Nodes
      /\ node' = node /\ v[t].next = Null
  BY <1>0, <1>p DEF ReadNext, At, Stage, Releasing
<1>2. Rest(t) = p /\ Then(t) = Null /\ Own(t) = {}
  BY <1>1, <1>p DEF Rest, Then, Own
<1>3. CASE ~node[p].live
  BY <1>0, <1>3, <1>p, BrokenSleep DEF ReadNext, Break
<1>4. CASE node[p].live
  <2>1. /\ v' = [v EXCEPT ![t].next = node[p].next, ![t].pc = "clear"] /\ broken' = broken
        /\ qhead' = IF policy = "COOPERATIVE" THEN [qhead EXCEPT ![q] = node[p].next] ELSE qhead
    BY <1>4, <1>p, <1>q DEF ReadNext, Same
  <2>2. node[p].next \in Nodes \cup {Null} /\ Succ[p] = node[p].next /\ Succ' = Succ
    BY <1>0, <1>1, NodeFields DEF Succ
  <2>3. Locals(t, "clear", v[t].in, v[t].kind, v[t].node, p, q, node[p].next, v[t].who, v[t].back)
    BY <1>0, <1>p, <1>q, <2>1, <2>2, NextLocals
  <2>4. Stage(t)' /\ \A u \in Threads : u # t => v'[u] = v[u]
    BY <1>0, <2>1, <2>3 DEF Locals, NInv, Shape
  <2>5. /\ v'[t].pc = "clear" /\ v'[t].q = q /\ v'[t].next = Succ[p] /\ v'[t].back = v[t].back
    BY <2>2, <2>3 DEF Locals
  <2>6. Rest(t)' = Null /\ Own(t)' = {p}
        /\ Then(t)' = IF policy = "WAKING_THREAD" THEN Succ[p] ELSE Null
    BY <1>1, <2>2, <2>3 DEF Locals, Rest, Then, Own
  <2>7. \A u \in Threads : u # t => Rest(u)' = Rest(u) /\ Then(u)' = Then(u) /\ Own(u)' = Own(u)
    BY <1>0, <1>1, <2>4, StageOthers
  <2>8. \A i \in 0 .. 1 : Comes(t, i) => Comes(t, i)'
    <3>1. ASSUME NEW i \in 0 .. 1, Comes(t, i)
          PROVE  i = 1 /\ v[t].back = "odd"
      BY <1>1, <3>1 DEF Comes
    <3>2. QED BY <2>5, <3>1, OddComes DEF Releasing
  <2>9. CASE policy = "COOPERATIVE"
    <3>1. qhead[q] = Lock
      BY <1>0, <1>1, <1>q, <2>9 DEF Shape, Locked
    <3>2. /\ qhead'[q] = Succ[p] /\ Then(t)' = Null
          /\ \A i \in 0 .. 1 : i # q => qhead'[i] = qhead[i]
      BY <1>0, <2>1, <2>2, <2>6, <2>9 DEF TypeInv
    <3>3. /\ \A i \in 0 .. 1 : i # q => Stack(i)' = Stack(i)
          /\ \A u \in Threads : u # t => Hand(u)' = Hand(u)
          /\ Hand(t)' = {p} /\ Stack(q) = {} /\ Stack(q)' = Hand(t) \ {p} /\ p \in Hand(t)
      BY <1>0, <1>1, <1>2, <2>2, <2>6, <2>7, <3>1, <3>2, Split
    <3>4. Stack(q)' # {} => Comes(t, q)'
      <4>1. Stack(q)' # {} => Succ[p] # Null
        BY <2>2, <3>2, Ends, Unfold
      <4>2. QED BY <1>1, <2>5, <2>9, <4>1 DEF Comes
    <3>5. Carried(t)
      BY <1>q, <2>5, <2>8, <3>3, <3>4 DEF Carried
    <3>6. \A w \in Waiters : Sleeper(w)'
      BY <1>0, <1>1, <2>4, <2>5, <3>5, ReleaseFrame DEF Waking, Releasing, ReadNext
    <3>7. QED BY <1>0, <3>6 DEF SInv
  <2>10. CASE policy = "WAKING_THREAD"
    <3>1. qhead' = qhead
      BY <2>1, <2>10
    <3>2. /\ \A i \in 0 .. 1 : Stack(i)' = Stack(i)
          /\ \A u \in Threads : Hand(u)' = Hand(u)
      BY <1>0, <1>1, <1>2, <2>2, <2>6, <2>7, <2>10, <3>1, Read
    <3>3. Carried(t)
      BY <1>q, <2>5, <2>8, <3>2 DEF Carried
    <3>4. \A w \in Waiters : Sleeper(w)'
      BY <1>0, <1>1, <2>4, <2>5, <3>3, ReleaseFrame DEF Waking, Releasing, ReadNext
    <3>5. QED BY <1>0, <3>4 DEF SInv
  <2>11. QED BY <1>0, <2>9, <2>10 DEF TypeInv
<1>5. QED BY <1>3, <1>4

\* Going on with the successor, a thread comes to the queues it was to come to.
LEMMA AdvanceComes ==
  ASSUME NEW t \in Threads, v[t].pc \in {"clear", "waiter", "wake"}, policy' = policy,
         v[t].next = Null => v'[t].pc = v[t].back,
         v[t].next # Null =>
           /\ v'[t].pc = (IF policy = "COOPERATIVE" THEN "pop" ELSE "next")
           /\ v'[t].q = v[t].q /\ v'[t].back = v[t].back
  PROVE  \A i \in 0 .. 1 : Comes(t, i) => Comes(t, i)'
<1>1. ASSUME NEW i \in 0 .. 1, Comes(t, i)
      PROVE  \/ i = 1 /\ v[t].back = "odd"
             \/ policy = "COOPERATIVE" /\ v[t].q = i /\ v[t].next # Null
  BY <1>1 DEF Comes
<1>2. v[t].back = "odd" => Comes(t, 1)'
  BY OddComes DEF Releasing
<1>3. ASSUME NEW i \in 0 .. 1, policy = "COOPERATIVE", v[t].q = i, v[t].next # Null
      PROVE  Comes(t, i)'
  BY <1>3 DEF Comes
<1>4. QED BY <1>1, <1>2, <1>3

\* queue_release keeps it.
LEMMA QueueReleaseSleep ==
  ASSUME SInv, Distinct, NEW t \in Threads, queue_release(t)
  PROVE  SInv'
<1> USE DEF park, past
<1>0. NInv /\ NInv' /\ TypeInv /\ ~broken /\ Shape /\ Stage(t) /\ \A w \in Waiters : Sleeper(w)
  BY QueueReleaseInv DEF SInv, NInv, queue_release, At, Shape
<1>n. PICK n \in Nodes : n = v[t].p
  BY <1>0 DEF queue_release, At, Stage, Releasing
<1>q. PICK q \in 0 .. 1 : q = v[t].q
  BY <1>0, Fields
<1>1. /\ v[t].pc = "clear" /\ policy' = policy /\ qhead' = qhead /\ late' = late
      /\ Own(t) = {n} /\ Rest(t) = Null
  BY <1>n DEF queue_release, At, Own, Rest
<1>2. CASE ~node[n].live
  BY <1>0, <1>2, <1>n, BrokenSleep DEF queue_release, Break
<1>3. CASE node[n].live /\ node[n].in_use
  <2>1. /\ node' = [node EXCEPT ![n] = [node[n] EXCEPT !.queued = FALSE]]
        /\ Goto(t, "waiter") /\ broken' = broken
    BY <1>3, <1>n DEF queue_release, Same
  <2>2. NodeIs(n, node[n].live, node[n].in_use, FALSE, node[n].next, node[n].waiter)
    BY <1>0, <2>1, NodeUnqueued
  <2>3. Locals(t, "waiter", v[t].in, v[t].kind, v[t].node, n, q, v[t].next,
               v[t].who, v[t].back)
    BY <1>0, <1>n, <1>q, <2>1, GotoLocals DEF Labels, Releasing
  <2>4. Stage(t)' /\ \A u \in Threads : u # t => v'[u] = v[u]
    BY <1>0, <2>1, <2>3 DEF Locals, NInv, Shape
  <2>5. Own(t)' = {} /\ Rest(t)' = Rest(t) /\ Then(t)' = Then(t) /\ v'[t].pc # "next"
    BY <1>1, <2>3 DEF Locals, Own, Rest, Then
  <2>6. /\ \A i \in 0 .. 1 : Stack(i)' = Stack(i)
        /\ \A u \in Threads : u # t => Hand(u)' = Hand(u)
        /\ Hand(t)' = Hand(t) \ {n}
    BY <1>0, <1>1, <1>3, <2>2, <2>3, <2>4, <2>5, LetGo DEF Locals
  <2>7. \A i \in 0 .. 1 : Comes(t, i) => Comes(t, i)'
    BY <1>1, <1>q, <2>3 DEF Locals, Comes, Releasing
  <2>8. Carried(t)
    BY <1>q, <2>3, <2>6, <2>7 DEF Locals, Carried
  <2>9. \A w \in Waiters : Sleeper(w)'
    BY <1>0, <1>1, <2>2, <2>3, <2>4, <2>8, ReleaseFrame
       DEF Locals, NodeIs, Waking, Releasing, queue_release
  <2>10. QED BY <1>0, <2>9 DEF SInv
<1>4. CASE node[n].live /\ ~node[n].in_use
  <2>1. /\ node' = [node EXCEPT ![n] = Free] /\ Advance(t, v[t].next) /\ broken' = broken
    BY <1>4, <1>n DEF queue_release, Same
  <2>2. NodeIs(n, FALSE, FALSE, FALSE, Null, Null)
    BY <1>0, <2>1, NodeFreed
  <2>3. /\ Stage(t)' /\ v' \in [Threads -> LocalType]
        /\ \A u \in Threads : u # t => v'[u] = v[u]
        /\ v'[t].node = v[t].node /\ Own(t)' = {}
        /\ policy = "COOPERATIVE" => v'[t].pc # "next"
        /\ \/ Rest(t)' = Rest(t) /\ Then(t)' = Then(t)
           \/ Rest(t)' = Then(t) /\ Then(t)' = Null /\ Rest(t) = Null
        /\ v[t].next = Null => v'[t].pc = v[t].back
        /\ v[t].next # Null =>
             /\ v'[t].pc = (IF policy = "COOPERATIVE" THEN "pop" ELSE "next")
             /\ v'[t].p = v[t].next /\ v'[t].q = v[t].q /\ v'[t].back = v[t].back
    BY <1>0, <1>1, <2>1, AdvanceStage
  <2>4. /\ \A i \in 0 .. 1 : Stack(i)' = Stack(i)
        /\ \A u \in Threads : u # t => Hand(u)' = Hand(u)
        /\ Hand(t)' = Hand(t) \ {n}
    BY <1>0, <1>1, <1>4, <2>2, <2>3, LetGo
  <2>5. \A i \in 0 .. 1 : Comes(t, i) => Comes(t, i)'
    BY <1>1, <2>3, AdvanceComes
  <2>6. Hand(t)' # {} => v'[t].q = q
    <3>1. v[t].next = Null => Rest(t)' = Null /\ Then(t)' = Null
      BY <1>1, <2>3 DEF Then
    <3>2. QED BY <1>q, <2>3, <3>1, Ends, Unfold
  <2>7. Carried(t)
    BY <1>4, <1>q, <2>4, <2>5, <2>6 DEF Carried
  <2>8. v[t].back \notin {"head", "test", "push", "flag", "recheck"}
    BY <1>0, Fields
  <2>9. \A w \in Waiters : Sleeper(w)'
    <3>1. v'[t].pc \notin {"head", "test", "push", "flag", "recheck"}
      BY <2>3, <2>8
    <3>2. \A m \in Nodes : node[m].in_use => node'[m].waiter = node[m].waiter
      BY <1>4, <2>2 DEF NodeIs
    <3>3. QED
      BY <1>0, <1>1, <2>3, <2>7, <3>1, <3>2, ReleaseFrame DEF Waking, Releasing, queue_release
  <2>10. QED BY <1>0, <2>9 DEF SInv
<1>5. QED BY <1>2, <1>3, <1>4

\* TestWaiter keeps it.
LEMMA TestWaiterSleep ==
  ASSUME SInv, Distinct, NEW t \in Threads, TestWaiter(t)
  PROVE  SInv'
<1> USE DEF park, past
<1>0. NInv /\ NInv' /\ TypeInv /\ ~broken /\ Shape /\ Stage(t) /\ \A w \in Waiters : Sleeper(w)
  BY TestWaiterInv DEF SInv, NInv, TestWaiter, At, Shape
<1>n. PICK n \in Nodes : n = v[t].p
  BY <1>0 DEF TestWaiter, At, Stage, Releasing
<1>1. /\ v[t].pc = "waiter" /\ policy' = policy /\ qhead' = qhead /\ node' = node
      /\ Own(t) = {} /\ Rest(t) = Null
  BY DEF TestWaiter, At, Own, Rest
<1>2. CASE Break(t)
  BY <1>0, <1>2, BrokenSleep DEF Break
<1>3. CASE node[n].waiter = Null /\ Advance(t, v[t].next) /\ broken' = broken
  <2>1. /\ Stage(t)'
        /\ \A u \in Threads : u # t => v'[u] = v[u]
        /\ Own(t)' = {}
        /\ \/ Rest(t)' = Rest(t) /\ Then(t)' = Then(t)
           \/ Rest(t)' = Then(t) /\ Then(t)' = Null /\ Rest(t) = Null
        /\ v[t].next = Null => v'[t].pc = v[t].back
        /\ v[t].next # Null =>
             /\ v'[t].pc = (IF policy = "COOPERATIVE" THEN "pop" ELSE "next")
             /\ v'[t].p = v[t].next /\ v'[t].q = v[t].q /\ v'[t].back = v[t].back
    BY <1>0, <1>1, <1>3, AdvanceStage
  <2>2. \A i \in 0 .. 1 : Comes(t, i) => Comes(t, i)'
    BY <1>1, <2>1, AdvanceComes
  <2>3. v[t].next = Null => Rest(t)' = Null /\ Then(t)' = Null
    BY <1>1, <2>1 DEF Then
  <2>4. Carried(t)
    BY <1>0, <1>1, <2>1, <2>2, <2>3, QuietCarried
  <2>5. v'[t].pc \notin {"head", "test", "push", "flag", "recheck"}
    BY <1>0, <2>1, Fields
  <2>6. \A w \in Waiters : node[v[w].node].waiter = w => ~Waking(t, w)
    BY <1>1, <1>3, <1>n DEF Waking, Distinct
  <2>7. \A w \in Waiters : Sleeper(w)'
    BY <1>0, <1>1, <2>1, <2>4, <2>5, <2>6, ReleaseFrame DEF Releasing, TestWaiter
  <2>8. QED BY <1>0, <2>7 DEF SInv
<1>4. CASE Goto(t, "unpark") /\ broken' = broken
  <2>1. Locals(t, "unpark", v[t].in, v[t].kind, v[t].node, v[t].p, v[t].q, v[t].next,
               v[t].who, v[t].back)
    BY <1>0, <1>4, GotoLocals DEF Labels, Releasing
  <2>2. Stage(t)' /\ \A u \in Threads : u # t => v'[u] = v[u]
    BY <1>0, <1>4, <2>1 DEF Locals, NInv, Shape
  <2>3. Own(t)' = {} /\ Rest(t)' = Rest(t) /\ Then(t)' = Then(t) /\ v'[t].q = v[t].q
    BY <1>1, <2>1 DEF Locals, Own, Rest, Then
  <2>4. \A i \in 0 .. 1 : Comes(t, i) => Comes(t, i)'
    BY <1>1, <2>1 DEF Locals, Comes, Releasing
  <2>5. Carried(t)
    BY <1>0, <1>1, <2>2, <2>3, <2>4, QuietCarried
  <2>6. \A w \in Waiters : w # t /\ Waking(t, w) => Waking(t, w)'
    BY <1>1, <2>1, <2>2 DEF Locals, Waking, Threads
  <2>7. \A w \in Waiters : Sleeper(w)'
    BY <1>0, <1>1, <2>1, <2>2, <2>5, <2>6, ReleaseFrame DEF Locals, Releasing, TestWaiter
  <2>8. QED BY <1>0, <2>7 DEF SInv
<1>5. QED BY <1>2, <1>3, <1>4, <1>n DEF TestWaiter, Same

\* ReadWaiter keeps it.
LEMMA ReadWaiterSleep ==
  ASSUME SInv, Distinct, NEW t \in Threads, ReadWaiter(t)
  PROVE  SInv'
<1> USE DEF park, past
<1>0. NInv /\ NInv' /\ TypeInv /\ ~broken /\ Shape /\ Stage(t) /\ \A w \in Waiters : Sleeper(w)
  BY ReadWaiterInv DEF SInv, NInv, ReadWaiter, At, Shape
<1>n. PICK n \in Nodes : n = v[t].p
  BY <1>0 DEF ReadWaiter, At, Stage, Releasing
<1>1. /\ v[t].pc = "unpark" /\ policy' = policy /\ qhead' = qhead /\ node' = node
      /\ Own(t) = {} /\ Rest(t) = Null
  BY DEF ReadWaiter, At, Own, Rest
<1>2. CASE node[n].waiter = Null
  BY <1>0, <1>2, <1>n, BrokenSleep DEF ReadWaiter, Break
<1>3. CASE node[n].waiter # Null
  <2>1. v' = [v EXCEPT ![t].who = node[n].waiter, ![t].pc = "wake"] /\ broken' = broken
    BY <1>3, <1>n DEF ReadWaiter, Same
  <2>2. node[n].waiter \in Waiters
    BY <1>0, <1>3, NodeFields
  <2>3. Locals(t, "wake", v[t].in, v[t].kind, v[t].node, v[t].p, v[t].q, v[t].next,
               node[n].waiter, v[t].back)
    BY <1>0, <2>1, <2>2, WhoLocals
  <2>4. Stage(t)' /\ \A u \in Threads : u # t => v'[u] = v[u]
    BY <1>0, <2>1, <2>3 DEF Locals, NInv, Shape
  <2>5. Own(t)' = {} /\ Rest(t)' = Rest(t) /\ Then(t)' = Then(t) /\ v'[t].q = v[t].q
    BY <1>1, <2>3 DEF Locals, Own, Rest, Then
  <2>6. \A i \in 0 .. 1 : Comes(t, i) => Comes(t, i)'
    BY <1>1, <2>3 DEF Locals, Comes, Releasing
  <2>7. Carried(t)
    BY <1>0, <1>1, <2>4, <2>5, <2>6, QuietCarried
  <2>8. \A w \in Waiters : Waking(t, w) /\ node[v[w].node].waiter = w => Waking(t, w)'
    BY <1>1, <1>n, <2>3 DEF Locals, Waking
  <2>9. \A w \in Waiters : Sleeper(w)'
    BY <1>0, <1>1, <2>3, <2>4, <2>7, <2>8, ReleaseFrame DEF Locals, Releasing, ReadWaiter
  <2>10. QED BY <1>0, <2>9 DEF SInv
<1>4. QED BY <1>2, <1>3

\* unpark keeps it.
LEMMA UnparkSleep ==
  ASSUME SInv, Distinct, NEW t \in Threads, unpark(t)
  PROVE  SInv'
<1> USE DEF park, past
<1>0. NInv /\ NInv' /\ TypeInv /\ ~broken /\ Shape /\ Stage(t) /\ \A w \in Waiters : Sleeper(w)
  BY UnparkInv DEF SInv, NInv, unpark, At, Shape
<1>x. PICK x \in Waiters : x = v[t].who
  BY <1>0 DEF unpark, At, Stage
<1>1. /\ v[t].pc = "wake" /\ policy' = policy /\ qhead' = qhead /\ node' = node
      /\ Own(t) = {} /\ Rest(t) = Null /\ broken' = broken
      /\ ~held[x] /\ asleep' = [asleep EXCEPT ![x] = FALSE]
  BY <1>x DEF unpark, At, Own, Rest
<1>2. /\ Stage(t)'
      /\ \A u \in Threads : u # t => v'[u] = v[u]
      /\ Own(t)' = {}
      /\ \/ Rest(t)' = Rest(t) /\ Then(t)' = Then(t)
         \/ Rest(t)' = Then(t) /\ Then(t)' = Null /\ Rest(t) = Null
      /\ v[t].next = Null => v'[t].pc = v[t].back
      /\ v[t].next # Null =>
           /\ v'[t].pc = (IF policy = "COOPERATIVE" THEN "pop" ELSE "next")
           /\ v'[t].p = v[t].next /\ v'[t].q = v[t].q /\ v'[t].back = v[t].back
  BY <1>0, <1>1, AdvanceStage DEF unpark
<1>3. \A i \in 0 .. 1 : Comes(t, i) => Comes(t, i)'
  BY <1>1, <1>2, AdvanceComes
<1>4. v[t].next = Null => Rest(t)' = Null /\ Then(t)' = Null
  BY <1>1, <1>2 DEF Then
<1>5. Carried(t)
  BY <1>0, <1>1, <1>2, <1>3, <1>4, QuietCarried
<1>6. v'[t].pc \notin {"head", "test", "push", "flag", "recheck"}
  BY <1>0, <1>2, Fields
<1>7. \A w \in Waiters : w # t /\ Waking(t, w) => ~Blocking(w)'
  <2>1. ASSUME NEW w \in Waiters, w # t, Waking(t, w)
        PROVE  ~Blocking(w)'
    <3>1. w = x /\ v'[w] = v[w] /\ ~asleep'[x]
      BY <1>0, <1>1, <1>2, <1>x, <2>1 DEF Waking, Threads, TypeInv
    <3>2. v[w].pc \notin {"flag", "recheck"}
      BY <1>0, <1>1, <3>1 DEF Sleeper
    <3>3. QED BY <3>1, <3>2 DEF Blocking
  <2>2. QED BY <2>1
<1>8. \A w \in Waiters : asleep'[w] => asleep[w]
  BY <1>0, <1>1 DEF TypeInv
<1>9. \A w \in Waiters : Sleeper(w)'
  BY <1>0, <1>1, <1>2, <1>5, <1>6, <1>7, <1>8, ReleaseFrame DEF Releasing, unpark
<1>10. QED BY <1>0, <1>9 DEF SInv

(***************************************************************************)
(* The steps of the advancer, and of a waiter outside of release_waiters.  *)
(***************************************************************************)

\* The advancer turns to the queue of the phase that is over.
LEMMA AdvancerSleep ==
  ASSUME SInv, Distinct, advance \/ force_termination \/ ReleaseOdd
  PROVE  SInv'
<1> USE DEF park, past
<1>0. /\ NInv /\ NInv' /\ TypeInv /\ ~broken /\ Shape /\ Stage(Advancer) /\ Advancer \in Threads
      /\ \A w \in Waiters : Sleeper(w)
  BY AdvancerInv DEF SInv, NInv, advance, force_termination, ReleaseOdd, At, Shape, Threads
<1>1. /\ policy' = policy /\ qhead' = qhead /\ node' = node /\ broken' = broken
      /\ held' = held /\ asleep' = asleep
      /\ v[Advancer].pc \in {"idle", "odd"}
  BY DEF advance, force_termination, ReleaseOdd, At
<1>2. PICK q \in 0 .. 1, back \in {"idle", "odd"} :
        /\ release_waiters(Advancer, q, back)
        /\ advance => q = get_queue(phase)
        /\ force_termination => back = "odd" /\ q = 0
        /\ ReleaseOdd => q = 1
  BY <1>0 DEF advance, force_termination, ReleaseOdd, get_queue, TypeInv, At
<1>3. Locals(Advancer, "release", v[Advancer].in, v[Advancer].kind, v[Advancer].node,
             v[Advancer].p, q, v[Advancer].next, v[Advancer].who, back)
  BY <1>0, <1>2, TurnLocals
<1>4. Stage(Advancer)' /\ \A u \in Threads : u # Advancer => v'[u] = v[u]
  BY <1>0, <1>1, <1>3 DEF Locals, NInv, Shape
<1>5. /\ \A u \in Threads : Hand(u)' = Hand(u)
      /\ \A i \in 0 .. 1 : Stack(i)' = Stack(i)
  BY <1>0, <1>1, <1>3, <1>4, StillHands DEF Locals
<1>6. Hand(Advancer) = {}
  BY <1>0, <1>1, Away, Ends, Unfold
<1>7. /\ Comes(Advancer, q)'
      /\ back = "odd" => Comes(Advancer, 1)'
  BY <1>3 DEF Locals, Comes, Releasing
<1>8. ASSUME NEW w \in Waiters
      PROVE  Sleeper(w)'
  <2>1. /\ w \in Threads /\ v'[w] = v[w] /\ asleep'[w] = asleep[w] /\ held'[w] = held[w]
        /\ Sleeper(w) /\ (Blocking(w)' <=> Blocking(w))
    BY <1>0, <1>1, <1>4 DEF Threads, Blocking, Distinct
  <2>2. ASSUME NEW i \in 0 .. 1, Reached(w, i)
        PROVE  Reached(w, i)'
    <3>1. CASE v[w].node \in Stack(i)
      BY <1>5, <2>1, <3>1 DEF Reached
    <3>2. ASSUME NEW u \in Threads, Waking(u, w) \/ (v[w].node \in Hand(u) /\ v[u].q = i)
          PROVE  Reached(w, i)'
      <4>1. u # Advancer
        BY <1>1, <1>6, <3>2 DEF Waking
      <4>2. QED BY <1>4, <1>5, <2>1, <3>2, <4>1 DEF Reached, Waking
    <3>3. QED BY <2>2, <3>1, <3>2 DEF Reached
  <2>3. ASSUME NEW i \in 0 .. 1, i = get_queue(v[w].in),
               asleep[w], Changed(w)', v[w].node \in Stack(i)
        PROVE  \E u \in Threads : Comes(u, i)'
    <3>1. CASE \E u \in Threads : Comes(u, i) /\ u # Advancer
      BY <1>1, <1>4, <3>1 DEF Comes
    <3>2. CASE Comes(Advancer, i)
      <4>1. ReleaseOdd /\ i = 1
        BY <1>1, <3>2 DEF Comes, Releasing, advance, force_termination, At
      <4>2. QED BY <1>0, <1>2, <1>7, <4>1
    <3>3. CASE ~Changed(w)
      <4>1. CASE advance
        <5>1. v[w].in = phase
          BY <3>3 DEF Changed
        <5>2. QED BY <1>0, <1>2, <1>7, <2>3, <4>1, <5>1
      <4>2. CASE force_termination
        <5>1. i = 0 \/ i = 1
          OBVIOUS
        <5>2. QED BY <1>0, <1>2, <1>7, <4>2, <5>1
      <4>3. CASE ReleaseOdd
        BY <2>1, <2>3, <3>3, <4>3 DEF ReleaseOdd, Changed
      <4>4. QED BY <4>1, <4>2, <4>3
    <3>4. Changed(w) => \E u \in Threads : Comes(u, i)
      BY <2>1, <2>3 DEF Sleeper
    <3>5. QED BY <3>1, <3>2, <3>3, <3>4
  <2>4. QED BY <1>1, <1>5, <2>1, <2>2, <2>3 DEF Sleeper
<1>9. QED BY <1>0, <1>8 DEF SInv

\* A parked thread's flags, set from outside.
LEMMA OutsideSleep ==
  ASSUME SInv, Distinct, NEW w \in Waiters, Spurious(w) \/ interrupt(w)
  PROVE  SInv'
<1> USE DEF park, past
<1>0. /\ NInv /\ NInv' /\ TypeInv /\ ~broken /\ Shape /\ \A u \in Waiters : Sleeper(u)
  BY OutsideInv DEF SInv, NInv, Spurious, interrupt, At
<1>1. /\ policy' = policy /\ qhead' = qhead /\ node' = node /\ broken' = broken /\ v' = v
      /\ held' = held /\ phase' = phase /\ terminated' = terminated
      /\ \A u \in Waiters : asleep'[u] => asleep[u]
  BY <1>0 DEF Spurious, interrupt, TypeInv
<1>2. Succ' = Succ
  BY <1>1 DEF Succ
<1>3. \A u : Rest(u)' = Rest(u) /\ Own(u)' = Own(u) /\ Then(u)' = Then(u)
  BY <1>1 DEF Rest, Own, Then
<1>4. \A u : Hand(u)' = Hand(u) /\ \A i : Stack(i)' = Stack(i)
  BY <1>1, <1>2, <1>3, Unfold
<1>5. ASSUME NEW u \in Waiters
      PROVE  Sleeper(u)'
  <2>1. Sleeper(u) /\ (Blocking(u)' => Blocking(u)) /\ (Changed(u)' <=> Changed(u))
    BY <1>0, <1>1 DEF Blocking, Changed
  <2>2. \A i \in 0 .. 1 : Reached(u, i) => Reached(u, i)'
    BY <1>1, <1>4 DEF Reached, Waking
  <2>3. \A i \in 0 .. 1 : \A t \in Threads : Comes(t, i) => Comes(t, i)'
    BY <1>1 DEF Comes
  <2>4. QED BY <1>1, <1>4, <2>1, <2>2, <2>3 DEF Sleeper
<1>6. QED BY <1>0, <1>5 DEF SInv

\* A step of a waiter that leaves it awake and outside of the callback.
LEMMA AwakeSleep ==
  ASSUME SInv, NInv', ~broken, ~broken', Distinct, NEW w \in Waiters,
         v[w].pc \in WaitLabels \cup {"idle"}, v[w].pc # "asleep" \/ ~asleep[w],
         v'[w].pc \notin {"head", "test", "push", "flag", "recheck", "asleep",
                          "next", "clear", "waiter", "unpark", "wake"},
         policy' = policy, qhead' = qhead, phase' = phase, terminated' = terminated,
         \A u \in Threads : u # w => v'[u] = v[u],
         \A u \in Waiters : u # w => held'[u] = held[u],
         asleep' = asleep,
         \A n \in Nodes : n # v[w].node /\ node[n].live => node'[n].waiter = node[n].waiter,
         \A n \in Linked : node'[n].next = node[n].next
  PROVE  SInv'
<1>0. /\ TypeInv /\ Shape /\ Stage(w)' /\ w \in Threads /\ Sleeper(w)
      /\ \A u \in Waiters : Sleeper(u)
  BY DEF SInv, NInv, Shape, Threads
<1>1. /\ \A u \in Threads : Hand(u)' = Hand(u)
      /\ \A i \in 0 .. 1 : Stack(i)' = Stack(i)
  BY <1>0, StillHands DEF WaitLabels
<1>2. \A u \in Waiters : u # w => Sleeper(u)'
  BY <1>0, <1>1, WaitFrame
<1>3. Sleeper(w)'
  BY <1>0, Awake DEF Sleeper
<1>4. QED BY <1>2, <1>3 DEF SInv

\* Steps that change no node.
LEMMA PlainSleep ==
  ASSUME SInv, Distinct, NEW w \in Waiters, 
         \/ WakeUp(w) \/ Last(w) \/ Return(w)
         \/ \E kind \in Kinds : await_advance(w, kind)
  PROVE  SInv'
<1> USE DEF park, past
<1>0. /\ NInv /\ NInv' /\ TypeInv /\ ~broken /\ w \in Threads /\ Sleeper(w)
  BY WakeUpInv, LastInv, ReturnInv, AwaitInv
     DEF SInv, NInv, WakeUp, Last, Return, await_advance, At, Threads
<1>1. /\ v[w].pc \in {"asleep", "last", "done", "idle"} /\ ~asleep[w]
      /\ policy' = policy /\ qhead' = qhead /\ phase' = phase /\ terminated' = terminated
      /\ broken' = broken /\ node' = node /\ asleep' = asleep
      /\ \A u \in Waiters : u # w => held'[u] = held[u]
  BY <1>0 DEF WakeUp, Last, Return, await_advance, At, Unparked, Sleeper, TypeInv
<1>2. /\ v'[w].pc \in {"again", "release", "done", "idle"}
      /\ \A u \in Threads : u # w => v'[u] = v[u]
  <2>1. CASE WakeUp(w)
    <3>1. Locals(w, "again", v[w].in, v[w].kind, v[w].node, Null, v[w].q, v[w].next, v[w].who,
                 v[w].back)
      BY <1>0, <2>1, EntryLocals DEF WakeUp, Unparked, Labels, WaitLabels
    <3>2. QED BY <3>1 DEF Locals
  <2>2. CASE Last(w)
    <3>1. get_queue(v[w].in) \in 0 .. 1
      BY <1>0, Fields DEF get_queue
    <3>2. CASE release_waiters(w, get_queue(v[w].in), "done")
      BY <1>0, <3>1, <3>2, TurnLocals DEF Locals
    <3>3. CASE Goto(w, "done")
      BY <1>0, <3>3, GotoLocals DEF Locals, Labels, WaitLabels
    <3>4. QED BY <2>2, <3>2, <3>3 DEF Last
  <2>3. CASE Return(w)
    BY <1>0, <2>3, LocalLocals DEF Locals, Return
  <2>4. ASSUME NEW kind \in Kinds, await_advance(w, kind)
        PROVE  /\ v'[w].pc \in {"again", "release", "done", "idle"}
               /\ \A u \in Threads : u # w => v'[u] = v[u]
    BY <1>0, <2>4, AwaitLocals DEF Locals
  <2>5. QED BY <2>1, <2>2, <2>3, <2>4
<1>3. QED BY <1>0, <1>1, <1>2, AwakeSleep DEF WaitLabels

\* Loop keeps it.
LEMMA LoopSleep ==
  ASSUME SInv, Distinct, NEW w \in Waiters, Loop(w)
  PROVE  SInv'
<1> USE DEF park, past
<1>0. /\ NInv /\ NInv' /\ TypeInv /\ ~broken /\ Shape /\ w \in Threads
  BY LoopInv DEF SInv, NInv, Loop, At, Threads
<1>1. /\ v[w].pc = "loop" /\ policy' = policy /\ qhead' = qhead /\ phase' = phase
      /\ terminated' = terminated /\ broken' = broken /\ asleep' = asleep /\ held' = held
  BY DEF Loop, At
<1>2. ASSUME NEW label \in {"last", "drop", "park"}, Goto(w, label), node' = node
      PROVE  SInv'
  <2>1. Locals(w, label, v[w].in, v[w].kind, v[w].node, v[w].p, v[w].q, v[w].next, v[w].who,
               v[w].back)
    BY <1>0, <1>2, GotoLocals DEF Labels, WaitLabels
  <2>2. QED BY <1>0, <1>1, <1>2, <2>1, AwakeSleep DEF Locals, WaitLabels
<1>3. ASSUME NEW n \in Nodes, ~node[n].live, v' = [v EXCEPT ![w].node = n],
             \A m \in Nodes : m # n => node'[m] = node[m]
      PROVE  SInv'
  <2>1. Locals(w, v[w].pc, v[w].in, v[w].kind, n, v[w].p, v[w].q, v[w].next, v[w].who, v[w].back)
    BY <1>0, <1>3, NodeLocals
  <2>2. n \notin Linked
    BY <1>0, <1>3 DEF Shape, Flags
  <2>3. \A m \in Linked : m \in Nodes
    BY <1>0, LinkedNodes DEF Shape
  <2>4. QED BY <1>0, <1>1, <1>3, <2>1, <2>2, <2>3, AwakeSleep DEF Locals, WaitLabels
<1>4. CASE \E n \in Nodes :
             /\ ~node[n].live
             /\ \A m \in Nodes : m # n => node'[m] = node[m]
             /\ v' = [v EXCEPT ![w].node = n]
  BY <1>3, <1>4
<1>5. QED BY <1>0, <1>2, <1>4 DEF Loop, TypeInv

\* The callback's handling of the own node.
LEMMA OwnNode ==
  ASSUME TypeInv, NEW n \in Nodes, NEW live, NEW in_use, NEW queued, NEW waiter,
         NodeIs(n, live, in_use, queued, node[n].next, waiter)
  PROVE  /\ \A m \in Nodes : m # n /\ node[m].live => node'[m].waiter = node[m].waiter
         /\ \A m \in Nodes : node'[m].next = node[m].next
  BY DEF NodeIs

\* Again and DropWaiter keep it.
LEMMA AgainSleep ==
  ASSUME SInv, Distinct, NEW w \in Waiters, Again(w) \/ DropWaiter(w)
  PROVE  SInv'
<1> USE DEF park, past
<1>0. /\ NInv /\ NInv' /\ TypeInv /\ ~broken /\ Shape /\ Stage(w) /\ w \in Threads /\ w # Advancer
  BY AgainInv, DropWaiterInv DEF SInv, NInv, Again, DropWaiter, At, Threads, Shape, Distinct
<1>1. /\ v[w].pc \in {"again", "drop"} /\ policy' = policy /\ qhead' = qhead /\ phase' = phase
      /\ terminated' = terminated /\ broken' = broken /\ asleep' = asleep /\ held' = held
  BY DEF Again, DropWaiter, At
<1>n. PICK n \in Nodes : n = v[w].node
  BY <1>0, <1>1, Fields DEF Stage
<1>2. /\ \E label \in {"drop", "loop", "free"} : Goto(w, label)
      /\ \/ NodeIs(n, node[n].live, node[n].in_use, node[n].queued, node[n].next, node[n].waiter)
         \/ NodeIs(n, node[n].live, node[n].in_use, node[n].queued, node[n].next, Null)
  <2>1. CASE Again(w)
    <3>1. (LooksOver(w) /\ Goto(w, "drop")) \/ (LooksOn(w) /\ Goto(w, "loop"))
      BY <1>0, <1>n, <2>1, Releasable DEF Again
    <3>2. QED BY <1>0, <1>n, <3>1, LookTypes
  <2>2. CASE DropWaiter(w)
    <3>1. NodeIs(n, node[n].live, node[n].in_use, node[n].queued, node[n].next, Null)
      BY <1>0, <1>n, <2>2, NodeDropped DEF DropWaiter
    <3>2. Goto(w, "free")
      BY <2>2 DEF DropWaiter
    <3>3. QED BY <3>1, <3>2
  <2>3. QED BY <2>1, <2>2
<1>3. PICK label \in {"drop", "loop", "free"} : Goto(w, label)
  BY <1>2
<1>4. Locals(w, label, v[w].in, v[w].kind, v[w].node, v[w].p, v[w].q, v[w].next, v[w].who,
             v[w].back)
  BY <1>0, <1>3, GotoLocals DEF Labels, WaitLabels
<1>5. /\ \A m \in Nodes : m # v[w].node /\ node[m].live => node'[m].waiter = node[m].waiter
      /\ \A m \in Linked : node'[m].next = node[m].next
  BY <1>0, <1>n, <1>2, OwnNode, LinkedNodes DEF Shape
<1>6. QED BY <1>0, <1>1, <1>4, <1>5, AwakeSleep DEF Locals, WaitLabels

\* ReleaseNode keeps it.
LEMMA ReleaseNodeSleep ==
  ASSUME SInv, Distinct, NEW w \in Waiters, ReleaseNode(w)
  PROVE  SInv'
<1> USE DEF park, past
<1>0. /\ NInv /\ NInv' /\ TypeInv /\ ~broken /\ Shape /\ Stage(w) /\ w \in Threads /\ w # Advancer
  BY ReleaseNodeInv DEF SInv, NInv, ReleaseNode, At, Threads, Shape, Distinct
<1>1. /\ v[w].pc = "free" /\ policy' = policy /\ qhead' = qhead /\ phase' = phase
      /\ terminated' = terminated /\ broken' = broken /\ asleep' = asleep /\ held' = held
  BY DEF ReleaseNode, At
<1>n. PICK n \in Nodes : n = v[w].node
  BY <1>0, <1>1, Fields DEF Stage
<1>2. Locals(w, "last", v[w].in, v[w].kind, Null, v[w].p, v[w].q, v[w].next, v[w].who, v[w].back)
  BY <1>0, FreeLocals DEF ReleaseNode
<1>3. \A m \in Linked : m \in Nodes
  BY <1>0, LinkedNodes DEF Shape
<1>4. /\ \A m \in Nodes : m # n => node'[m] = node[m]
      /\ n \in Linked => node'[n].next = node[n].next
  <2>1. CASE node[n].queued
    <3>1. node' = [node EXCEPT ![n] = [node[n] EXCEPT !.in_use = FALSE]]
      BY <1>n, <2>1 DEF ReleaseNode
    <3>2. QED BY <1>0, <3>1, NodeLeft DEF NodeIs
  <2>2. CASE ~node[n].queued
    <3>1. node' = [node EXCEPT ![n] = Free]
      BY <1>n, <2>2 DEF ReleaseNode
    <3>2. \A u \in Waiters : v[u].node = n => u = w
      BY <1>0, <1>n DEF Shape, Owner, Distinct
    <3>3. n \notin Linked
      BY <1>0, <1>1, <2>2, <3>2 DEF Shape, Flags
    <3>4. QED BY <1>0, <3>1, <3>3, NodeFreed DEF NodeIs
  <2>3. QED BY <2>1, <2>2
<1>5. QED BY <1>0, <1>1, <1>n, <1>2, <1>3, <1>4, AwakeSleep DEF Locals, WaitLabels

(***************************************************************************)
(* The steps of the callback, which may block.                             *)
(***************************************************************************)
LEMMA ParkSleep ==
  ASSUME SInv, Distinct, NEW w \in Waiters, Park(w) \/ LoadHead(w)
  PROVE  SInv'
<1> USE DEF park, past
<1>0. /\ NInv /\ NInv' /\ TypeInv /\ ~broken /\ Shape /\ Stage(w)' /\ w \in Threads
      /\ Sleeper(w) /\ \A u \in Waiters : Sleeper(u)
  BY ParkInv, LoadHeadInv DEF SInv, NInv, Park, LoadHead, At, Threads, Shape
<1>1. /\ v[w].pc \in {"park", "head"} /\ policy' = policy /\ qhead' = qhead /\ phase' = phase
      /\ terminated' = terminated /\ broken' = broken /\ asleep' = asleep /\ node' = node
      /\ \A u \in Waiters : u # w => held'[u] = held[u]
  BY <1>0 DEF Park, LoadHead, At, TypeInv
<1>2. /\ \A u \in Threads : u # w => v'[u] = v[u]
      /\ \/ v'[w].pc = "again"
         \/ v'[w].pc \in {"head", "test"} /\ held'[w]
  <2>1. CASE Park(w)
    <3>1. PICK label \in {"again", "head"} : Goto(w, label) /\ (label = "head" => held'[w])
      BY <1>0, <2>1 DEF Park, TypeInv
    <3>2. QED BY <1>0, <3>1, GotoLocals DEF Locals, Labels, WaitLabels
  <2>2. CASE LoadHead(w)
    <3>1. qhead[get_queue(v[w].in)] \in Nodes \cup {Null, Lock}
      BY <1>0, Fields DEF TypeInv, get_queue
    <3>2. Locals(w, "test", v[w].in, v[w].kind, v[w].node, qhead[get_queue(v[w].in)], v[w].q,
                 v[w].next, v[w].who, v[w].back)
      BY <1>0, <2>2, <3>1, HeadLocals DEF Labels, WaitLabels, LoadHead
    <3>3. v[w].pc = "head" /\ held' = held
      BY <2>2 DEF LoadHead, At
    <3>4. QED BY <1>0, <3>2, <3>3 DEF Locals, Sleeper
  <2>3. QED BY <2>1, <2>2
<1>3. /\ \A u \in Threads : Hand(u)' = Hand(u)
      /\ \A i \in 0 .. 1 : Stack(i)' = Stack(i)
  BY <1>0, <1>1, <1>2, StillHands
<1>4. \A u \in Waiters : u # w => Sleeper(u)'
  BY <1>0, <1>1, <1>2, <1>3, WaitFrame DEF WaitLabels
<1>5. Sleeper(w)'
  <2>1. ~asleep'[w]
    BY <1>0, <1>1 DEF Sleeper
  <2>2. QED BY <1>2, <2>1 DEF Sleeper, Blocking
<1>6. QED BY <1>0, <1>4, <1>5 DEF SInv

\* The look at the phase under park_lock, before the push.
LEMMA TestInvalidSleep ==
  ASSUME SInv, Distinct, NEW w \in Waiters, TestInvalid(w)
  PROVE  SInv'
<1> USE DEF park, past
<1>0. /\ NInv /\ NInv' /\ TypeInv /\ ~broken /\ Shape /\ Stage(w) /\ w \in Threads
      /\ Sleeper(w) /\ (\A u \in Waiters : Sleeper(u)) /\ w # Advancer
  BY TestInvalidInv DEF SInv, NInv, TestInvalid, At, Threads, Shape, Distinct
<1>1. /\ v[w].pc = "test" /\ policy' = policy /\ qhead' = qhead /\ phase' = phase
      /\ terminated' = terminated /\ broken' = broken /\ asleep' = asleep
  BY DEF TestInvalid, At
<1>n. PICK n \in Nodes : n = v[w].node
  BY <1>0, <1>1, Fields DEF Stage
<1> DEFINE on == UNCHANGED <<held, released>> /\ Goto(w, IF v[w].p = Lock THEN "head" ELSE "push")
<1>2. (LooksOver(w) /\ Unparked(w)) \/ (LooksOn(w) /\ on)
  <2>1. is_releasable(w, Unparked(w), on)
    BY DEF TestInvalid
  <2> HIDE DEF on
  <2>2. QED BY <1>0, <1>n, <2>1, Releasable
<1>3. /\ \/ NodeIs(n, node[n].live, node[n].in_use, node[n].queued, node[n].next, node[n].waiter)
         \/ NodeIs(n, node[n].live, node[n].in_use, node[n].queued, node[n].next, Null)
      /\ LooksOn(w) =>
           NodeIs(n, node[n].live, node[n].in_use, node[n].queued, node[n].next, node[n].waiter)
  BY <1>0, <1>2, <1>n, LookTypes
<1>4. /\ \A m \in Nodes : m # v[w].node /\ node[m].live => node'[m].waiter = node[m].waiter
      /\ \A m \in Linked : node'[m].next = node[m].next
  BY <1>0, <1>n, <1>3, OwnNode, LinkedNodes DEF Shape
<1>5. CASE Unparked(w)
  <2>1. Locals(w, "again", v[w].in, v[w].kind, v[w].node, Null, v[w].q, v[w].next, v[w].who,
               v[w].back)
    BY <1>0, <1>5, EntryLocals DEF Unparked, Labels, WaitLabels
  <2>2. \A u \in Waiters : u # w => held'[u] = held[u]
    BY <1>0, <1>5 DEF Unparked, TypeInv
  <2>3. QED BY <1>0, <1>1, <1>4, <2>1, <2>2, AwakeSleep DEF Locals, WaitLabels
<1>6. CASE LooksOn(w) /\ on
  <2>1. PICK label \in {"head", "push"} : Goto(w, label)
    BY <1>6
  <2>2. Locals(w, label, v[w].in, v[w].kind, v[w].node, v[w].p, v[w].q, v[w].next, v[w].who,
               v[w].back)
    BY <1>0, <2>1, GotoLocals DEF Labels, WaitLabels
  <2>3. Stage(w)'
    BY <1>0, <1>1 DEF NInv, Shape
  <2>4. /\ \A u \in Threads : Hand(u)' = Hand(u)
        /\ \A i \in 0 .. 1 : Stack(i)' = Stack(i)
    BY <1>0, <1>1, <1>4, <2>2, <2>3, StillHands DEF Locals
  <2>5. \A u \in Waiters : u # w => Sleeper(u)'
    BY <1>0, <1>1, <1>4, <1>6, <2>2, <2>4, WaitFrame DEF Locals, WaitLabels
  <2>6. Sleeper(w)'
    <3>1. ~asleep'[w] /\ held'[w]
      BY <1>0, <1>1, <1>6 DEF Sleeper
    <3>2. node[n].waiter = w
      BY <1>0, <1>6, <1>n DEF LooksOn, Shape, Owner, Distinct
    <3>3. node'[v'[w].node].waiter = w
      BY <1>3, <1>6, <1>n, <2>2, <3>2 DEF NodeIs, Locals
    <3>4. v'[w].pc \notin {"flag", "recheck"}
      BY <2>2 DEF Locals
    <3>5. QED BY <3>1, <3>3, <3>4 DEF Sleeper, Blocking
  <2>7. QED BY <1>0, <2>5, <2>6 DEF SInv
<1>7. QED BY <1>2, <1>5, <1>6

\* Push keeps it.
LEMMA PushSleep ==
  ASSUME SInv, Distinct, NEW w \in Waiters, Push(w)
  PROVE  SInv'
<1> USE DEF park, past
<1>0. /\ NInv /\ NInv' /\ TypeInv /\ ~broken /\ Shape /\ Stage(w) /\ w \in Threads
      /\ Sleeper(w) /\ (\A u \in Waiters : Sleeper(u)) /\ w # Advancer
  BY PushInv DEF SInv, NInv, Push, At, Threads, Shape, Distinct
<1>1. /\ v[w].pc = "push" /\ policy' = policy /\ phase' = phase /\ late' = late
      /\ terminated' = terminated /\ asleep' = asleep /\ held' = held /\ v[w].p # Lock
  BY <1>0 DEF Push, At, Stage
<1>n. PICK n \in Nodes : n = v[w].node
  BY <1>0, <1>1, Fields DEF Stage
<1>q. PICK q \in 0 .. 1 : q = get_queue(v[w].in)
  BY <1>0, Fields DEF get_queue
<1>2. Listed = Linked
  BY <1>0, ListedIsLinked DEF Shape
<1>3. CASE n \in Linked
  BY <1>0, <1>2, <1>3, <1>n, BrokenSleep DEF Push, Break
<1>4. CASE n \notin Linked
  <2>0. v[w].p \in Nodes \cup {Null} /\ qhead[q] \in Nodes \cup {Null, Lock}
    BY <1>0, <1>1, Fields DEF TypeInv
  <2>1. node' = [node EXCEPT ![n].next = v[w].p] /\ broken' = broken
    BY <1>2, <1>4, <1>n DEF Push, Same
  <2>2. NodeIs(n, node[n].live, node[n].in_use, node[n].queued, v[w].p, node[n].waiter)
    BY <1>0, <2>0, <2>1, NodeLinked
  <2>3. Stage(w)' /\ ~asleep'[w] /\ held'[w] /\ node'[n].waiter = w
    BY <1>0, <1>1, <1>n, <2>1, <2>2 DEF NInv, Shape, Sleeper, NodeIs
  <2>4. /\ \A m \in Nodes : m # v[w].node /\ node[m].live => node'[m].waiter = node[m].waiter
        /\ \A m \in Linked : node'[m].next = node[m].next
    BY <1>0, <1>4, <1>n, <2>2, LinkedNodes DEF NodeIs, Shape
  <2>5. CASE /\ qhead[q] = v[w].p /\ qhead' = [qhead EXCEPT ![q] = n]
             /\ v' = [v EXCEPT ![w].pc = "flag", ![w].p = Null]
    <3>1. Locals(w, "flag", v[w].in, v[w].kind, n, Null, v[w].q, v[w].next, v[w].who, v[w].back)
      BY <1>0, <1>n, <2>5, EntryLocals DEF Labels, WaitLabels
    <3>2. /\ Stack(q)' = {n} \cup Stack(q) /\ \A i \in 0 .. 1 : i # q => Stack(i)' = Stack(i)
          /\ \A u \in Threads : Hand(u)' = Hand(u)
      <4>1. qhead[q] # Lock /\ qhead' = [qhead EXCEPT ![q] = n]
        BY <1>1, <2>5
      <4>2. NodeIs(n, node[n].live, node[n].in_use, node[n].queued, qhead[q], node[n].waiter)
        BY <2>2, <2>5
      <4>3. /\ \A u \in Threads : u # w => v'[u] = v[u]
            /\ v'[w].pc = "flag" /\ v'[w].node = n
        BY <3>1 DEF Locals
      <4>4. QED BY <1>0, <1>1, <1>4, <1>n, <2>3, <4>1, <4>2, <4>3, PushedShape
    <3>3. \A u \in Waiters : u # w => Sleeper(u)'
      <4>1. \A i \in 0 .. 1 : /\ Stack(i) \subseteq Stack(i)'
                              /\ Stack(i)' \subseteq Stack(i) \cup {v[w].node}
        BY <1>n, <3>2
      <4>2. QED BY <1>0, <1>1, <2>4, <3>1, <3>2, <4>1, WaitFrame DEF Locals, WaitLabels
    <3>4. Sleeper(w)'
      <4>1. \A i \in 0 .. 1 : i = get_queue(v'[w].in) => Reached(w, i)'
        BY <1>q, <3>1, <3>2 DEF Locals, Reached
      <4>2. QED BY <2>3, <3>1, <4>1 DEF Locals, Sleeper
    <3>5. QED BY <1>0, <3>3, <3>4 DEF SInv
  <2>6. CASE v' = [v EXCEPT ![w].p = qhead[q], ![w].pc = "test"] /\ qhead' = qhead
    <3>1. Locals(w, "test", v[w].in, v[w].kind, n, qhead[q], v[w].q, v[w].next, v[w].who, v[w].back)
      BY <1>0, <1>n, <2>0, <2>6, HeadLocals DEF Labels, WaitLabels
    <3>2. /\ \A u \in Threads : Hand(u)' = Hand(u)
          /\ \A i \in 0 .. 1 : Stack(i)' = Stack(i)
      BY <1>0, <1>1, <2>3, <2>4, <2>6, <3>1, StillHands DEF Locals
    <3>3. \A u \in Waiters : u # w => Sleeper(u)'
      BY <1>0, <1>1, <2>4, <3>1, <3>2, WaitFrame DEF Locals, WaitLabels
    <3>4. Sleeper(w)'
      BY <2>3, <3>1 DEF Locals, Sleeper, Blocking
    <3>5. QED BY <1>0, <3>3, <3>4 DEF SInv
  <2>7. QED BY <1>2, <1>4, <1>n, <1>q, <2>5, <2>6 DEF Push
<1>5. QED BY <1>3, <1>4

\* SetQueued keeps it.
LEMMA SetQueuedSleep ==
  ASSUME SInv, Distinct, NEW w \in Waiters, SetQueued(w)
  PROVE  SInv'
<1> USE DEF park, past
<1>0. /\ NInv /\ NInv' /\ TypeInv /\ ~broken /\ Shape /\ Stage(w) /\ w \in Threads
      /\ Sleeper(w) /\ (\A u \in Waiters : Sleeper(u)) /\ w # Advancer
  BY SetQueuedInv DEF SInv, NInv, SetQueued, At, Threads, Shape, Distinct
<1>1. /\ v[w].pc = "flag" /\ policy' = policy /\ qhead' = qhead /\ phase' = phase
      /\ terminated' = terminated /\ asleep' = asleep /\ held' = held /\ broken' = broken
      /\ Goto(w, "recheck")
  BY DEF SetQueued, At
<1>n. PICK n \in Nodes : n = v[w].node
  BY <1>0, <1>1, Fields DEF Stage
<1>2. Locals(w, "recheck", v[w].in, v[w].kind, n, v[w].p, v[w].q, v[w].next, v[w].who, v[w].back)
  BY <1>0, <1>1, <1>n, GotoLocals DEF Labels, WaitLabels
<1>3. NodeIs(n, node[n].live, node[n].in_use, TRUE, node[n].next, node[n].waiter)
  BY <1>0, <1>n, NodeQueued DEF SetQueued
<1>4. Stage(w)' /\ ~asleep'[w] /\ held'[w] /\ node'[n].waiter = w
  BY <1>0, <1>1, <1>n, <1>3 DEF NInv, Shape, Sleeper, NodeIs
<1>5. /\ \A m \in Nodes : m # v[w].node /\ node[m].live => node'[m].waiter = node[m].waiter
      /\ \A m \in Linked : node'[m].next = node[m].next
  BY <1>0, <1>n, <1>3, OwnNode, LinkedNodes DEF Shape
<1>6. /\ \A u \in Threads : Hand(u)' = Hand(u)
      /\ \A i \in 0 .. 1 : Stack(i)' = Stack(i)
  BY <1>0, <1>1, <1>2, <1>4, <1>5, StillHands DEF Locals
<1>7. /\ \A u \in Waiters : u # w => Sleeper(u)'
      /\ \A i \in 0 .. 1 : v'[w].node = v[w].node /\ Reached(w, i) => Reached(w, i)'
  BY <1>0, <1>1, <1>2, <1>5, <1>6, WaitFrame DEF Locals, WaitLabels
<1>8. Sleeper(w)'
  <2>1. \A i \in 0 .. 1 : i = get_queue(v'[w].in) => Reached(w, i)'
    BY <1>0, <1>1, <1>2, <1>7, <1>n DEF Locals, Sleeper, Blocking
  <2>2. QED BY <1>2, <1>4, <2>1 DEF Locals, Sleeper
<1>9. QED BY <1>0, <1>1, <1>7, <1>8 DEF SInv

\* The look at the phase under park_lock, after the push: a thread that finds
\* the phase unchanged has its node where an advance will find it.
LEMMA RecheckSleep ==
  ASSUME SInv, Distinct, NEW w \in Waiters, Recheck(w)
  PROVE  SInv'
<1> USE DEF park, past
<1>0. /\ NInv /\ NInv' /\ TypeInv /\ ~broken /\ Shape /\ Stage(w) /\ w \in Threads
      /\ Sleeper(w) /\ (\A u \in Waiters : Sleeper(u)) /\ w # Advancer
  BY RecheckInv DEF SInv, NInv, Recheck, At, Threads, Shape, Distinct
<1>1. /\ v[w].pc = "recheck" /\ policy' = policy /\ qhead' = qhead /\ phase' = phase
      /\ terminated' = terminated /\ broken' = broken
  BY DEF Recheck, At
<1>n. PICK n \in Nodes : n = v[w].node
  BY <1>0, <1>1, Fields DEF Stage
<1> DEFINE over == Unparked(w) /\ UNCHANGED asleep
           on == /\ held' = [held EXCEPT ![w] = FALSE]
                 /\ asleep' = [asleep EXCEPT ![w] = TRUE]
                 /\ Goto(w, "asleep") /\ UNCHANGED released
<1>2. (LooksOver(w) /\ over) \/ (LooksOn(w) /\ on)
  <2>1. is_releasable(w, over, on)
    BY DEF Recheck
  <2> HIDE DEF over, on
  <2>2. QED BY <1>0, <1>n, <2>1, Releasable
<1>3. /\ \/ NodeIs(n, node[n].live, node[n].in_use, node[n].queued, node[n].next, node[n].waiter)
         \/ NodeIs(n, node[n].live, node[n].in_use, node[n].queued, node[n].next, Null)
      /\ LooksOn(w) =>
           NodeIs(n, node[n].live, node[n].in_use, node[n].queued, node[n].next, node[n].waiter)
  BY <1>0, <1>2, <1>n, LookTypes
<1>4. /\ \A m \in Nodes : m # v[w].node /\ node[m].live => node'[m].waiter = node[m].waiter
      /\ \A m \in Linked : node'[m].next = node[m].next
  BY <1>0, <1>n, <1>3, OwnNode, LinkedNodes DEF Shape
<1>5. CASE over
  <2>1. Locals(w, "again", v[w].in, v[w].kind, v[w].node, Null, v[w].q, v[w].next, v[w].who,
               v[w].back)
    BY <1>0, <1>5, EntryLocals DEF Unparked, Labels, WaitLabels
  <2>2. asleep' = asleep /\ \A u \in Waiters : u # w => held'[u] = held[u]
    BY <1>0, <1>5 DEF Unparked, TypeInv
  <2>3. QED BY <1>0, <1>1, <1>4, <2>1, <2>2, AwakeSleep DEF Locals, WaitLabels
<1>6. CASE LooksOn(w) /\ on
  <2>1. Locals(w, "asleep", v[w].in, v[w].kind, n, v[w].p, v[w].q, v[w].next, v[w].who,
               v[w].back)
    BY <1>0, <1>6, <1>n, GotoLocals DEF Labels, WaitLabels
  <2>2. Stage(w)'
    BY <1>0, <1>1 DEF NInv, Shape
  <2>3. /\ \A u \in Threads : Hand(u)' = Hand(u)
        /\ \A i \in 0 .. 1 : Stack(i)' = Stack(i)
    BY <1>0, <1>1, <1>4, <2>1, <2>2, StillHands DEF Locals
  <2>4. \A u \in Waiters : u # w => held'[u] = held[u] /\ asleep'[u] = asleep[u]
    BY <1>0, <1>6 DEF TypeInv
  <2>5. /\ \A u \in Waiters : u # w => Sleeper(u)'
        /\ \A i \in 0 .. 1 : v'[w].node = v[w].node /\ Reached(w, i) => Reached(w, i)'
    BY <1>0, <1>1, <1>4, <2>1, <2>3, <2>4, WaitFrame DEF Locals, WaitLabels
  <2>6. Sleeper(w)'
    <3>1. \A i \in 0 .. 1 : i = get_queue(v'[w].in) => Reached(w, i)'
      BY <1>0, <1>1, <1>n, <2>1, <2>5 DEF Locals, Sleeper, Blocking
    <3>2. node'[v'[w].node].waiter = w
      BY <1>0, <1>1, <1>3, <1>6, <1>n, <2>1 DEF Locals, NodeIs, Sleeper
    <3>3. ~Changed(w)'
      BY <1>1, <1>6, <2>1 DEF LooksOn, Changed, Locals
    <3>4. QED BY <2>1, <3>1, <3>2, <3>3 DEF Locals, Sleeper
  <2>7. QED BY <1>0, <1>1, <2>5, <2>6 DEF SInv
<1>7. QED BY <1>2, <1>5, <1>6

(***************************************************************************)
(* The invariant holds in every state.                                     *)
(***************************************************************************)
LEMMA InitSleep ==
  ASSUME Init, Distinct
  PROVE  SInv
<1>1. \A w \in Waiters : ~asleep[w] /\ v[w].pc = "idle"
  BY DEF Init, Local, Threads
<1>2. \A w \in Waiters : Sleeper(w)
  BY <1>1 DEF Sleeper, Blocking
<1>3. QED BY <1>2, InitInv DEF SInv

\* Every step keeps it.
LEMMA NextSleep ==
  ASSUME SInv, Distinct, [Next]_vars
  PROVE  SInv'
<1>1. ASSUME NEW t \in Threads, Release(t)
      PROVE  SInv'
  BY <1>1, SingleSleep, CooperativeSleep, LockHeadSleep, ReadNextSleep, QueueReleaseSleep,
     TestWaiterSleep, ReadWaiterSleep, UnparkSleep DEF Release
<1>2. ASSUME NEW w \in Waiters, Wait(w)
      PROVE  SInv'
  BY <1>2, LoopSleep, ParkSleep, TestInvalidSleep, PushSleep, SetQueuedSleep, RecheckSleep,
     AgainSleep, ReleaseNodeSleep, PlainSleep DEF Wait
<1>3. CASE UNCHANGED vars
  <2>1. /\ policy' = policy /\ phase' = phase /\ terminated' = terminated /\ qhead' = qhead
        /\ node' = node /\ held' = held /\ asleep' = asleep /\ v' = v /\ broken' = broken
    BY <1>3 DEF vars, park
  <2>2. NInv'
    BY <1>3, NextInv DEF SInv
  <2>3. Succ' = Succ
    BY <2>1 DEF Succ
  <2>4. \A u : Rest(u)' = Rest(u) /\ Own(u)' = Own(u) /\ Then(u)' = Then(u)
    BY <2>1 DEF Rest, Own, Then
  <2>5. \A u : Hand(u)' = Hand(u) /\ \A i : Stack(i)' = Stack(i)
    BY <2>1, <2>3, <2>4, Unfold
  <2>6. ASSUME NEW w \in Waiters, Sleeper(w)
        PROVE  Sleeper(w)'
    <3>1. \A i \in 0 .. 1 : Reached(w, i) => Reached(w, i)'
      BY <2>1, <2>5 DEF Reached, Waking
    <3>2. \A i \in 0 .. 1 : \A t \in Threads : Comes(t, i) => Comes(t, i)'
      BY <2>1 DEF Comes
    <3>3. QED BY <2>1, <2>5, <2>6, <3>1, <3>2 DEF Sleeper, Blocking, Changed
  <2>7. QED BY <2>1, <2>2, <2>6 DEF SInv
<1>4. QED
  BY <1>1, <1>2, <1>3, AdvancerSleep, OutsideSleep, PlainSleep DEF Next, Step

\* A sleeper whose phase is over is accounted for.
LEMMA InvStranded ==
  ASSUME SInv, Distinct
  PROVE  NobodyStranded
<1>1. ASSUME NEW w \in Waiters, ~broken, asleep[w], Changed(w)
      PROVE  \E t \in Threads :
               \/ v[t].pc = "wake" /\ v[t].who = w
               \/ v[t].pc \in {"waiter", "unpark"} /\ v[t].p = v[w].node
               \/ v[w].node \in InHand(t)
               \/ v[w].node \in Reach({qhead[get_queue(v[w].in)]}) /\ Visits(t, get_queue(v[w].in))
  <2>1. TypeInv /\ Shape /\ Sleeper(w) /\ w \in Threads
    BY <1>1 DEF SInv, NInv, Threads
  <2>2. PICK i \in 0 .. 1 : i = get_queue(v[w].in)
    BY <2>1, Fields DEF get_queue
  <2>3. Reached(w, i)
    BY <1>1, <2>1, <2>2 DEF Sleeper, Blocking
  <2>4. CASE v[w].node \in Stack(i)
    <3>1. PICK t \in Threads : Comes(t, i)
      BY <1>1, <2>1, <2>2, <2>4 DEF Sleeper
    <3>2. Visits(t, i)
      BY <3>1 DEF Comes, Visits, Releasing
    <3>3. v[w].node \in Reach({qhead[i]})
      BY <2>4, ReachIsFrom DEF Stack, Chain
    <3>4. QED BY <2>2, <3>2, <3>3
  <2>5. CASE \E t \in Threads : v[w].node \in Hand(t)
    BY <2>1, <2>5, ListedIsLinked DEF Shape
  <2>6. CASE \E t \in Threads : Waking(t, w)
    BY <2>6 DEF Waking
  <2>7. QED BY <2>3, <2>4, <2>5, <2>6 DEF Reached
<1>2. QED BY <1>1 DEF NobodyStranded

\* NobodyStranded, for any number of waiters, nodes and phases: a waiter that
\* sleeps in a phase that is over has its node, or its unpark, in the hands of
\* a thread, or on a stack that a thread will come to.
THEOREM NobodyStaysStranded ==
  ASSUME Distinct
  PROVE  Spec => []NobodyStranded
<1>1. Init => SInv
  BY InitSleep
<1>2. SInv /\ [Next]_vars => SInv'
  BY NextSleep
<1>3. SInv => NobodyStranded
  BY InvStranded
<1>4. QED BY <1>1, <1>2, <1>3, PTL DEF Spec
=============================================================================
