---------------------------- MODULE InducedRange ----------------------------
(***************************************************************************)
(* induced_range: forward iterators over what a producer delivers block by *)
(* block.  The blocks are nodes of a chain, made when the first iterator   *)
(* gets there and shared by all; a node is counted by the iterators that   *)
(* were copied there, but not by one that arrived by ++.                   *)
(***************************************************************************)
EXTENDS Integers, Sequences, FiniteSets, FiniteSetsExt

CONSTANTS Iterators, Items, BlockSize, MaxSteps

VARIABLES producer,   \* "copy" fills buffers, "acquire" hands out its own
          left,       \* items not yet delivered
          nodes, finished,
          range,      \* the iterator kept by the range itself
          iter, steps

inducedVars == <<producer, left, nodes, finished, range, iter, steps>>

None == [state |-> "none", node |-> 0, offset |-> 0, at |-> 0]
On(i) == i.state = "on" /\ i.node # 0

\* What the producer delivers into room for r_sz items: a file is read
\* until the buffer is full or it ends.
Delivered(r_sz) ==
  IF producer = "copy" \/ left = 0 THEN {Min({r_sz, left})} ELSE 1 .. Min({r_sz, left})

attach_data(c) ==
  [alive |-> TRUE, prev |-> FALSE, next |-> FALSE, ref_count |-> 0,
   alloc_size |-> IF producer = "copy" THEN BlockSize ELSE c,
   data_size |-> c, first |-> Items - left]

(***************************************************************************)
(* release: an unused node without a predecessor goes, and the unused ones *)
(* behind it.                                                              *)
(***************************************************************************)
RECURSIVE Free(_, _)
Free(ns, i) ==
  LET gone == [ns EXCEPT ![i].alive = FALSE] IN
  IF ~ns[i].next THEN gone
  ELSE LET cut == [gone EXCEPT ![i + 1].prev = FALSE] IN
       IF cut[i + 1].ref_count = 0 THEN Free(cut, i + 1) ELSE cut

release_Unlinked(ns, i) ==
  LET less == [ns EXCEPT ![i].ref_count = Max({0, @ - 1})] IN
  IF less[i].ref_count > 0 THEN less ELSE Free(less, i)

release(ns, i) ==
  LET less == [ns EXCEPT ![i].ref_count = Max({0, @ - 1})] IN
  IF less[i].ref_count > 0 \/ less[i].prev THEN less ELSE Free(less, i)

Counted(ns, i) == IF i = 0 THEN ns ELSE [ns EXCEPT ![i].ref_count = @ + 1]
Dropped(ns, i) == IF i = 0 THEN ns ELSE release(ns, i)

Init ==
  /\ producer \in {"copy", "acquire"} /\ left \in 0 .. Items
  /\ nodes = <<>> /\ finished = FALSE /\ range = None
  /\ iter = [i \in Iterators |-> None] /\ steps = 0

Step == steps < MaxSteps /\ steps' = steps + 1 /\ UNCHANGED producer

\* A producer that has nothing makes an empty range.
make_head ==
  /\ Step /\ range = None /\ nodes = <<>>
  /\ \E c \in Delivered(BlockSize) :
       /\ left' = left - c
       /\ IF c = 0
          THEN /\ nodes' = release(<<attach_data(c)>>, 1)
               /\ range' = [None EXCEPT !.state = "on", !.at = Items - left]
          ELSE /\ nodes' = Counted(<<attach_data(c)>>, 1)
               /\ range' = [state |-> "on", node |-> 1, offset |-> 0, at |-> Items - left]
  /\ UNCHANGED <<finished, iter>>

\* begin(), and the copy constructor.
Copy(i, from) ==
  /\ Step /\ iter[i] = None /\ from.state = "on"
  /\ iter' = [iter EXCEPT ![i] = from]
  /\ nodes' = Counted(nodes, from.node)
  /\ UNCHANGED <<left, finished, range>>

assign(i, from) ==
  /\ Step /\ iter[i].state = "on" /\ from.state = "on"
  /\ iter' = [iter EXCEPT ![i] = from]
  /\ nodes' = IF iter[i].node = from.node THEN nodes
              ELSE Counted(Dropped(nodes, iter[i].node), from.node)
  /\ UNCHANGED <<left, finished, range>>

Destroy(i) ==
  /\ iter[i].state = "on"
  /\ iter' = [iter EXCEPT ![i] = None]
  /\ nodes' = Dropped(nodes, iter[i].node)
  /\ UNCHANGED <<producer, left, finished, range, steps>>

(***************************************************************************)
(* get_next and fetch_next.                                                *)
(***************************************************************************)
Moved(i, node, offset) ==
  iter' = [iter EXCEPT ![i].node = node, ![i].offset = offset, ![i].at = @ + 1]

WithinNode(i) ==
  /\ Step /\ On(iter[i]) /\ iter[i].offset + 1 < nodes[iter[i].node].data_size
  /\ Moved(i, iter[i].node, iter[i].offset + 1)
  /\ UNCHANGED <<left, nodes, finished, range>>

AtEnd(i) == On(iter[i]) /\ iter[i].offset + 1 = nodes[iter[i].node].data_size

ToNext(i) ==
  /\ Step /\ AtEnd(i) /\ nodes[iter[i].node].next
  /\ Moved(i, iter[i].node + 1, 0)
  /\ nodes' = release(nodes, iter[i].node)
  /\ UNCHANGED <<left, finished, range>>

\* A node with room is filled up in place, and still gives up its count.
append_data(i, prev) ==
  \E c \in {Min({nodes[prev].alloc_size - nodes[prev].data_size, left})} :
    /\ left' = left - c /\ finished' = (c = 0)
    /\ nodes' = release([nodes EXCEPT ![prev].data_size = @ + c], prev)
    /\ Moved(i, IF c = 0 THEN 0 ELSE prev, IF c = 0 THEN 0 ELSE nodes[prev].data_size)

NewNode(i, prev) ==
  \E c \in Delivered(BlockSize) :
    /\ left' = left - c /\ finished' = (c = 0)
    /\ IF c = 0
       THEN nodes' = release(nodes, prev) /\ Moved(i, 0, 0)
       ELSE /\ nodes' = release(Append([nodes EXCEPT ![prev].next = TRUE],
                                       [attach_data(c) EXCEPT !.prev = TRUE]), prev)
            /\ Moved(i, Len(nodes) + 1, 0)

fetch_next(i) ==
  /\ Step /\ AtEnd(i) /\ ~nodes[iter[i].node].next
  /\ LET prev == iter[i].node IN
       \/ /\ finished /\ Moved(i, 0, 0) /\ nodes' = release(nodes, prev)
          /\ UNCHANGED <<left, finished>>
       \/ /\ ~finished /\ nodes[prev].data_size < nodes[prev].alloc_size /\ append_data(i, prev)
       \/ /\ ~finished /\ nodes[prev].data_size = nodes[prev].alloc_size /\ NewNode(i, prev)
  /\ UNCHANGED range

\* The range outlives its iterators.
DestroyRange ==
  /\ range.state = "on" /\ \A i \in Iterators : iter[i] = None
  /\ range' = [None EXCEPT !.state = "gone"]
  /\ nodes' = Dropped(nodes, range.node)
  /\ UNCHANGED <<producer, left, finished, iter, steps>>

Next ==
  \/ make_head \/ DestroyRange
  \/ \E i \in Iterators :
       \/ Copy(i, range) \/ Destroy(i) \/ WithinNode(i) \/ ToNext(i) \/ fetch_next(i)
       \/ \E j \in Iterators \ {i} : Copy(i, iter[j]) \/ assign(i, iter[j])

Spec == Init /\ [][Next]_inducedVars

\* Although an iterator that arrived by ++ is not counted, the node it is on
\* is alive and holds its item, whatever the other iterators do, as long as
\* the range is kept; an iterator at the end has passed all items; and with
\* the range the whole chain goes (induced_range.hpp).
NodesServeIterators ==
  /\ \A i \in {iter[j] : j \in Iterators} \cup {range} :
       /\ On(i) => /\ nodes[i.node].alive /\ i.offset < nodes[i.node].data_size
                   /\ nodes[i.node].first + i.offset = i.at
       /\ i.state = "on" /\ i.node = 0 => i.at = Items
  /\ range.state = "gone" => \A n \in DOMAIN nodes : ~nodes[n].alive
=============================================================================
