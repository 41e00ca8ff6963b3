------------------------------ MODULE Ownership -----------------------------
(***************************************************************************)
(* Owned blocks of memory: counted_ptr, whose block holds a value, a count *)
(* and possibly the allocator and extra bytes; allocated_object and        *)
(* allocated_array, which keep their allocator beside their values; and    *)
(* the arrays of allocator_helper.  A block is built part by part, each    *)
(* part may throw, and is torn down part by part; other threads go on in   *)
(* between.  The bytes come from the debug allocator, which counts them.   *)
(***************************************************************************)
EXTENDS Integers, Sequences, FiniteSets, SequencesExt, FiniteSetsExt

CONSTANTS Threads, Slots, Blocks, Lengths, None, MaxOps

VARIABLES heap,       \* the blocks
          ptr,        \* the handles: each thread has Slots of them
          task,       \* what each thread is doing, innermost call first
          allocated, freed,   \* the counters of the debug allocator
          failures, ops

ownVars == <<heap, ptr, task, allocated, freed, failures, ops>>

Handles == Threads \X Slots
Kinds   == {"counted", "object", "array", "claimed"}

(***************************************************************************)
(* The layout of a block: custom says that its allocator has to be kept,   *)
(* length is the number of values of an array, or of extra bytes of a      *)
(* counted block.                                                          *)
(***************************************************************************)
header == 10     \* sizeof(counted_ptr_val), sizeof(allocated_array_container)
aw_st  == 5      \* sizeof(counted_ptr_alloc_wrapper)
h_size == [disp_a |-> 2, disp_ae |-> 3, disp_b |-> 1, none |-> 0]

extra_disp(custom, extra) ==
  IF custom THEN (IF extra > 0 THEN "disp_ae" ELSE "disp_a")
            ELSE (IF extra > 0 THEN "disp_b" ELSE "none")

a_size(kind, custom, length) ==
  CASE kind = "counted" -> header + (IF custom THEN aw_st ELSE 0)
                                  + h_size[extra_disp(custom, length)] + length
    [] kind = "object"  -> header
    [] kind = "array"   -> header + length
    [] kind = "claimed" -> length

\* The size a block is given back with; a counted block without extra data
\* or allocator has no dispatch table and uses sizeof.
get_alloc_size(b) ==
  IF heap[b].kind = "counted" /\ extra_disp(heap[b].custom, heap[b].length) = "none"
  THEN header
  ELSE heap[b].t_size

Values(length) == [i \in 1 .. length |-> <<"value", i>>]

\* An allocator without state is not stored.
emplace_alloc(custom) == IF custom THEN <<<<"alloc", 0>>>> ELSE <<>>

\* The parts in the order in which they are constructed.
construct_alloc(custom)      == emplace_alloc(custom) \o <<<<"value", 0>>>>
create_object(custom)        == <<<<"value", 0>>>> \o emplace_alloc(custom)
create_array(custom, length) == <<<<"container", 0>>>> \o Values(length) \o emplace_alloc(custom)
claim_n(length)              == Values(length)

Parts(kind, custom, length) ==
  CASE kind = "counted" -> construct_alloc(custom)
    [] kind = "object"  -> create_object(custom)
    [] kind = "array"   -> create_array(custom, length)
    [] kind = "claimed" -> claim_n(length)

\* The order in which a whole block is taken down: the allocator of an
\* object or an array is copied out first, that of a counted block is the
\* last to go.
destroy_a(custom)        == <<<<"value", 0>>>> \o emplace_alloc(custom)
destroy_object(custom)   == emplace_alloc(custom) \o <<<<"value", 0>>>>
destroy_data(length)     == Reverse(Values(length))
destroy_array(custom, length) ==
  emplace_alloc(custom) \o destroy_data(length) \o <<<<"container", 0>>>>
destroy_n(length)        == Reverse(Values(length))

destroy(b) ==
  CASE heap[b].kind = "counted" -> destroy_a(heap[b].custom)
    [] heap[b].kind = "object"  -> destroy_object(heap[b].custom)
    [] heap[b].kind = "array"   -> destroy_array(heap[b].custom, heap[b].length)
    [] heap[b].kind = "claimed" -> destroy_n(heap[b].length)

\* What the guards of a construction that throws take down again.
deleter(b) == Reverse(heap[b].built)

Unused == [state |-> "unused", kind |-> "counted", custom |-> FALSE, length |-> 0,
           t_size |-> 0, built |-> <<>>, use_count |-> 0, next |-> None]

Init ==
  /\ heap = [b \in Blocks |-> Unused]
  /\ ptr = [h \in Handles |-> None]
  /\ task = [t \in Threads |-> <<>>]
  /\ allocated = 0 /\ freed = 0 /\ failures = 0 /\ ops = 0

Idle(t) == task[t] = <<>>
Counted(b) == b # None /\ heap[b].kind = "counted"

Begin == ops < MaxOps /\ ops' = ops + 1

(***************************************************************************)
(* construct, create and claim_n.                                          *)
(***************************************************************************)
construct(t, s, b, kind, custom, length) ==
  /\ Idle(t) /\ ptr[<<t, s>>] = None /\ heap[b].state = "unused" /\ Begin
  /\ kind = "claimed" => ~custom
  /\ kind = "object"  => length = 0
  /\ LET size == a_size(kind, custom, length) IN
       /\ heap' = [heap EXCEPT ![b] = [Unused EXCEPT
                     !.state = "held", !.kind = kind, !.custom = custom, !.length = length,
                     !.t_size = size, !.use_count = 1]]
       /\ allocated' = allocated + size
  /\ task' = [task EXCEPT ![t] =
       <<[op |-> "build", block |-> b, todo |-> Parts(kind, custom, length), h |-> s, g |-> s]>>]
  /\ UNCHANGED <<ptr, freed, failures>>

\* The bytes are counted before operator new throws.
allocate_throws(t, length) ==
  /\ Idle(t) /\ Begin
  /\ allocated' = allocated + a_size("array", FALSE, length)
  /\ failures' = failures + a_size("array", FALSE, length)
  /\ UNCHANGED <<heap, ptr, task, freed>>

Top(t) == Head(task[t])
Doing(t, what) == ~Idle(t) /\ Top(t).op = what
Pop(t) == task' = [task EXCEPT ![t] = Tail(@)]

\* The next part.  The value of a counted block may take over a handle of
\* the caller, as the nodes of a list do.
Build(t, g) ==
  /\ Doing(t, "build") /\ Top(t).todo # <<>>
  /\ LET b == Top(t).block  part == Head(Top(t).todo)
         takes == part[1] = "value" /\ Counted(b) /\ g # None IN
     /\ g # None => takes /\ Counted(ptr[<<t, g>>])
     /\ heap' = [heap EXCEPT ![b].built = Append(@, part),
                             ![b].next = IF takes THEN ptr[<<t, g>>] ELSE @]
     /\ ptr' = IF takes THEN [ptr EXCEPT ![<<t, g>>] = None] ELSE ptr
  /\ task' = [task EXCEPT ![t][1].todo = Tail(@)]
  /\ UNCHANGED <<allocated, freed, failures, ops>>

\* A constructor throws: what was built is taken down.
BuildThrows(t) ==
  /\ Doing(t, "build") /\ Top(t).todo # <<>>
  /\ task' = [task EXCEPT ![t][1].op = "destroy", ![t][1].todo = deleter(Top(t).block)]
  /\ UNCHANGED <<heap, ptr, allocated, freed, failures, ops>>

Built(t) ==
  /\ Doing(t, "build") /\ Top(t).todo = <<>>
  /\ ptr' = [ptr EXCEPT ![<<t, Top(t).h>>] = Top(t).block]
  /\ Pop(t) /\ UNCHANGED <<heap, allocated, freed, failures, ops>>

(***************************************************************************)
(* Destruction.                                                            *)
(***************************************************************************)
DestroyFrame(b) == [op |-> "destroy", block |-> b, todo |-> destroy(b), h |-> 0, g |-> 0]

\* release: whoever brings the count to zero destroys the block; it then
\* carries on with rest.
release(t, hp, b, rest) ==
  /\ heap' = [hp EXCEPT ![b].use_count = @ - 1]
  /\ task' = [task EXCEPT ![t] =
       (IF heap[b].use_count = 1 THEN <<DestroyFrame(b)>> ELSE <<>>) \o rest]

\* A value that owns another block releases it first.
ReleaseNext(t) ==
  /\ Doing(t, "destroy") /\ Top(t).todo # <<>> /\ Head(Top(t).todo)[1] = "value"
  /\ LET b == Top(t).block IN
       /\ heap[b].next # None
       /\ release(t, [heap EXCEPT ![b].next = None], heap[b].next, task[t])
  /\ UNCHANGED <<ptr, allocated, freed, failures, ops>>

Destroy(t) ==
  /\ Doing(t, "destroy") /\ Top(t).todo # <<>>
  /\ Head(Top(t).todo)[1] = "value" => heap[Top(t).block].next = None
  /\ heap' = [heap EXCEPT ![Top(t).block].built =
                SelectSeq(@, LAMBDA p : p # Head(Top(t).todo))]
  /\ task' = [task EXCEPT ![t][1].todo = Tail(@)]
  /\ UNCHANGED <<ptr, allocated, freed, failures, ops>>

deallocate(t) ==
  /\ Doing(t, "destroy") /\ Top(t).todo = <<>>
  /\ LET b == Top(t).block IN
       /\ heap' = [heap EXCEPT ![b].state = IF @ = "held" THEN "freed" ELSE "freed twice"]
       /\ freed' = freed + get_alloc_size(b)
  /\ Pop(t) /\ UNCHANGED <<ptr, allocated, failures, ops>>

\* destroy() of an object or an array, relinquish_n of a claimed one.
Discard(t, s) ==
  /\ Idle(t) /\ ptr[<<t, s>>] # None /\ ~Counted(ptr[<<t, s>>])
  /\ task' = [task EXCEPT ![t] = <<DestroyFrame(ptr[<<t, s>>])>>]
  /\ ptr' = [ptr EXCEPT ![<<t, s>>] = None]
  /\ UNCHANGED <<heap, allocated, freed, failures, ops>>

(***************************************************************************)
(* counted_ptr.                                                            *)
(***************************************************************************)
copy(t, s, g) ==
  /\ Idle(t) /\ Begin /\ ptr[<<t, s>>] = None /\ Counted(ptr[<<t, g>>])
  /\ ptr' = [ptr EXCEPT ![<<t, s>>] = ptr[<<t, g>>]]
  /\ heap' = [heap EXCEPT ![ptr[<<t, g>>]].use_count = @ + 1]
  /\ UNCHANGED <<task, allocated, freed, failures>>

\* The handle that is moved may come from another thread that is idle.
move(h, g) ==
  /\ Idle(h[1]) /\ Idle(g[1]) /\ Begin /\ ptr[h] = None /\ Counted(ptr[g])
  /\ ptr' = [ptr EXCEPT ![h] = ptr[g], ![g] = None]
  /\ UNCHANGED <<heap, task, allocated, freed, failures>>

swap(t, s, g) ==
  /\ Idle(t) /\ Begin /\ s # g /\ ptr[<<t, s>>] # ptr[<<t, g>>]
  /\ \A q \in {s, g} : ptr[<<t, q>>] = None \/ Counted(ptr[<<t, q>>])
  /\ ptr' = [ptr EXCEPT ![<<t, s>>] = ptr[<<t, g>>], ![<<t, g>>] = ptr[<<t, s>>]]
  /\ UNCHANGED <<heap, task, allocated, freed, failures>>

Frame(op, s, g) == <<[op |-> op, block |-> None, todo |-> <<>>, h |-> s, g |-> g]>>

\* The old block is released first, then the handle is overwritten.
Assign(t, op, s, g) ==
  /\ Idle(t) /\ Counted(ptr[<<t, s>>])
  /\ ptr[<<t, g>>] = None \/ Counted(ptr[<<t, g>>])
  /\ release(t, heap, ptr[<<t, s>>], Frame(op, s, g))
  /\ UNCHANGED <<ptr, allocated, freed, failures>>

\* Handles to the same block are left alone.
copy_assign(t, s, g) ==
  /\ ptr[<<t, s>>] # ptr[<<t, g>>] /\ Begin /\ Assign(t, "copy", s, g)

\* s = g is allowed, and drops the handle.
move_assign(t, s, g) == Begin /\ Assign(t, "move", s, g)

reset(t, s) == UNCHANGED ops /\ Assign(t, "reset", s, s)

\* The other handle is read again, now that the old block is released.
Link(t) ==
  /\ \E op \in {"copy", "move", "reset"} : Doing(t, op)
  /\ LET f == Top(t)  b == ptr[<<t, f.g>>] IN
       \/ /\ f.op = "copy" /\ ptr' = [ptr EXCEPT ![<<t, f.h>>] = b]
          /\ heap' = IF b = None THEN heap ELSE [heap EXCEPT ![b].use_count = @ + 1]
       \/ /\ f.op = "move" /\ ptr' = [ptr EXCEPT ![<<t, f.h>>] = b, ![<<t, f.g>>] = None]
          /\ UNCHANGED heap
       \/ /\ f.op = "reset" /\ ptr' = [ptr EXCEPT ![<<t, f.h>>] = None]
          /\ UNCHANGED heap
  /\ Pop(t) /\ UNCHANGED <<allocated, freed, failures, ops>>

Thread(t) ==
  \/ \E s \in Slots, b \in Blocks, kind \in Kinds, custom \in BOOLEAN, length \in Lengths :
       construct(t, s, b, kind, custom, length)
  \/ \E length \in Lengths : allocate_throws(t, length)
  \/ \E g \in Slots \cup {None} : Build(t, g)
  \/ BuildThrows(t) \/ Built(t) \/ ReleaseNext(t) \/ Destroy(t) \/ deallocate(t) \/ Link(t)
  \/ \E s \in Slots : Discard(t, s) \/ reset(t, s)
  \/ \E s, g \in Slots : copy(t, s, g) \/ copy_assign(t, s, g) \/ move_assign(t, s, g)
                         \/ swap(t, s, g)

Next == (\E t \in Threads : Thread(t)) \/ (\E h, g \in Handles : move(h, g))

Spec == Init /\ [][Next]_ownVars

(***************************************************************************)
(* Properties.                                                             *)
(***************************************************************************)
\* A handle between the release of its old block and the assignment.
Stale(h) == \E i \in DOMAIN task[h[1]] :
              task[h[1]][i].op \in {"copy", "move", "reset"} /\ task[h[1]][i].h = h[2]

Owners(b) == {h \in Handles : ptr[h] = b /\ ~Stale(h)}
             \cup {c \in Blocks : heap[c].next = b /\ heap[c].state = "held"}

Frames(b) == {<<t, i>> \in Threads \X (1 .. Cardinality(Blocks) + 1) :
                i \in DOMAIN task[t] /\ task[t][i].block = b}

\* However copies, moves, assignments and releases of several threads
\* interleave, a block's count is the number of handles that own it; a
\* block without an owner is being built, or is being destroyed by exactly
\* one thread, or has been freed once; and no owned block has lost a part
\* (counted_ptr, counted_ptr_val::release).
OwnersCounted ==
  \A b \in Blocks :
    /\ heap[b].state # "freed twice"
    /\ heap[b].state = "held" /\ heap[b].kind = "counted" =>
         heap[b].use_count = Cardinality(Owners(b)) + Cardinality({f \in Frames(b) : task[f[1]][f[2]].op = "build"})
         \/ \E f \in Frames(b) : task[f[1]][f[2]].op = "destroy"
    /\ heap[b].state = "held" => Cardinality(Owners(b)) > 0 \/ Cardinality(Frames(b)) = 1
    /\ Owners(b) # {} => /\ heap[b].state = "held" /\ Frames(b) = {}
                         /\ heap[b].built = Parts(heap[b].kind, heap[b].custom, heap[b].length)

\* Whichever constructor throws, and in every layout, a freed block has had
\* each of its parts destroyed, and the debug allocator balances: what it
\* counts as out is what is held, and what operator new refused.
BytesBalance ==
  /\ \A b \in Blocks : heap[b].state = "freed" => heap[b].built = <<>> /\ heap[b].next = None
  /\ allocated - freed = failures +
       FoldSet(LAMBDA b, n : n + IF heap[b].state = "held" THEN heap[b].t_size ELSE 0, 0, Blocks)
=============================================================================
