# A TLA+ development of ucpf

ucpf ("Useful Components for the Prosperous Future") is a collection of C++
libraries: synchronisation and containers (`yesod`, `yesod.old`), asynchronous
input and output (`zivug`), conversion and serialisation (`mina`), ordered
arrays (`pardes`), formatting (`holam`), logging (`rasham`) and some utilities.
This directory models what in them has state worth arguing about, checks the
models with TLC, and proves the most important facts about the
synchronisation primitives with TLAPS.

## The system

| part | source | state | hard because | modules |
| --- | --- | --- | --- | --- |
| Tiered phaser | `yesod/yesod/concurrent/phaser.hpp` | one 64-bit word per phaser (termination bit, 31-bit phase, 16-bit registered and pending counts), `self_lock`, the parent | every operation is a compare-and-swap loop; children copy the root's phase lazily; the last arriver climbs the tree | `Barrier`, `Phaser` |
| Phaser wait queues | `yesod/alternative/…/phaser.hpp` | two lock-free stacks of wait nodes, flags per node | a node has two owners; nodes come back after spurious wake-ups | `PhaserWait` |
| Thread parking and lifetime | `yesod/…/thread.hpp` | flag bits, `park_lock`, `park_cv`, a use count | flags are looked at in and out of the lock; timeouts and interrupts race releases; handles, thread and exit handler share one object | `ThreadPark`, `ThreadLife` |
| Stamped lock | `yesod/…/stamped_lock.hpp` | one word (version, exclusive bit, 7-bit shared count), an overflow counter | the counter's lock is a value of the word; stamps go stale | `StampedLock` |
| Ring FIFO | `yesod/…/detail/ring_fifo.hpp` | three positions, a use count, the ring | producers, consumers, and a resize that must be alone | `RingFifo` |
| Futex mutexes | `yesod.old/sysdeps/linux/yesod` | a word of two bits, a count of readers | the busy bit is cleared after the lock is let go | `FutexMutex` |
| RCU | `yesod.old/cruft/yesod/rcu.hpp` | a counter per reader, a stack of updaters | updaters share one grace period | `Rcu` |
| Scheduler, dispatcher, splice actors | `zivug/zivug/io`, `zivug/sysdeps/linux/zivug/io` | lists of endpoints, the epoll set, a pipe, tokens | handlers release and resume endpoints while the batch that names them is handled | `RrScheduler`, `SpliceOutput` |
| Sockets | `zivug/sysdeps/linux`, `zivug/src/linux` | descriptors | any call may fail, and some are several calls | `Sockets` |
| Addresses, symbol tables and their generator | `zivug/zivug/detail`, `zivug/src/*/symbols`, `utils/nomenclate.cpp` | text automata, double-array tries | boundaries; cells that move | `Addresses`, `SymbolMaps`, `Nomenclate` |
| Ropes, string maps, sparse vectors, bit sets | `yesod.old/yesod/detail` | trees, a trie, packed indexes, words | cached paths, relocation, growth by levels | `Rope`, `StringMap`, `SparseVector`, `Bits` |
| Arrays in place | `pardes/pardes` | raw and constructed cells | the direction of a move | `BoundedArray` |
| String paths, bitmaps | `yesod/yesod/string_path.hpp`, `…/detail` | a string and a bitmap, inside the object or in a block | the same value in two places, sizes next to a word | `StringPath`, `Bits` |
| Allocation and counted pointers | `yesod/…/detail/allocat*`, `yesod.old/…/counted_ptr.hpp` | blocks built part by part | constructors throw in the middle; threads share | `Ownership` |
| Iterators and ranges | `yesod*/yesod/iterator` | cursors, chains of nodes | empty parts, nodes freed behind an iterator | `Ranges`, `InducedRange` |
| Type sequences | `yesod.old/yesod/mpl` | types | masks over insertions | `Mpl`, `MplSequences`, `MplAlgorithms` |
| Numbers and text | `mina/mina/detail` | limbs, digits, error bounds | carries, rounding next to a half | `BigInt`, `AsciiIntegers`, `AsciiFloats` |
| Packing, text store | `mina/mina/mbp`, `mina/mina/text_store_adaptor.hpp` | bytes, a database of keys | a value has many encodings; keys are generated | `Mbp`, `TextStore` |
| Formatting (holam), collectors and coders, klipah, logging (rasham), scripting shell (utils) | | | | not modelled, see the end |

How they interact: a phaser's waiter parks itself with
`this_thread::get().park(callback)` and whoever advances the phase unparks it;
the header in `yesod/yesod` declares the wait queue and leaves it undefined, the
one in `yesod/alternative` defines it. `shared_mutex` is built from two
`timed_mutex`es. The I/O scheduler is single threaded and its actors call back
into it; the splice actors know one another only by tokens. The symbol tables
are written by `nomenclate` and looked into by the socket options and address
families. `string_path` keeps its components in a `bitmap`; floating point
conversion falls back to `bigint`; the text store converts numbers with the
integer routines.

What can go wrong in each part, with its line and the properties that would
show it, is listed in `PROJECT.json` ("hazards").

## Conventions

* The state of the source is in VARIABLES of the same name where it has one.
  In the concurrent modules one action is one access to shared memory with the
  thread-local code up to the next access, and `pc[t]` (a field `pc` of the
  thread's locals in some modules) names the access made next. In the
  sequential modules one action is one call of an operation, with all it does.
* Variables named as history (`held`, `claimed`, `ref`, `dict`, …) record what
  the clients did; no guard of the code depends on them.
* A variable such as `broken`, `ub` or `good` says that the program has done
  something whose outcome the language leaves open; behaviour after it is not
  modelled. A property says either that it never happens, or what holds
  until it does.
* Some operations of the sequential parts go wrong for particular arguments
  (see "Noticed in the code"). Such a call is an enabled action whose outcome is
  marked `Unknown`, or the property names the arguments that it excludes.
* Operators named `X_Something` next to an `X` are mutants: a plausible error in
  `X`. Nothing uses them but the mutation runs.

## Modules

### Phaser

`Barrier` is the abstract specification: a cyclic barrier with a changing set of
parties, without any tree. `Phaser` is the tree of words: `state[p]` is the word
of phaser `p` as a record, `lock[p]` its `self_lock`, `snap[t][p]` the local `s`
of thread `t`'s frame in `p`, `copy[t]` the `s` of `reconcile_state`, `out[t]`
`phase_out` or the phase of the root that `reconcile_state` has loaded, `caller`
the call stack up the tree. `Load`, `ReconcileLoad`, `ReconcileCas`, `Cas`,
`AdvanceCas`, `Lock`, `Commit`, `CommitLoad`, `EmptyCas` are the accesses,
`Resume` is the return from a parent; `arrive`, `register_some` and so on begin
an operation, `Complete` ends it. The clients are those of the tests `phaser_3`
and `phaser_4`: they arrive once per party and phase and leave only by arriving.
`held`, `left` and `touched` record who is registered and who has arrived.
`Await` is the contract of the missing `wait_queue_base::await_advance`: it
returns when the root's phase differs from the one waited for. `MCPhaser` has
the trees and bounds, `PhaserProofs` the theorems.

`PhaserWait` is that wait queue as `yesod/alternative` defines it: `qhead` are
the even and the odd stack, `node[n]` the fields of a wait node (with `live`, its
memory), `policy` the `RELEASE_POLICY`. A waiter is created, enqueued (`push`
by compare-and-swap, `FLAG_QUEUED` afterwards), looks at the phase again, parks
with or without a timeout or interrupts, dequeues and destroys its node;
`advance` and `force_termination` release a queue, and so does every waiter
at the beginning and end of its wait under the cooperative policy. Parking is
reduced to what `ThreadPark` shows of it: the callback runs under `park_lock`,
and an unpark takes that lock before it notifies. `PhaserWaitProofs` has its
theorems.

### Threads

`ThreadPark`: `thread_data`'s flags, `park_lock` and the wait set of `park_cv`.
The owner runs the loop of `internal_await_advance` around `park` or `park_for`,
with or without the callback; any number of others establish the condition
and unpark, unpark for no reason, or interrupt. `ThreadLife`: the use count of
one `thread_data` over its creation, `child_attach`, the transient handles of
`this_thread::get`, moves, `join`, `detach` and `thread_exit_handler`.

### Locks and queues

`StampedLock`: `Decide` says what an operation does with the word it has
loaded; `Load`, `Cas`, `Store`, `LockOverflow`, `ChangeOverflow` and `Restore`
are the accesses. `mode`, `stamp`, `since` and `writes` record what the clients
hold. `RingFifo`: `add` claims a slot at `head_start`, fills it, and publishes
through `head_end` (handing the publication over when an earlier slot is not
yet full), `poll` locks `tail`, a full ring is resized by a producer that waits
until `use_count` is its own. `FutexMutex`: the two bits of every
`timed_mutex`, `sleeping[m]` the threads in FUTEX_WAIT, and `shared_mutex` as a
program of calls of its two mutexes (`todo`). `Rcu`: `rc[t]` is the counter of
an actor, `synchronize` pushes itself on `w_stack`, the first becomes the leader
of a grace period, waits for every attached reader (`left`, `seen`) and wakes
its group.

### Input and output

`RrScheduler` has the operations of the scheduler on one record (lists of
endpoints, what each does next, what epoll watches); `SpliceOutput` runs the
program `cruft/hose.cpp` on them: a connector, the writer and the reader of the
pipe, and the actor that ends a failed connection. One action is one call of a
handler. The results of `splice` and the reports of epoll are free within what
the fill of the pipe and the armed events allow. `Sockets` has the descriptor
with its moves and its closing, the registry of families, and `bind`,
`connect`, `listen`, `accept` and the options, with a kernel that may refuse any
call at any step. `Addresses` has the readers of IPv4 and IPv6 addresses, one
character at a time, and the writers. `SymbolMaps` holds five of the generated
tables cell by cell and the lookup in them, in one piece or in several.
`Nomenclate` is their generator: `fm` is the double array under construction,
`AppendName` inserts one name with all the relocations it causes, `Finish`
compacts the tails and validates; `unescape_c` reads the escapes of the input.

### Containers, handles, ranges, types

`Rope`, `StringMap`, `SparseVector`, `Bits`, `BoundedArray`, `StringPath`: one
action per operation of the container, `ref`, `text` or `dict` the plain
sequence, set or function it stands for. `Ownership`: blocks of memory that are
built, shared and torn down part by part; `task[t]` is the stack of calls thread
`t` is in, so that other threads act between the release of an old block
and the assignment of the new one, and between two destructors. `Ranges`: a
cursor of each kind over the same chunks, moved together, against the plain
position `at`. `InducedRange`: the chain of nodes behind forward iterators.
`MplSequences` and `MplAlgorithms` evaluate the type sequences as overload
resolution and specialisation do, a type being a value; `Mpl` has the arithmetic
of the integral constants and runs programs over all of them.

### Conversion and serialisation

`BigInt`: two vectors of limbs through all operations, beside the numbers they
stand for. `AsciiIntegers` and `AsciiFloats`: a text is typed character by
character (`Type`) and read after each, or a value is written (`Write`) and read
back. The widths of limbs, words, significand and exponent and the table of
powers of ten are parameters; the table is computed as its generator does.
`Mbp`: `Pack`, tuples and padding write bytes to `buf`, and every message is
unpacked and expanded. `TextStore`: objects of one type are saved over one
another, restored into new and into old objects.

### Composition

The parts behind `MCWaits`, `MCIo`, `MCContainers` and `MCCodecs` share nothing
with one another: each of these modules runs several component modules side by
side as disjoint parts of one state space (`part` says which, `c1`, `c2`, … are
the variables of the part), each with its own Init and Next, so that a group
is checked with one configuration. The properties of a group are conjunctions of
the properties of its components, each guarded by `part`. Where parts do interact
they are composed in the component modules: `SpliceOutput` over `RrScheduler`,
`Nomenclate` and `SymbolMaps`, `Mpl` over its two libraries, `PhaserWait`
over the contract of `ThreadPark`, `Phaser` over the contract of the wait queue.

## Runs

| run | shows | distinct states |
| --- | --- | --- |
| `phaser_pair` | a root with a child, one party at the root that also queries, two threads that register, arrive, wait and leave at the child; phases 7, 0, 1, … so that the wrap happens. All state properties, and that the tree implements `Barrier` | 1.47 million |
| `phaser_chain` | root, middle and leaf, all empty at first: first registrations and last deregistrations travel two levels | 253 thousand |
| `phaser_terminate` | the default `on_advance`, `force_termination` at any moment, spurious failures of `compare_exchange_weak`, a two-bit count so that a registration is refused | 776 thousand |
| `phaser_live` | every operation returns | 119 thousand |
| `thread_park` | no lost wake-up; an established condition is seen; an interrupted owner does not stay blocked | 32 thousand |
| `stamped_lock` | exclusion, counting across the overflow, fresh stamps, progress, of all operations but `unlock_shared` | 219 thousand |
| `stamped_lock_shared` | violation: `unlock_shared` drops the version | 682 |
| `waits` | wait nodes are owned and waiters not stranded; no item of the ring lost or left unpublished but by a resize; `shared_mutex` excludes and forgets no sleeper; nothing freed in use (`thread_data`, RCU versions) | 2.66 million |
| `io` | the pipe never stands still and no endpoint is used after it is destroyed; descriptors are closed once; addresses and symbols read back; the generator finds every name | 596 thousand |
| `containers` | every container, handle, range and type sequence against its plain value | 602 thousand |
| `codecs` | what is written is read back, numbers exactly or to the nearest | 391 thousand |
| `mbp_unsigned` | violation: small unsigned fields are read back with a bit inverted | 1222 |

### Bounds

* Phaser runs. `Fuel` bounds the operations each thread begins; leaving and
  waiting after an arrival are free, so that no thread is stuck inside a phase.
  Two or three operations for each of two or three threads reach every pair of
  racing accesses, an advance with a stale child, and a child that becomes empty
  and is used again. `PhaseSize` is 8 for 2^31 and `CountSize` 4 or 8 for 2^16; a
  thread is never more than one phase behind, and the runs begin at phase 7.
* Stamped lock. The count is two bits wide: two holders fill it and the third
  goes to the overflow counter, as the 127th does in the code. `Versions` is 4 and
  `MaxWrites` is below it, because a stamp kept over 2^56 writes does
  validate again and the code accepts that.
* `thread_park`: `Calls` bounds the calls of each unparking thread.
* `waits`. Two waiters (three threads with the advancing one) with two nodes
  and two waits: a node is destroyed, reused and found again by a late releaser.
  Three handles and two calls of `get` for thread data. A ring of two cells, two
  producers, a consumer and three items: it fills, grows once, and a claim taken
  before the resize is published after it. Three lockers with two calls each,
  so that a sleeper meets two others; three RCU actors, so that a leader, one
  who joins its group and a reader meet.
* `io`. A pipe of three blocks is empty, partly full and full; three sockets
  over two descriptors, so that one is refused and a number is used again;
  six calls reach a connection with a filter that refuses it. Octets have 4 bits,
  so that all their limits are typed; IPv6 texts continue from seeds next to the
  limit of eight groups. Up to four names from eleven that begin, continue and
  cross one another make cells move and tails split twice over; lines of three
  pieces set any two escapes side by side.
* `containers`. Ropes of up to six values cut by two edits, with a cache of two
  nodes, reach every branch of the balancing and of the iterator's cache;
  five changes of a trie over eight keys relocate a node with grandchildren and
  reuse its pairs; the vectors get positions on both sides of each level; two
  threads share two blocks with one nested in the other; chunks of up to three
  items include empty ones.
* `codecs`. Limbs of 4 bits make every number have several; integers of 8 bits and
  words of 7 put all limits within five characters; the float format has a
  significand of 4 bits and exponents of both signs, so that denormals, ties and
  the overflow are all typed; messages have two fields around every width.

`CHECK_DEADLOCK FALSE` stands in the four group configurations because a part
ends when its bound on operations is reached; that the pipe itself never
stands still is an invariant (`PipeSound`).

### Fairness

Weak fairness of every thread's own steps: the operating system schedules every
thread. `phaser_live` also assumes that a registered party goes on
(`Participate`): a barrier waits for its parties by design. In `ThreadPark` no
call, timeout or spurious wake-up is owed to anybody. The retry loops are
lock free, not wait free; with the finite operations of the bound every loop
loses finitely often, and that is what the liveness runs show, without spurious
failures of compare-and-swap: one that always fails is not something the
hardware does. The groups have safety properties only: what must not be
forgotten is stated there as an invariant (some unpark, wake-up, armed event or
publication is under way), which needs no fairness.

### Findings

* `unlock_shared` (`stamped_lock.hpp:321`) stores `c - 1`, the new shared count
  without the version, where its sibling `try_unlock_shared` stores `s - 1`. With
  two shared holders the first release invalidates the other's stamp, and the
  second holder gets `logic_error("lock not shared")`. Run
  `stamped_lock_shared`; `stamped_lock` therefore leaves `unlock_shared` out.
* An unsigned number below 32 is packed in its smallest form and read back with
  bit 4 inverted (`mbp/unpack.hpp:106` and `expand.hpp:252` take five bits of
  which one belongs to the code), where `test/mbp.cpp:98` expects a structure
  with an unsigned field to compare equal. Run `mbp_unsigned`; `codecs` checks
  all other fields.

## Proofs

The theorems hold for every value of the constants that their assumptions
allow: any number of threads, any width, any fuel. Each proof has the same
outline: an inductive invariant that contains the property, one step per
action of Next, and the temporal step last. TLC searched small
instances for states that violate an inductive invariant before it was proved.

| properties a run checks | theorem | assumptions beyond those of the module |
| --- | --- | --- |
| `TypeOK`, `WordShape`, `TerminatedFrozen`, `PhaseSteps`, `AdvanceOwned` of `Phaser` | `TypeCorrect`, `ShapeCorrect`, `FrozenCorrect`, `StepsCorrect`, `AdvanceCorrect` (`PhaserProofs`) | none: any tree |
| `Accounting`, `PartyPinsPhase`, `ReturnedPhases`, `ImplementsBarrier` of `Phaser` | `RootAccounting`, `RootPinsPhase`, `RootReturnedPhases`, `RootIsBarrier` (`PhaserProofs`) | `Phasers = {Root}`, finitely many threads |
| the same and `ChildLag` of `Phaser` | `TreeAccounting`, `TreePinsPhase`, `TreeReturnedPhases`, `TreeIsBarrier`, `TreeLag` (`PhaserProofs`) | `Tree`: finitely many threads and phasers, a tree below the root, no registration of a child refused by its parent; `Unwrapped`: the root's phase has not wrapped round |
| `TypeOK`, `NoLostWakeup` of `ThreadPark` | `ParkTypeCorrect`, `ParkLosesNoWakeup` (`ThreadParkProofs`) | none |
| `Exclusion`, `SharedCount`, `StampsFresh` of `StampedLock` | `LockExcludes`, `LockCounts`, `LockStampsFresh` (`StampedLockProofs`) | no call of `unlock_shared`, finitely many threads |
| `NodesOwned`, `NobodyStranded` of `MCWaits` | `NodesOwnedHolds`, `NobodyStrandedHolds` (`WaitsProofs`, from `PhaserWaitProofs`) | the marks for "no node" and "locked" are neither nodes nor waiters; the advancer does not wait |
| `FreedUnused` of `MCWaits` | `FreedUnusedHolds` (`WaitsProofs`, from `ThreadLifeProofs` and `RcuProofs`) | finitely many handles; `NoActor` is no actor |
| `FutexSound` of `MCWaits` | `FutexSoundHolds` (`WaitsProofs`, from `FutexMutexProofs`) | finitely many threads |

The assumptions are about names (a mark is not one of the things it stands
apart from) and finiteness, but for these: `unlock_shared` is the finding above;
`Phasers = {Root}`, `Tree` and `Unwrapped` are explained below.

Every leaf of the proofs is small: each is proved with a tenth of the time that
tlapm allows the provers, so a slower machine proves them too.

### The arguments

* `TypeCorrect`, `ShapeCorrect`, `FrozenCorrect`, `StepsCorrect`: `TypeOK` is
  not inductive: an action may subtract 1 from a pending count, and only the
  snapshot it was taken from says that there is something to subtract. `IInv`
  adds, for every thread, that each local word is well formed, that a thread
  about to swap holds a snapshot for which its operation is legal (`Fit`,
  `CanCas`), that the owner of an advance holds a complete word of the root, and
  that the steps only a child takes are taken below the root. A compare-and-swap
  that succeeds finds exactly that snapshot in memory, so the facts about the
  snapshot are facts about the word. `FrozenCorrect` and `StepsCorrect` are
  action properties from the same invariant.
* `AdvanceCorrect`: on top of `IInv`, whoever makes the root's pending count 0
  is the only owner of the advance, and no other action but a termination
  changes a root with nobody pending.
* A phaser without children: `FlatInv` says at every point of an operation what
  its client has registered, what of it has not arrived, and which phase it was
  told (`Follows`), and that the word counts the parties of all threads together
  (`Counted`). A sum over threads is the cardinality of a set of pairs
  (`Parties`), so that the finite-set theorems of the library do the arithmetic.
  An advance needs a word without pending parties, hence no thread with a party
  that has not arrived, hence nobody whose phase it would take away. In the
  refinement the barrier's phase and termination are those of the root's word, its
  parties `held` and `left`; each compare-and-swap on the word is one barrier
  step, everything else stutters.
  The root never reconciles, so here the phase may wrap round as often as it likes.
* A tree of phasers (`TreeInvariance`). A thread that works for its child further up
  leaves traces in several words, so the invariant `TreeInv` is about claims. The
  frames of a thread form a path from its home up to the phaser it is in
  (`Place`); in a frame below, it holds `self_lock` of an empty child (`LockHeld`),
  has registered a child that has no parties yet (`Entering`), or has taken the
  last pending party out of a child (`Passed`) and has still to arrive for it
  above (`ArrivesFor`). `Alone` and `Locks` say that nobody else has that claim,
  and `Finish` that such a word stays until the phase ends. `Due` is what a phaser
  has still to see, in the phase of the root, whatever phase its own word
  shows, and `Books` counts: a word's parties are its threads' parties and the
  registered children (`Regd`), what is due is what its threads have left and the
  children that owe an arrival (`Owing`), a claim being counted with the
  child. `Lags` is `ChildLag`, `Dated` says that nothing remembered is ahead of
  the root, and `Keeps` what the client of each thread believes.
  A step that loads something keeps all claims (`Calm`); an arrival or a
  registration takes one from a count and moves a claim, so that the books
  balance at the phaser and at nobody else's (`ArriveSets`, `JoinSets`); a
  reconciliation changes a word but not what is due. When nobody is pending at the
  root, nothing is due anywhere: a child that owed something would have a parent
  that does, and so on up to the root (`AllDone`, by the library's theorem on
  least elements, as the depth of a phaser is bounded). Then the advance may
  renew all parties, whose words are thereby one phase behind (`Opens`).
  In the refinement an arrival or a registration is the barrier's at the thread's
  home and stutters further up; the advance is the one of `AdvanceCorrect`, which
  says that its compare-and-swap succeeds unless a termination was faster.
  Both hypotheses are needed. Without `Unwrapped` a thread that stalls in
  `reconcile_state` while the root goes through all its phases finds the word it
  remembers and resets a child that is up to date: TLC shows that with the tree
  of `phaser_pair` and `PhaseSize = 2` (`ChildLag` is violated). The code has 2^31
  phases; the theorems cover everything up to that, and the runs, which begin at
  the last phase, go on over the wrap. Without `Roomy` (in `Tree`) a parent whose count
  is full refuses the child, `do_register` ignores it, and the child's parties
  are in nobody's books; `Roomy` says that all who may register with a phaser that
  has children, threads and children together, are fewer than 2^16.
* `ParkTypeCorrect`, `ParkLosesNoWakeup`: `PInv` adds `Promise` to `TypeOK`: from
  the second look at the flags to the wait the owner holds `park_lock`, so a
  release, a condition or an interrupt that it has not seen still has its
  `unpark` ahead.
* `LockTypeCorrect`, `LockExcludes`, `LockCounts`, `LockStampsFresh`: `LInv`
  conjoins, beside the types and the well-formedness of each thread's locals
  (`Local`), that the all-ones count has one owner who knows how many sharers there
  are (`Owned`); that the count of the word and the overflow counter together are
  the number of shared holders, and the exclusive bit means one exclusive holder
  (`Counted`); and that the version is the number of finished exclusive
  acquisitions, with the values skipped at the wrap taken into account
  (`Versioned`), from which a stamp that validates has seen no writer.
* `NodesStayOwned` (`PhaserWaitProofs`). `NInv` holds until an access goes wrong
  (`broken`). It says where every thread is and what its locals are there
  (`Stage`), that a node belongs to one waiter from "loop" to "free" (`Owner`),
  that a locked head belongs to the one thread that reads the successor
  (`Locked`), that the stacks and what each thread has taken off them are
  chains without repetition and without a common node (`Chains`, `Apart`), and
  how the flags of a node tell where it is (`Flags`). The chain from a
  pointer is the least set closed under `next` (`From`, and `Reach` in the
  model), so that facts about chains need no induction: a chain that keeps its
  successors is the same chain (`FromFrame`), and one step takes a stack
  in hand (`Taken`), splits its head off (`Split`, `Read`) or puts a node in
  front (`Pushed`). An owner destroys its node only when `FLAG_QUEUED` is
  not set, and by `Flags` a node in a chain has the flag unless its owner is
  just about to set it; a releaser destroys a node only when its owner has left.
* `NobodyStaysStranded` (`PhaserWaitProofs`). `NobodyStranded` is not inductive: it
  speaks of a waiter that sleeps after its phase is over, but whether it is safe is
  decided when it goes to sleep. `Sleeper` says of every waiter from the push
  on that its node is on the stack of its phase, in hand, or its unpark under
  way, and, once its phase is over, that a thread will come to that stack
  (`Comes`). The waiter looks at the phase after it has pushed its node; if it finds
  the phase unchanged the advance is still to come and releases its stack, and the
  look is under `park_lock`, so no unpark falls between it and the sleep.
* `FreedUnusedHolds`. For `thread_data` `Counts` says that the use count is the
  number of non-empty handles, plus one from `child_attach` to the end of the
  exit handler. For rcu `RInv` relates the counters to the read sections
  (`Readers`), each updater to the group that will wake it (`Grouped`), and the
  versions that readers still hold to the phases of the leader
  (`GraceUnderWay`, `GraceOver`).
* `FutexSoundHolds`. `MInv` lists what is left of an operation at each point
  (`Programs`, `Shape`), who has each of the two inner mutexes (`SelfHeld`,
  `WriterHeld`: the second passes from the first reader to the last one), that
  `reader_count` is the number of readers and the first one is alone until it
  has the second mutex (`Readers`); and that while a thread sleeps the busy bit is
  set or somebody is on the way to set it or to wake, and the mutex is locked
  or somebody is on that way or in `unlock` (`Sleepers`). The last two together
  are inductive, neither is alone.

`WaitsProofs` carries the results of the components over to `MCWaits`: a part of
its state space is the component with `c1`, `c2`, … as its variables, the
invariant of the component holds of its part, and the other parts leave it alone.

### Only model-checked

* The phaser in a tree once its phase has wrapped round, for the reason above.
* `RingSound`: the order of items is a filtered sequence (`SelectSeq`), what
  filtering yields for every input is an induction over data; and positions
  without a version make it true only up to a full turn of the ring.
* `PipeSound`, which uses ENABLED, and the liveness properties: the prover does
  not treat them.
* The other properties of `io`, `containers` and `codecs`: the modules compute
  what they state by recursion over trees, tries, texts and limbs, which is
  induction over data again.

## Noticed in the code

What the translation met and the models take as it is. Where an item is marked
with a module, the property of that module excludes exactly the case.

* Phaser: a first registration with a child ignores the error of a full parent
  (`phaser.hpp:758`; the instances stay below that limit). `~phaser` of a child
  calls `force_termination`, which ends the whole tree.
* Alternative phaser (`PhaserWait`): a late `unpark` of an earlier wait lets `park`
  return with the node still queued; it is pushed again and becomes its own
  successor. A releaser may use a node, or a thread handle, that its owner has destroyed,
  and a node popped before `FLAG_QUEUED` was set is never destroyed.
* `thread_data` (`ThreadLife`): `detach` before `child_attach` frees the data
  the thread is about to use; a constructor that fails to start the thread leaks
  it; the seed loop does not end if the first seed is 0 (`thread.hpp:259`).
* `ring_fifo` (`RingFifo`): positions carry no version, so that a stale
  compare-and-swap can succeed after a full turn (the run adds fewer items than a
  turn takes); two consumers may use a stale `head_end` (one consumer in the run); a resize
  drops items stored but not yet published; `resize_ring` returns nothing on success.
* Stamped lock: the blocking operations do not compile once instantiated, wait
  nodes are never created, `release_head` is empty.
* RCU: `!r.state.load() & TEARDOWN` negates before it masks; a waiter's `state` is not
  initialised; `wait_for_readers` spins in its inner loop.
* Scheduler and splice: end of file with an empty pipe leaves the writer
  waiting; `splice_input_actor` does not compile; `imbue` destroys released
  endpoints in the middle of a batch.
* Sockets: an IPv6 address parsed from text has no `sin6_family`; ports are
  printed in network order; an unknown protocol throws `system_error(0)`; a filter
  that throws leaks the accepted descriptor; a scope without `]` is read past its end.
* Addresses: the IPv4 reader takes a fifth part, a trailing dot and the letter a as a
  decimal digit, and wraps; the IPv6 reader takes a trailing single colon, with a
  group never set.
* Generator (`Nomenclate`): with a character code of 2 or less in the file `relocate`
  looks at too few children and names get lost, which the validation then
  refuses; an empty file takes the first element of an empty set.
  `unescape_c` encodes U+0800 to U+0FFF in two bytes, loses an octal escape of
  fewer than three digits before another character, and refuses a line that ends
  in an octal or hexadecimal escape.
* Rope (`Rope`): an iterator's copy points into the buffer of its source; `empty()`
  is inverted; `erase(pos)` erases pos + 1 values; `compare` and `str` fail on
  a null rope; several members do not compile.
* String map (`StringMap`): looking up an absent key may compare with a pair
  never set; `erase_prefix` does not compile.
* Sparse vectors (`SparseVector`): `ptr_at` ignores the bits of a position above the
  height; `for_each` skips with a first position; `find_vacant` is wrong on tall trees.
* Bits (`Bits`): range set and reset compare a position with a mask; traversals
  from the tail, unaligned searches and unaligned copies of whole words are wrong;
  the one-word `for_each_zero` does not end.
* Arrays (`BoundedArray`): erasing moves the items behind the gap in the wrong direction
  when there are more of them than the gap is wide; `move_append` leaves the
  size; `swap` and the moving assignment do not compile; self-assignment empties the array;
  inserting a reference to an own item reads its neighbour. B-tree: begin and end go one level too deep.
* String paths (`StringPath`): a trailing separator in a string of a multiple of
  eight characters marks the first one; `a/` differs from `a`; `advance` forwards stops
  a character early; `tail` asks for a negative size; a failed allocation
  dereferences null.
* Counted pointers (`Ownership`): assigning from a handle inside the value being
  released uses it after its end; a self-move drops the value; `operator==` calls
  `get()` on null; the debug allocator counts bytes before `new` throws.
* Ranges (`Ranges`, `InducedRange`): the end of a `seq_range` has no distance; going
  back onto the first item of a later chunk; a joined range does not step back
  from its end; a node reached by `++` is not counted.
* Type sequences (`Mpl`): a key inserted, erased and inserted again is visited
  twice; a map that gets a present key shows the old value after an erase.
* Numbers (`BigInt`, `AsciiIntegers`, `AsciiFloats`): subtracting to zero reads
  the last limb of an empty vector; binary literals are refused; a sign alone reads
  as 0 and `0e99` as infinity; the carry of rounding a hexadecimal number
  does not raise its exponent; the lower boundary of a power of two is not
  narrowed (`float.hpp:94`); 633 of the 1253 table entries are one unit low.
* MBP (`Mbp`): an empty sequence writes nothing, so the next field is taken for
  it; a float is accepted for an unsigned type; negative 64-bit numbers shift an int by 32 or more.
* Text store (`TextStore`): vectors whose elements store no keys, or more than ten
  composite ones, lose elements; keys of a longer old vector show through; restoring
  appends to a list; a failed `gdbm_open` is not looked at.

## What is not modelled, and why

* Phaser: `await_advance_interruptibly` and `await_advance_for` of the first header
  (their wait queue is undefined there; `PhaserWait` has them), `register_some(0)`,
  construction and destruction of phasers while others use the tree.
* Blocking operations of the stamped lock, `splice_input_actor`, `flat_map`,
  `dynamic_bitset`, `array_helper`, `timed_mutex::try_lock_until`, `erase_prefix`:
  they do not compile as they stand.
* `waitable_mutex`, `event_variable`, `try_lock` of the futex mutexes: simpler uses of
  the words that are modelled.
* Memory orders: the modelled accesses are sequentially consistent.
* `paged_storage`: `pos_to_locus` reads an element of its path that was
  never set, so what it computes is not determined. The B-tree has searches
  only, over nodes that nothing creates.
* The widest integers (64 and 128 bits) of MBP, the bits of floats there, and
  NaN payloads.
* The address families other than AF_INET and AF_INET6, which only parse and
  print; the symbol tables beyond the five in `SymbolMaps`, which have the same
  lookup code.
* holam: its format strings are parsed by the compiler, and its conversions
  are earlier forms of those in `mina`. Two things were noticed there:
  `format_integral` steps `emit_digits` in the wrong direction, and its wide
  integers are unfinished.
* `lambda`, `bind` and `quote` of the type library: they rearrange templates and hold no values.
* `yesod.old` coders and collectors push bytes to a sink; klipah is a sketch, partly written;
  the dispatcher of rasham is kept under `cruft/old` and includes headers that are
  gone, and what is built of rasham are macros; `utils/ubb` binds third-party
  libraries to an interpreter; vendored headers, build files and test drivers.
