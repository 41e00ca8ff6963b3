------------------------------ MODULE RingFifo ------------------------------
(***************************************************************************)
(* The growing ring of concurrent/detail/ring_fifo.hpp.  Producers claim a *)
(* slot by moving head_start, fill it, and publish filled slots in order   *)
(* by moving head_end; a consumer locks the tail while it takes an item; a *)
(* producer that finds the ring full locks head_start, waits until it is   *)
(* alone and moves the published items into a ring twice as large.         *)
(*                                                                         *)
(* One action is one access to a shared word.  r[t] holds the locals of    *)
(* thread t.  Items are their own numbers, in the order of the calls.      *)
(***************************************************************************)
EXTENDS Integers, Sequences, SequencesExt

CONSTANTS
  Producers, Consumers,
  Order,      \* the initial ring has 2^Order slots
  Heads,      \* where the head may be at first
  Adds,       \* bound: calls of add
  Polls       \* bound: calls of poll

VARIABLES
  head_start, head_end, tail, use_count, ring, ring_size,
  r,          \* r[t]: locals of thread t
  adds, polls,          \* calls begun
  claimed,    \* history: items in the order their slots were claimed
  taken,      \* history: items in the order they were consumed
  dropped     \* history: items that a resize left behind

words == <<head_start, head_end, tail, use_count, ring, ring_size>>
past  == <<adds, polls, claimed, taken, dropped>>
vars  == <<words, r, past>>

Threads    == Producers \cup Consumers
lock_value == -1
NoItem     == 0
Idle == [pc |-> "idle", hs |-> 0, he |-> 0, t |-> 0, pos |-> 0, item |-> NoItem,
         after |-> "idle", one |-> FALSE]

\* A ring that has been in use: the head is anywhere, and the last n items
\* that were added have not been taken yet.
ring_fifo(n) ==
  /\ head_start \in Heads /\ head_end = head_start
  /\ tail = (head_start - n) % 2 ^ Order
  /\ use_count = 0
  /\ ring_size = 2 ^ Order
  /\ ring = [i \in 0 .. 2 ^ Order - 1 |->
               LET age == (i - tail) % 2 ^ Order IN IF age < n THEN age + 1 ELSE NoItem]

Init ==
  /\ \E n \in 0 .. 2 ^ Order - 1 : ring_fifo(n) /\ claimed = [i \in 1 .. n |-> i]
  /\ r = [t \in Threads |-> Idle]
  /\ adds = 0 /\ polls = 0
  /\ taken = <<>> /\ dropped = {}

inc_pos(pos) == (pos + 1) % ring_size

At(t, label) == r[t].pc = label
Goto(t, label) == r' = [r EXCEPT ![t].pc = label]

(***************************************************************************)
(* Waiting for the end of a resize, outside of the ring.                   *)
(***************************************************************************)
LeaveRing(t) ==
  /\ At(t, "leave")
  /\ use_count' = use_count - 1
  /\ Goto(t, "unlocked")
  /\ UNCHANGED <<head_start, head_end, tail, ring, ring_size, past>>

\* Blocked on resize_cv while the head is locked, under resize_lock.
wait_for_head_unlock(t) ==
  /\ At(t, "unlocked") /\ head_start # lock_value
  /\ Goto(t, "enter")
  /\ UNCHANGED <<words, past>>

EnterRing(t) ==
  /\ At(t, "enter")
  /\ use_count' = use_count + 1
  /\ Goto(t, r[t].after)
  /\ UNCHANGED <<head_start, head_end, tail, ring, ring_size, past>>

(***************************************************************************)
(* add.                                                                    *)
(***************************************************************************)
add(t) ==
  /\ At(t, "idle") /\ adds < Adds
  /\ adds' = adds + 1
  /\ use_count' = use_count + 1
  /\ r' = [r EXCEPT ![t].pc = "head", ![t].item = 2 ^ Order + adds]
  /\ UNCHANGED <<head_start, head_end, tail, ring, ring_size, polls, claimed, taken, dropped>>

\* acquire_head: load head_start, then the tail once nobody holds it.
LoadHead(t) ==
  /\ At(t, "head")
  /\ r' = [r EXCEPT ![t].pc = "tail", ![t].hs = head_start]
  /\ UNCHANGED <<words, past>>

get_tail(t) ==
  /\ At(t, "tail") /\ tail # lock_value
  /\ r' = [r EXCEPT ![t].after = "head",
                    ![t].pc = IF r[t].hs = lock_value THEN "leave"
                              ELSE IF inc_pos(r[t].hs) = tail THEN "full" ELSE "claim"]
  /\ UNCHANGED <<words, past>>

Claim(t) ==
  /\ At(t, "claim")
  /\ \/ /\ head_start = r[t].hs
        /\ head_start' = inc_pos(r[t].hs)
        /\ r' = [r EXCEPT ![t].pc = "emplace", ![t].pos = r[t].hs]
        /\ claimed' = Append(claimed, r[t].item)
     \/ /\ head_start # r[t].hs
        /\ r' = [r EXCEPT ![t].pc = "tail", ![t].hs = head_start]
        /\ UNCHANGED <<head_start, claimed>>
  /\ UNCHANGED <<head_end, tail, use_count, ring, ring_size, adds, polls, taken, dropped>>

LockHead(t) ==
  /\ At(t, "full")
  /\ \/ /\ head_start = r[t].hs
        /\ head_start' = lock_value
        /\ Goto(t, "resize")
     \/ /\ head_start # r[t].hs
        /\ r' = [r EXCEPT ![t].pc = "tail", ![t].hs = head_start]
        /\ UNCHANGED head_start
  /\ UNCHANGED <<head_end, tail, use_count, ring, ring_size, past>>

Emplace(t) ==
  /\ At(t, "emplace")
  /\ ring' = [ring EXCEPT ![r[t].pos] = r[t].item]
  /\ Goto(t, "end")
  /\ UNCHANGED <<head_start, head_end, tail, use_count, ring_size, past>>

LoadEnd(t) ==
  /\ At(t, "end")
  /\ r' = [r EXCEPT ![t].he = head_end,
                    ![t].pc = IF head_end < r[t].pos THEN "exit"
                              ELSE IF head_end = r[t].pos THEN "publish" ELSE "sweep"]
  /\ UNCHANGED <<words, past>>

\* head_end moves over the own slot ("publish"), then over filled successors.
MoveEnd(t) ==
  /\ At(t, "publish")
  /\ \/ /\ head_end = r[t].he
        /\ head_end' = inc_pos(r[t].he)
        /\ r' = [r EXCEPT ![t].pc = "sweep", ![t].he = inc_pos(r[t].he)]
     \/ /\ head_end # r[t].he
        /\ Goto(t, "exit")
        /\ UNCHANGED head_end
  /\ UNCHANGED <<head_start, tail, use_count, ring, ring_size, past>>

Sweep(t) ==
  /\ At(t, "sweep")
  /\ r' = [r EXCEPT ![t].after = "reload",
                    ![t].pc = IF head_start = lock_value THEN "leave"
                              ELSE IF head_start = r[t].he THEN "exit" ELSE "isset"]
  /\ UNCHANGED <<words, past>>

Reload(t) ==
  /\ At(t, "reload")
  /\ r' = [r EXCEPT ![t].pc = "sweep", ![t].he = head_end]
  /\ UNCHANGED <<words, past>>

IsSet(t) ==
  /\ At(t, "isset")
  /\ Goto(t, IF ring[r[t].he] # NoItem THEN "publish" ELSE "exit")
  /\ UNCHANGED <<words, past>>

Exit(t) ==
  /\ At(t, "exit")
  /\ use_count' = use_count - 1
  /\ r' = [r EXCEPT ![t] = Idle]
  /\ UNCHANGED <<head_start, head_end, tail, ring, ring_size, past>>

(***************************************************************************)
(* resize_ring, alone in the ring: everybody else is outside, or leaves as *)
(* soon as it looks at head_start.  On success the function has no return  *)
(* statement: the head that the caller goes on with is undefined, and is   *)
(* compared with the real one before it is used.                           *)
(***************************************************************************)
Published == [i \in 0 .. ((head_end - tail) % ring_size) - 1 |-> ring[(tail + i) % ring_size]]
Left      == {ring[i] : i \in 0 .. ring_size - 1} \ ({NoItem} \cup {Published[i] : i \in DOMAIN Published})

Grown(n) == [i \in 0 .. ring_size * 2 - 1 |-> IF i < n THEN Published[i] ELSE NoItem]

\* Mutant: the tail is left where it was in the old ring.
resize_ring_Tail(t) ==
  /\ At(t, "resize") /\ use_count = 1
  /\ LET n == (head_end - tail) % ring_size
     IN /\ ring' = Grown(n)
        /\ ring_size' = ring_size * 2
        /\ head_end' = n /\ head_start' = n
  /\ dropped' = dropped \cup Left
  /\ Goto(t, "head")
  /\ UNCHANGED <<tail, use_count, adds, polls, claimed, taken>>

resize_ring(t) ==
  /\ At(t, "resize") /\ use_count = 1
  /\ LET n == (head_end - tail) % ring_size
     IN /\ ring' = Grown(n)
        /\ ring_size' = ring_size * 2
        /\ tail' = 0 /\ head_end' = n /\ head_start' = n
  /\ dropped' = dropped \cup Left
  /\ \E garbage \in {lock_value, 0, head_end'} :
       r' = [r EXCEPT ![t].pc = "tail", ![t].hs = garbage]
  /\ UNCHANGED <<use_count, adds, polls, claimed, taken>>

\* allocate_array throws: the head is unlocked, add leaves with the exception.
resize_ring_throws(t) ==
  /\ At(t, "resize") /\ use_count = 1
  /\ head_start' = head_end
  /\ dropped' = dropped \cup Left
  /\ Goto(t, "exit")
  /\ UNCHANGED <<head_end, tail, use_count, ring, ring_size, adds, polls, claimed, taken>>

(***************************************************************************)
(* poll.                                                                   *)
(***************************************************************************)
poll(t, consume_one) ==
  /\ At(t, "idle") /\ polls < Polls
  /\ polls' = polls + 1
  /\ use_count' = use_count + 1
  /\ r' = [r EXCEPT ![t].pc = "test", ![t].one = consume_one]
  /\ UNCHANGED <<head_start, head_end, tail, ring, ring_size, adds, claimed, taken, dropped>>

TestHead(t) ==
  /\ At(t, "test")
  /\ r' = [r EXCEPT ![t].after = "test",
                    ![t].pc = IF head_start = lock_value THEN "leave" ELSE "bound"]
  /\ UNCHANGED <<words, past>>

LoadBound(t) ==
  /\ At(t, "bound")
  /\ r' = [r EXCEPT ![t].pc = "from", ![t].he = head_end]
  /\ UNCHANGED <<words, past>>

\* Load the tail, or take it from a failed compare-and-swap.
TailLoaded(t) ==
  r' = [r EXCEPT ![t].t = tail,
                 ![t].pc = IF tail = r[t].he THEN "exit"
                           ELSE IF tail = lock_value THEN "from" ELSE "grab"]

LoadTail(t) ==
  /\ At(t, "from")
  /\ TailLoaded(t)
  /\ UNCHANGED <<words, past>>

LockTail(t) ==
  /\ At(t, "grab")
  /\ \/ tail = r[t].t /\ tail' = lock_value /\ Goto(t, "consume")
     \/ tail # r[t].t /\ TailLoaded(t) /\ UNCHANGED tail
  /\ UNCHANGED <<head_start, head_end, use_count, ring, ring_size, past>>

\* The accessor takes the item out of its slot, or refuses it.
Consume(t) ==
  /\ At(t, "consume")
  /\ \/ /\ taken' = Append(taken, ring[r[t].t])
        /\ ring' = [ring EXCEPT ![r[t].t] = NoItem]
        /\ Goto(t, "forward")
     \/ Goto(t, "refused") /\ UNCHANGED <<ring, taken>>
  /\ UNCHANGED <<head_start, head_end, tail, use_count, ring_size, adds, polls, claimed, dropped>>

UnlockTail(t) ==
  /\ \/ /\ At(t, "forward")
        /\ tail' = inc_pos(r[t].t)
        /\ Goto(t, IF r[t].one THEN "exit" ELSE "from")
     \/ At(t, "refused") /\ tail' = r[t].t /\ Goto(t, "exit")
  /\ UNCHANGED <<head_start, head_end, use_count, ring, ring_size, past>>

Begin(t) ==
  \/ t \in Producers /\ add(t)
  \/ t \in Consumers /\ \E one \in BOOLEAN : poll(t, one)

Step(t) ==
  \/ LeaveRing(t) \/ wait_for_head_unlock(t) \/ EnterRing(t)
  \/ LoadHead(t) \/ get_tail(t) \/ Claim(t) \/ LockHead(t) \/ Emplace(t)
  \/ LoadEnd(t) \/ MoveEnd(t) \/ Sweep(t) \/ Reload(t) \/ IsSet(t) \/ Exit(t)
  \/ resize_ring(t) \/ resize_ring_throws(t)
  \/ TestHead(t) \/ LoadBound(t) \/ LoadTail(t) \/ LockTail(t) \/ Consume(t) \/ UnlockTail(t)

Done == adds = Adds /\ polls = Polls /\ \A t \in Threads : At(t, "idle")

\* Every call has returned: the only state in which nothing moves.
Finished == Done /\ UNCHANGED vars

Next == Finished \/ \E t \in Threads : Begin(t) \/ Step(t)

Spec == Init /\ [][Next]_vars

(***************************************************************************)
(* Properties.                                                             *)
(***************************************************************************)

\* Items come out in the order in which their slots were claimed, each once
\* and none skipped, except those that a resize left behind.
RingOrder ==
  IsPrefix(taken, SelectSeq(claimed, LAMBDA i : i \notin dropped))

\* Producers that meet out of order hand the publication over to one another:
\* when no add is under way, every claimed slot has been published.
NothingUnpublished ==
  (\A t \in Producers : At(t, "idle")) => head_end = head_start
=============================================================================
