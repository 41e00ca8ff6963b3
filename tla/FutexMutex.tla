----------------------------- MODULE FutexMutex -----------------------------
(***************************************************************************)
(* timed_mutex and shared_mutex of yesod.old on Linux futexes.  A          *)
(* timed_mutex is a word with the bits locked and busy; shared_mutex uses  *)
(* two of them, self_lock in front of writer_lock, and a count of readers. *)
(*                                                                         *)
(* One action is one access to a word.  The calls of a timed_mutex that a  *)
(* shared_mutex operation still has to make are in todo[t].  Spinning is   *)
(* its outcome: the lock is taken, or the spin is over.                    *)
(***************************************************************************)
EXTENDS Integers, Sequences, FiniteSets

CONSTANTS
  Threads,
  Calls       \* bound: operations each thread begins

Locks == {"self", "writer"}

VARIABLES
  locked, busy,      \* locked[m], busy[m]: the bits of a word
  sleeping,          \* sleeping[m]: threads in FUTEX_WAIT
  reader_count,
  pc, todo,          \* pc[t]: next access; todo[t]: calls still to make
  mode,              \* history: mode[t] is what t holds
  calls

words == <<locked, busy, sleeping, reader_count>>
vars  == <<words, pc, todo, mode, calls>>

Init ==
  /\ locked = [m \in Locks |-> FALSE] /\ busy = locked
  /\ sleeping = [m \in Locks |-> {}]
  /\ reader_count = 0
  /\ pc = [t \in Threads |-> "idle"]
  /\ todo = [t \in Threads |-> <<>>]
  /\ mode = [t \in Threads |-> "none"]
  /\ calls = [t \in Threads |-> 0]

At(t, label) == pc[t] = label
M(t) == todo[t][1][2]                  \* the mutex of the call in progress
First(t, call) == todo[t] # <<>> /\ todo[t][1][1] = call
Goto(t, label) == pc' = [pc EXCEPT ![t] = label]

\* The call is done: go on with the next one.
Done(t) == Goto(t, "next") /\ todo' = [todo EXCEPT ![t] = Tail(@)]

(***************************************************************************)
(* timed_mutex.                                                            *)
(***************************************************************************)

\* lock: a spin that finds the mutex free takes it, and leaves busy alone.
lock(t) ==
  /\ At(t, "next") /\ First(t, "lock")
  /\ \/ /\ ~locked[M(t)]
        /\ locked' = [locked EXCEPT ![M(t)] = TRUE]
        /\ Done(t)
     \/ locked[M(t)] /\ Goto(t, "block") /\ UNCHANGED <<locked, todo>>
  /\ UNCHANGED <<busy, sleeping, reader_count, mode, calls>>

\* Mutant: a thread that has slept takes the mutex without busy.
lock_blocking_Quiet(t) ==
  /\ At(t, "block")
  /\ locked' = [locked EXCEPT ![M(t)] = TRUE]
  /\ busy' = IF locked[M(t)] THEN [busy EXCEPT ![M(t)] = TRUE] ELSE busy
  /\ \/ locked[M(t)] /\ Goto(t, "wait") /\ UNCHANGED todo
     \/ ~locked[M(t)] /\ Done(t)
  /\ UNCHANGED <<sleeping, reader_count, mode, calls>>

lock_blocking(t) ==
  /\ At(t, "block")
  /\ locked' = [locked EXCEPT ![M(t)] = TRUE]
  /\ busy' = [busy EXCEPT ![M(t)] = TRUE]
  /\ \/ locked[M(t)] /\ Goto(t, "wait") /\ UNCHANGED todo
     \/ ~locked[M(t)] /\ Done(t)
  /\ UNCHANGED <<sleeping, reader_count, mode, calls>>

\* FUTEX_WAIT for locked | busy.
FutexWait(t) ==
  /\ At(t, "wait")
  /\ \/ /\ locked[M(t)] /\ busy[M(t)]
        /\ sleeping' = [sleeping EXCEPT ![M(t)] = @ \cup {t}]
        /\ Goto(t, "asleep")
     \/ ~(locked[M(t)] /\ busy[M(t)]) /\ Goto(t, "block") /\ UNCHANGED sleeping
  /\ UNCHANGED <<locked, busy, reader_count, todo, mode, calls>>

Woken(t) ==
  /\ At(t, "asleep") /\ t \notin sleeping[M(t)]
  /\ Goto(t, "block")
  /\ UNCHANGED <<words, todo, mode, calls>>

\* unlock: nobody waits, or clear locked, look for a new owner that will
\* wake the others, clear busy and wake one.
unlock(t) ==
  /\ At(t, "next") /\ First(t, "unlock")
  /\ locked' = [locked EXCEPT ![M(t)] = FALSE]
  /\ \/ ~busy[M(t)] /\ Done(t)
     \/ busy[M(t)] /\ Goto(t, "spin") /\ UNCHANGED todo
  /\ UNCHANGED <<busy, sleeping, reader_count, mode, calls>>

Spin(t) ==
  /\ At(t, "spin")
  /\ \/ locked[M(t)] /\ Done(t)
     \/ ~locked[M(t)] /\ Goto(t, "clear") /\ UNCHANGED todo
  /\ UNCHANGED <<words, mode, calls>>

ClearBusy(t) ==
  /\ At(t, "clear")
  /\ busy' = [busy EXCEPT ![M(t)] = FALSE]
  /\ Goto(t, "wake")
  /\ UNCHANGED <<locked, sleeping, reader_count, todo, mode, calls>>

FutexWake(t) ==
  /\ At(t, "wake")
  /\ \/ sleeping[M(t)] = {} /\ UNCHANGED sleeping
     \/ \E u \in sleeping[M(t)] : sleeping' = [sleeping EXCEPT ![M(t)] = @ \ {u}]
  /\ Done(t)
  /\ UNCHANGED <<locked, busy, reader_count, mode, calls>>

(***************************************************************************)
(* shared_mutex.                                                           *)
(***************************************************************************)
Begin(t, program) ==
  /\ At(t, "idle")
  /\ pc' = [pc EXCEPT ![t] = "next"]
  /\ todo' = [todo EXCEPT ![t] = program]

lock_exclusive(t) ==
  /\ calls[t] < Calls /\ mode[t] = "none"
  /\ calls' = [calls EXCEPT ![t] = @ + 1]
  /\ Begin(t, << <<"lock", "self">>, <<"lock", "writer">>, <<"unlock", "self">>, <<"own", "exclusive">> >>)
  /\ UNCHANGED <<words, mode>>

lock_shared(t) ==
  /\ calls[t] < Calls /\ mode[t] = "none"
  /\ calls' = [calls EXCEPT ![t] = @ + 1]
  /\ Begin(t, << <<"lock", "self">>, <<"add", "">>, <<"unlock", "self">>, <<"own", "shared">> >>)
  /\ UNCHANGED <<words, mode>>

unlock_exclusive(t) ==
  /\ mode[t] = "exclusive" /\ mode' = [mode EXCEPT ![t] = "none"]
  /\ Begin(t, << <<"unlock", "writer">> >>)
  /\ UNCHANGED <<words, calls>>

unlock_shared(t) ==
  /\ mode[t] = "shared" /\ mode' = [mode EXCEPT ![t] = "none"]
  /\ Begin(t, << <<"sub", "">> >>)
  /\ UNCHANGED <<words, calls>>

\* The first reader takes writer_lock, the last one gives it back.
CountReader(t) ==
  /\ At(t, "next")
  /\ \/ /\ First(t, "add")
        /\ reader_count' = reader_count + 1
        /\ todo' = [todo EXCEPT ![t] =
             (IF reader_count = 0 THEN << <<"lock", "writer">> >> ELSE <<>>) \o Tail(@)]
     \/ /\ First(t, "sub")
        /\ reader_count' = reader_count - 1
        /\ todo' = [todo EXCEPT ![t] =
             (IF reader_count = 1 THEN << <<"unlock", "writer">> >> ELSE <<>>) \o Tail(@)]
  /\ UNCHANGED <<locked, busy, sleeping, pc, mode, calls>>

Return(t) ==
  /\ At(t, "next")
  /\ \/ First(t, "own") /\ mode' = [mode EXCEPT ![t] = todo[t][1][2]]
     \/ todo[t] = <<>> /\ UNCHANGED mode
  /\ Goto(t, "idle")
  /\ todo' = [todo EXCEPT ![t] = <<>>]
  /\ UNCHANGED <<words, calls>>

Step(t) ==
  \/ lock(t) \/ lock_blocking(t) \/ FutexWait(t) \/ Woken(t)
  \/ unlock(t) \/ Spin(t) \/ ClearBusy(t) \/ FutexWake(t)
  \/ CountReader(t) \/ Return(t)
  \/ unlock_exclusive(t) \/ unlock_shared(t)

Finished ==
  /\ \A t \in Threads : At(t, "idle") /\ mode[t] = "none" /\ calls[t] = Calls
  /\ UNCHANGED vars

Next == Finished \/ \E t \in Threads : Step(t) \/ lock_exclusive(t) \/ lock_shared(t)

Spec == Init /\ [][Next]_vars

(***************************************************************************)
(* Properties.                                                             *)
(***************************************************************************)

\* A writer is alone, and the word of writer_lock says so as long as anybody
\* holds the shared_mutex in either way.
SharedExclusion ==
  /\ \A t, u \in Threads : t # u /\ mode[t] = "exclusive" => mode[u] = "none"
  /\ \A t \in Threads : mode[t] # "none" => locked["writer"]

Pending(t, calls_) == \E i \in DOMAIN todo[t] : todo[t][i] \in calls_

\* Thread t has to unlock mutex m sooner or later, or is awake inside one of
\* its operations.
Involved(t, m) ==
  \/ todo[t] # <<>> /\ M(t) = m /\ t \notin sleeping[m]
  \/ Pending(t, {<<"unlock", m>>}) /\ ~Pending(t, {<<"lock", m>>})
  \/ m = "writer" /\ mode[t] # "none"
  \/ m = "writer" /\ Pending(t, {<<"sub", "">>, <<"own", "shared">>, <<"own", "exclusive">>})
                   /\ ~Pending(t, {<<"lock", "writer">>, <<"add", "">>})

\* No wake-up is lost: a thread that sleeps on a futex is never left without
\* somebody who holds the mutex, or who will take or wake for it.
NoSleeperForgotten ==
  \A m \in Locks : sleeping[m] # {} => \E t \in Threads : Involved(t, m)
=============================================================================
