----------------------------- MODULE ThreadLife -----------------------------
(***************************************************************************)
(* The life of one thread_data (yesod/concurrent/thread.hpp): created by   *)
(* the constructor of a thread handle, shared by handles, by the thread    *)
(* itself (child_attach until its exit handler runs) and by the transient  *)
(* handles of this_thread::get, and destroyed by whoever drops the last    *)
(* use.  The handles are used by one client, the child runs beside it.     *)
(***************************************************************************)
EXTENDS Integers, FiniteSets

CONSTANTS
  Handles,     \* thread objects
  Gets         \* bound: calls of this_thread::get

VARIABLES
  tdata,       \* tdata[h]: the handle is not empty
  transient,   \* transient[h]: it came from this_thread::get
  use_count,
  data,        \* the thread_data: "none", "live" or "freed"
  child,       \* the thread: "none", "seeding", "created", "running", "ending", "ended", "astray"
  native,      \* the system's thread: "none", "joinable", "joined", "detached"
  terminated,  \* std::terminate was called
  gets

handles == <<tdata, transient>>
vars == <<handles, use_count, data, child, native, terminated, gets>>

Init ==
  /\ tdata = [h \in Handles |-> FALSE] /\ transient = tdata
  /\ use_count = 0
  /\ data = "none" /\ child = "none" /\ native = "none"
  /\ terminated = FALSE /\ gets = 0

Alive == ~terminated
Release ==
  /\ use_count' = use_count - 1
  /\ data' = IF use_count = 1 THEN "freed" ELSE data

\* create: a random seed, drawn again as long as it is 0, but into nothing:
\* if the first one is 0 the loop never ends.
create(h) ==
  /\ Alive /\ data = "none" /\ ~tdata[h]
  /\ \/ child' = "seeding" /\ data' = "none" /\ UNCHANGED <<tdata, use_count, native>>
     \/ /\ data' = "live" /\ use_count' = 1
        \* start_thread: on failure the constructor throws, and nobody
        \* releases the data.
        /\ \/ child' = "created" /\ native' = "joinable" /\ tdata' = [tdata EXCEPT ![h] = TRUE]
           \/ child' = "ended" /\ UNCHANGED <<tdata, native>>
  /\ child = "none"
  /\ UNCHANGED <<transient, terminated, gets>>

\* The constructor spins for ever.
Seeding ==
  /\ child = "seeding"
  /\ UNCHANGED vars

\* Mutant: the thread uses its data without a use of its own.
child_attach_Uncounted ==
  /\ Alive /\ child = "created" /\ data = "live"
  /\ child' = "running"
  /\ UNCHANGED <<use_count, handles, data, native, terminated, gets>>

\* The invoker's run; the exit handler runs after the callable has returned.
\* Data that an early detach has freed is used all the same: what such a
\* thread does is undefined, and is not followed.
child_attach ==
  /\ Alive /\ child = "created"
  /\ IF data = "live" THEN child' = "running" /\ use_count' = use_count + 1
     ELSE child' = "astray" /\ UNCHANGED use_count
  /\ UNCHANGED <<handles, data, native, terminated, gets>>

\* The callable returns, or throws: the latter ends the program.
Returns ==
  /\ Alive /\ child = "running"
  /\ \/ child' = "ending" /\ UNCHANGED terminated
     \/ terminated' = TRUE /\ UNCHANGED child
  /\ UNCHANGED <<handles, use_count, data, native, gets>>

thread_exit_handler ==
  /\ Alive /\ child = "ending"
  /\ child' = "ended"
  /\ Release
  /\ UNCHANGED <<handles, native, terminated, gets>>

\* this_thread::get in the child, kept in a handle.
get(h) ==
  /\ Alive /\ child = "running" /\ gets < Gets /\ ~tdata[h]
  /\ gets' = gets + 1
  /\ tdata' = [tdata EXCEPT ![h] = TRUE] /\ transient' = [transient EXCEPT ![h] = TRUE]
  /\ use_count' = use_count + 1
  /\ UNCHANGED <<data, child, native, terminated>>

\* The move constructor takes the pointer away from the other handle; the
\* move assignment terminates when the target is not empty.
Move(h, other) ==
  /\ Alive /\ h # other
  /\ IF tdata[h] THEN terminated' = TRUE /\ UNCHANGED handles
     ELSE /\ tdata' = [tdata EXCEPT ![h] = tdata[other], ![other] = FALSE]
          /\ transient' = [transient EXCEPT ![h] = transient[other]]
          /\ UNCHANGED terminated
  /\ UNCHANGED <<use_count, data, child, native, gets>>

\* join and detach go through the system first; when that fails they throw
\* and the handle stays.
join(h) ==
  /\ Alive /\ tdata[h] /\ native = "joinable" /\ child = "ended"
  /\ native' = "joined"
  /\ tdata' = [tdata EXCEPT ![h] = FALSE]
  /\ Release
  /\ UNCHANGED <<transient, child, terminated, gets>>

detach(h) ==
  /\ Alive /\ tdata[h] /\ native = "joinable"
  /\ native' = "detached"
  /\ tdata' = [tdata EXCEPT ![h] = FALSE]
  /\ Release
  /\ UNCHANGED <<transient, child, terminated, gets>>

\* ~thread: a handle that was neither joined nor detached ends the program.
release(h) ==
  /\ Alive /\ tdata[h]
  /\ tdata' = [tdata EXCEPT ![h] = FALSE]
  /\ IF transient[h] THEN Release /\ UNCHANGED terminated
     ELSE terminated' = TRUE /\ UNCHANGED <<use_count, data>>
  /\ UNCHANGED <<transient, child, native, gets>>

Next ==
  \/ child_attach \/ Returns \/ thread_exit_handler \/ Seeding
  \/ \E h \in Handles : create(h) \/ get(h) \/ join(h) \/ detach(h) \/ release(h)
  \/ \E h, other \in Handles : Move(h, other)

Spec == Init /\ [][Next]_vars

(***************************************************************************)
(* Properties.                                                             *)
(***************************************************************************)
Attached == child \in {"running", "ending"}

\* Nobody is left with a pointer to freed data: it is live whenever a handle
\* is not empty, while the thread is between child_attach and its exit, and
\* before child_attach too unless the thread was detached that early.
DataOutlivesUses ==
  (\/ \E h \in Handles : tdata[h]
   \/ Attached
   \/ child = "created" /\ native # "detached" /\ Alive) => data = "live"

\* The data is freed: once the thread has ended and every handle is empty
\* nothing is left, except after a constructor that failed to start a thread.
DataFreed ==
  (Alive /\ child = "ended" /\ native # "none" /\ ~\E h \in Handles : tdata[h]) =>
    data = "freed" /\ use_count = 0
=============================================================================
