---------------------------- MODULE RrScheduler -----------------------------
(***************************************************************************)
(* The round-robin scheduler of zivug (io/scheduler.hpp) on the epoll      *)
(* dispatcher (io/event_dispatcher.hpp), as operations on one record:      *)
(* the intrusive lists of endpoints, what each endpoint does next, and     *)
(* what epoll watches for.  Everything runs in one thread; the actors'     *)
(* handlers call these operations while the scheduler is in a loop.        *)
(*                                                                         *)
(* Linking an endpoint that is already on the active list, and touching a  *)
(* destroyed one, set ub: the lists are no longer lists.                   *)
(***************************************************************************)
EXTENDS Sequences, SequencesExt

CONSTANT Endpoints

Null == "null"   \* an empty scheduler_token

rr_scheduler ==
  [all |-> <<>>, released |-> <<>>, active |-> <<>>,
   act |-> [e \in Endpoints |-> "none"],
   next_action |-> [e \in Endpoints |-> "READ"],
   armed |-> [e \in Endpoints |-> "none"],
   live |-> {}, ub |-> FALSE]

Without(list, e) == SelectSeq(list, LAMBDA x : x # e)
Touch(s, e) == [s EXCEPT !.ub = @ \/ e \notin s.live]

\* The endpoint that imbue makes, at the end of the list of all; its actor's
\* init comes next, and destroy_released at the end.
managed_endp(s, e, actor) ==
  [s EXCEPT !.live = @ \cup {e}, !.all = Append(@, e), !.act[e] = actor]

(***************************************************************************)
(* scheduler_action.  A token is an endpoint or Null; the caller gives it  *)
(* up, and an empty one does nothing.                                      *)
(***************************************************************************)
add_active(s, e) ==
  IF e \in ToSet(s.active) THEN [s EXCEPT !.ub = TRUE]
  ELSE [Touch(s, e) EXCEPT !.active = Append(@, e)]

resume_read(s, tk) ==
  IF tk = Null THEN s ELSE add_active([s EXCEPT !.next_action[tk] = "READ"], tk)

resume_write(s, tk) ==
  IF tk = Null THEN s ELSE add_active([s EXCEPT !.next_action[tk] = "WRITE"], tk)

\* reset_read, reset_write: watch for one event, replacing what was watched.
wait_read(s, e)  == [Touch(s, e) EXCEPT !.armed[e] = "read"]
wait_write(s, e) == [Touch(s, e) EXCEPT !.armed[e] = "write"]

\* release_endp moves the endpoint to the released list; it stays where it is
\* on the active list, and epoll goes on watching.
release(s, tk) ==
  IF tk = Null THEN s
  ELSE [Touch(s, tk) EXCEPT !.all = Without(@, tk), !.released = Append(Without(@, tk), tk)]

\* destroy_endp, for every endpoint on the released list.
destroy_released(s) ==
  LET gone == ToSet(s.released)
  IN [s EXCEPT !.released = <<>>, !.live = @ \ gone,
               !.armed = [e \in Endpoints |-> IF e \in gone THEN "none" ELSE @[e]]]

poll_active(s) == [Touch(s, Head(s.active)) EXCEPT !.active = Tail(@)]

(***************************************************************************)
(* The dispatcher: what epoll may report about an endpoint, and the order  *)
(* of the handlers.  A report disarms.                                     *)
(***************************************************************************)
Reports(s, e) ==
  {r \in SUBSET {"error", "hang_up", s.armed[e]} : r # {} /\ s.armed[e] # "none"}

Report(s, batch) ==
  [s EXCEPT !.armed = [e \in Endpoints |-> IF e \in batch THEN "none" ELSE @[e]]]

\* The handlers to call for one report; one that returns true is the last.
Handlers(r) == SelectSeq(<<"error", "hang_up", "read", "write">>, LAMBDA h : h \in r)

\* ~rr_scheduler: everything is destroyed.
Destructor(s) ==
  destroy_released([s EXCEPT !.released = @ \o s.all, !.all = <<>>])
=============================================================================
