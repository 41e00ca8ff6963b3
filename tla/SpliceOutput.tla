---------------------------- MODULE SpliceOutput ----------------------------
(***************************************************************************)
(* The actors of the hose program under the round-robin scheduler: a       *)
(* connector that waits for the socket, then hands the endpoint to the     *)
(* splice_output_actor, which moves data from a second descriptor through  *)
(* a pipe; a terminating_actor ends a failed connection.  The writer and   *)
(* the reader suspend themselves and leave their tokens for one another.   *)
(*                                                                         *)
(* One action is one call of a handler with all it does.  The results of   *)
(* splice and the reports of epoll are chosen freely, within what the      *)
(* state of the pipe and the armed events allow.                           *)
(***************************************************************************)
EXTENDS RrScheduler, Integers

CONSTANTS
  Sock, Src,   \* the two endpoints
  Capacity     \* bound: blocks that fit into the pipe

VARIABLES
  s,           \* the scheduler
  a,           \* the splice_output_actor
  pc,          \* what the scheduler's caller is in: "start", "idle", "wait", "events", "active", "end"
  batch        \* reports of the last epoll_wait that are still to be handled

vars == <<s, a, pc, batch>>

splice_output_actor(blocking) ==
  [open |-> <<FALSE, FALSE>>, fill |-> 0, writer_tk |-> Null, reader_tk |-> Null,
   blocking_src |-> blocking, eof |-> FALSE]

Init ==
  /\ s = rr_scheduler
  /\ \E blocking \in BOOLEAN : a = splice_output_actor(blocking)
  /\ pc = "start" /\ batch = <<>>

Is(e, actor) == s.act[e] = actor
Then(sched, act) == s' = sched /\ a' = act

(***************************************************************************)
(* init of each actor.                                                     *)
(***************************************************************************)
terminating_init(st, e) == release(st, e)

reader_init(st, act) ==
  IF act.blocking_src THEN resume_read(st, Src) ELSE wait_read(st, Src)

\* The pipe, an endpoint for the source (imbue destroys what was released),
\* and the writer is suspended.
splice_output_init(st, act) ==
  LET src == managed_endp([st EXCEPT !.act[Sock] = "writer"], Src, "reader")
  IN Then(destroy_released(reader_init(src, act)),
          [act EXCEPT !.open = <<TRUE, TRUE>>, !.writer_tk = Sock])

(***************************************************************************)
(* splice: the blocks moved, 0 at the end of the file, EAGAIN or an error. *)
(***************************************************************************)
EAGAIN == -1
Fault  == -2
ReadResults ==
  {Fault} \cup (IF a.fill = Capacity THEN {} ELSE {0, 1})
  \cup (IF a.fill = Capacity \/ ~a.blocking_src THEN {EAGAIN} ELSE {})
WriteResults == {Fault, EAGAIN} \cup 1 .. a.fill
Moved(r) == IF r < 0 THEN 0 ELSE r

\* Mutant: data in the pipe does not resume the writer.
reader_read_WriterAsleep(st, r) ==
  LET fill == a.fill + Moved(r)
      act   == [a EXCEPT !.fill = fill]
  IN IF r = EAGAIN /\ fill > 0 THEN Then(st, [act EXCEPT !.reader_tk = Src])
     ELSE Then(IF fill > 0 THEN resume_read(st, Src) ELSE wait_read(st, Src), act)

\* reader_actor::read.  Data in the pipe resumes the writer.  At the end of
\* the file with an empty pipe nothing is armed, resumed or released.
reader_read(st, r) ==
  LET fill  == a.fill + Moved(r)
      woken == IF fill > 0 THEN resume_write(st, a.writer_tk) ELSE st
      act   == [a EXCEPT !.fill = fill, !.writer_tk = IF fill > 0 THEN Null ELSE @]
  IN CASE ~a.open[1] -> Then(release(st, Src), [a EXCEPT !.open[2] = FALSE])
       [] a.open[1] /\ r = EAGAIN ->
            IF fill > 0 THEN Then(woken, [act EXCEPT !.reader_tk = Src])
            ELSE Then(reader_init(woken, act), act)
       [] a.open[1] /\ r = Fault ->
            Then(release(resume_write(woken, act.writer_tk), Src),
                 [act EXCEPT !.open[2] = FALSE, !.writer_tk = Null])
       [] OTHER -> Then(IF fill > 0 THEN resume_read(woken, Src) ELSE woken,
                        [act EXCEPT !.eof = r = 0 /\ fill = 0])

\* reader_actor::error and hang_up.
reader_fails(st) ==
  Then(release(resume_write(st, a.writer_tk), Src),
       [a EXCEPT !.open[2] = FALSE, !.writer_tk = Null])

\* splice_output_actor::write: empty the pipe, then suspend and let the
\* reader go on.
writer_write(st, r) ==
  LET fill == a.fill - Moved(r)
  IN CASE r = Fault ->
            Then(release(release(st, a.reader_tk), Sock),
                 [a EXCEPT !.open[1] = FALSE, !.reader_tk = Null])
       [] r # Fault /\ fill > 0 -> Then(wait_write(st, Sock), [a EXCEPT !.fill = fill])
       [] OTHER -> Then(resume_read(st, a.reader_tk),
                        [a EXCEPT !.fill = 0, !.writer_tk = Sock, !.reader_tk = Null])

writer_fails(st) ==
  Then(release(release(st, a.reader_tk), Sock),
       [a EXCEPT !.open[1] = FALSE, !.reader_tk = Null])

(***************************************************************************)
(* One handler of endpoint e.  Every handler that can be called here       *)
(* returns true: it is the last one for its report.                        *)
(***************************************************************************)
Read(st, e) == Is(e, "reader") /\ \E r \in ReadResults : reader_read(st, r)

Write(st, e) ==
  \/ Is(e, "writer") /\ a.fill > 0 /\ \E r \in WriteResults : writer_write(st, r)
  \/ Is(e, "writer") /\ a.fill = 0 /\ writer_write(st, 0)
  \/ Is(e, "connector") /\ splice_output_init(st, a)

Fails(st, e) ==
  \/ Is(e, "writer") /\ writer_fails(st)
  \/ Is(e, "reader") /\ reader_fails(st)
  \/ Is(e, "connector") /\ Then(terminating_init([st EXCEPT !.act[e] = "terminating"], e), a)

Handle(st, e, h) ==
  \/ h = "read" /\ Read(Touch(st, e), e)
  \/ h = "write" /\ Write(Touch(st, e), e)
  \/ h \in {"error", "hang_up"} /\ Fails(Touch(st, e), e)

(***************************************************************************)
(* The scheduler's loops.                                                  *)
(***************************************************************************)
imbue ==
  /\ pc = "start"
  /\ Then(destroy_released(wait_write(managed_endp(s, Sock, "connector"), Sock)), a)
  /\ pc' = "idle" /\ UNCHANGED batch

poll == pc = "idle" /\ pc' = "events" /\ UNCHANGED <<s, a, batch>>
wait == pc = "idle" /\ pc' = "wait" /\ UNCHANGED <<s, a, batch>>

\* epoll_wait: a batch of reports, in any order; without one the poll turns
\* to the active list, and a wait that timed out ends.
wait_impl ==
  /\ pc \in {"wait", "events"} /\ batch = <<>>
  /\ \/ \E n \in 1 .. 2 : \E es \in [1 .. n -> Endpoints] :
          /\ \A i, j \in 1 .. n : i # j => es[i] # es[j]
          /\ \E rs \in [1 .. n -> SUBSET {"error", "hang_up", "read", "write"}] :
               /\ \A i \in 1 .. n : rs[i] \in Reports(s, es[i])
               /\ batch' = [i \in 1 .. n |-> [endp |-> es[i], handler |-> Head(Handlers(rs[i]))]]
          /\ s' = Report(s, {es[i] : i \in 1 .. n})
          /\ pc' = "events"
     \/ /\ pc' = IF pc = "wait" THEN "idle" ELSE "active"
        /\ UNCHANGED <<s, batch>>
  /\ UNCHANGED a

Dispatch ==
  /\ pc = "events" /\ batch # <<>>
  /\ Handle(s, Head(batch).endp, Head(batch).handler)
  /\ batch' = Tail(batch) /\ UNCHANGED pc

\* The active list in the order of arrival.
RunActive ==
  /\ pc = "active" /\ s.active # <<>>
  /\ LET e == Head(s.active)
     IN Handle(poll_active(s), e, IF s.next_action[e] = "READ" THEN "read" ELSE "write")
  /\ UNCHANGED <<pc, batch>>

\* The poll ends: what was released goes.
EndPoll ==
  /\ pc = "active" /\ s.active = <<>>
  /\ s' = destroy_released(s)
  /\ pc' = "idle" /\ UNCHANGED <<a, batch>>

\* The program ends: the scheduler's destructor.
Shutdown ==
  /\ pc = "idle"
  /\ s' = Destructor(s)
  /\ pc' = "end" /\ UNCHANGED <<a, batch>>

Next ==
  \/ imbue \/ poll \/ wait \/ wait_impl \/ Dispatch \/ RunActive \/ EndPoll \/ Shutdown
  \/ pc = "end" /\ UNCHANGED vars

Spec == Init /\ [][Next]_vars

(***************************************************************************)
(* Properties.                                                             *)
(***************************************************************************)
Up(e) == e \in s.live /\ e \notin ToSet(s.released)

\* The lists stay lists and nobody touches a destroyed endpoint: what is on
\* the active list, watched by epoll, reported, or named by a token lives,
\* whatever the order in which the two actors fail and release one another.
EndpointsSound ==
  /\ ~s.ub
  /\ ToSet(s.active) \subseteq s.live
  /\ \A e \in Endpoints : s.armed[e] # "none" => e \in s.live
  /\ pc # "end" => {a.writer_tk, a.reader_tk} \subseteq s.live \cup {Null}

\* Data in the pipe always has its writer on the way: active, waiting for
\* the socket, or reported.
PipeHasWriter ==
  a.fill > 0 /\ Up(Sock) =>
    \/ Sock \in ToSet(s.active) \/ s.armed[Sock] = "write"
    \/ \E i \in DOMAIN batch : batch[i].endp = Sock

\* The two actors never both wait for the other one: while both are up one of
\* them is active, watched by epoll or reported, until the file has ended.
NotBothSuspended ==
  (pc # "end" /\ Is(Sock, "writer") /\ Up(Sock) /\ Up(Src) /\ ~a.eof) =>
    \/ s.active # <<>> \/ batch # <<>>
    \/ \E e \in Endpoints : s.armed[e] # "none"
=============================================================================
