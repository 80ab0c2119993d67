------------------------------- MODULE Calls --------------------------------
(***************************************************************************)
(* socket_base_t::send, recv and process_commands (socket_base.cpp), with  *)
(* one pipe each way.  Commands wait in the mailbox until a call processes *)
(* them: recv does so when it finds no message, and every _ticks messages; *)
(* send does so only if some time has passed since the last time, or when  *)
(* it has to wait.  The peer, the thread that ends the context and the     *)
(* clock run at the same time.                                             *)
(***************************************************************************)
EXTENDS Naturals, Sequences, FiniteSetsExt

CONSTANTS
    PollRate,     \* inbound_poll_rate
    Timeout,      \* ZMQ_RCVTIMEO and ZMQ_SNDTIMEO, when they are set
    Hwm,          \* high water mark of both pipes
    MaxTime,      \* bound: the clock
    MaxMsgs,      \* bound: messages of the peer
    MaxSends      \* bound: messages of the application

VARIABLE st

Call == {"recv", "send"}
Flag == {"dontwait", "timed", "forever"}

\* mail: the mailbox.  Inbound pipe: q, in (_in_active).  Outbound pipe: room
\* used, unread by the peer, out (_out_active).  ticks, term: _ticks and
\* _ctx_terminated; fresh: the time since the last processing is too short for
\* send.  The call in progress: pc, call, flag, end, block (_ticks # 0 on
\* entry) and its result; due: it could succeed when it began.  tell: the peer
\* has written a message and not yet sent the command; waited: messages
\* received since a command is in the mailbox.  The application has sent
\* what the pipe takes.
Init ==
    st = [mail |-> <<>>, q |-> 0, in |-> TRUE, used |-> Hwm, unread |-> Hwm, out |-> TRUE,
          ticks |-> 0, term |-> FALSE, fresh |-> FALSE,
          pc |-> "idle", call |-> "recv", flag |-> "dontwait", end |-> 0, block |-> FALSE,
          res |-> "ok", due |-> FALSE, tell |-> FALSE, waited |-> 0,
          now |-> 0, n |-> 0, m |-> 0, stopped |-> FALSE]

-----------------------------------------------------------------------------
(* The other threads *)

\* The peer flushes a message; if the reader sleeps it sends activate_read.
PeerWrites ==
    /\ st.n < MaxMsgs /\ ~st.tell
    /\ st' = [st EXCEPT !.n = @ + 1, !.q = @ + 1, !.tell = ~st.in /\ st.q = 0]
PeerTells ==
    /\ st.tell /\ st' = [st EXCEPT !.tell = FALSE, !.mail = Append(@, "activate_read")]
PeerReads ==
    /\ st.unread > 0
    /\ st' = [st EXCEPT !.unread = @ - 1, !.mail = Append(@, "activate_write")]
\* zmq_ctx_term: the stop command.
Stop == ~st.stopped /\ st' = [st EXCEPT !.stopped = TRUE, !.mail = Append(@, "stop")]
Tick == st.now < MaxTime /\ st' = [st EXCEPT !.now = @ + 1, !.fresh = FALSE]

-----------------------------------------------------------------------------
(* The pipes as xrecv and xsend use them, and process_commands *)

RecvOk(s) == s.in /\ s.q > 0
SendOk(s) == s.out /\ s.used < Hwm
Succeeds(s) == IF s.call = "recv" THEN RecvOk(s) ELSE SendOk(s)
\* A read that finds nothing puts the reader to sleep, a write that finds no
\* room the writer.
Tried(s) ==
    IF s.call = "recv"
    THEN IF RecvOk(s) THEN [s EXCEPT !.q = @ - 1, !.waited = IF s.mail = <<>> THEN 0 ELSE @ + 1]
         ELSE [s EXCEPT !.in = FALSE]
    ELSE IF SendOk(s) THEN [s EXCEPT !.used = @ + 1, !.unread = @ + 1, !.m = @ + 1]
         ELSE [s EXCEPT !.out = FALSE]

Has(s, c) == \E i \in 1..Len(s.mail) : s.mail[i] = c
Processed(s) ==
    [s EXCEPT !.mail = <<>>, !.waited = 0,
              !.in = @ \/ Has(s, "activate_read"),
              !.out = @ \/ Has(s, "activate_write"),
              !.used = IF Has(s, "activate_write") THEN s.unread ELSE @,
              !.term = @ \/ Has(s, "stop")]
\* The call returns; what is remembered of it serves a call that gave up.
Forgotten(s) == [s EXCEPT !.call = "recv", !.flag = "dontwait", !.end = 0, !.due = FALSE]
Return(s, r) ==
    [(IF r = "EAGAIN" THEN s ELSE Forgotten(s)) EXCEPT !.pc = "idle", !.res = r, !.block = FALSE]
\* A signal interrupts process_commands before or after the commands, and ends
\* the call.
Signalled(s) == {Return(t, "EINTR") : t \in {s, Processed(s)}}

-----------------------------------------------------------------------------
(* The calls *)

\* A message is there and announced; or there is room, and send will look.
Due(s, call, flag) ==
    IF call = "recv" THEN s.q > 0 /\ ~s.tell
    ELSE s.unread < Hwm /\ (flag = "dontwait" => ~s.fresh)
Enter(call, flag) ==
    /\ st.pc = "idle" /\ (call = "send" => st.m < MaxSends)
    /\ LET s == [st EXCEPT !.call = call, !.flag = flag, !.due = Due(st, call, flag)] IN
       st' = IF s.term THEN Return(s, "ETERM") ELSE [s EXCEPT !.pc = "entry"]

\* Commands are processed first: by recv when _ticks reaches PollRate, and
\* _ticks is then reset unless a signal comes; by send if it has not done so
\* lately (throttle_).  Values of _ticks above PollRate are alike.
Entry ==
    /\ st.pc = "entry"
    /\ LET ticks == Min({st.ticks + 1, PollRate + 1})
           now == IF st.call = "recv" THEN ticks = PollRate ELSE ~st.fresh
           s == IF st.call = "recv" THEN [st EXCEPT !.ticks = ticks]
                ELSE [st EXCEPT !.fresh = TRUE]
           t == IF now THEN Processed([s EXCEPT !.ticks = IF st.call = "recv" THEN 0 ELSE @]) ELSE s
       IN  \/ st' = IF t.term THEN Return([t EXCEPT !.ticks = s.ticks], "ETERM")
                    ELSE [t EXCEPT !.pc = "try"]
           \/ now /\ st' \in Signalled(s)

\* The first attempt.  recv without waiting processes commands and tries again.
Try ==
    /\ st.pc = "try"
    /\ LET t == Tried(st) IN
       st' = IF Succeeds(st) THEN Return(t, "ok")
             ELSE IF st.flag = "dontwait"
             THEN IF st.call = "recv" THEN [t EXCEPT !.pc = "again"] ELSE Return(t, "EAGAIN")
             ELSE [t EXCEPT !.pc = "wait", !.end = st.now + Timeout,
                            !.block = st.call = "send" \/ st.ticks # 0]
\* Mutant of Again: the second attempt is left out.
AgainGivesUp == st.pc = "again" /\ st' = Return([st EXCEPT !.ticks = 0], "EAGAIN")
Again ==
    /\ st.pc = "again"
    /\ LET s == Processed(st)
           t == [s EXCEPT !.ticks = 0]
       IN  \/ st' = IF s.term THEN Return(s, "ETERM")
                    ELSE Return(Tried(t), IF Succeeds(t) THEN "ok" ELSE "EAGAIN")
           \/ st' \in Signalled(st)

\* process_commands waits for a command or for the timeout, tries again, and
\* computes the time that is left.
Expired == st.flag = "timed" /\ st.now >= st.end
Wait ==
    /\ st.pc = "wait" /\ (st.mail # <<>> \/ Expired \/ ~st.block)
    /\ LET s == Processed(st)
           t == Tried(s)
       IN
       st' = IF s.term THEN Return(s, "ETERM")
             ELSE IF Succeeds(s)
             THEN Return([t EXCEPT !.ticks = IF st.call = "recv" THEN 0 ELSE @], "ok")
             ELSE IF Expired THEN Return(t, "EAGAIN")
             ELSE [t EXCEPT !.block = TRUE]
Interrupted ==
    /\ st.pc = "wait" /\ st' \in Signalled(st)

Next ==
    \/ PeerWrites \/ PeerTells \/ PeerReads \/ Stop \/ Tick
    \/ \E call \in Call, flag \in Flag : Enter(call, flag)
    \/ Entry \/ Try \/ Again \/ Wait \/ Interrupted

Spec == Init /\ [][Next]_st

-----------------------------------------------------------------------------
\* A call that could succeed when it began does not end with EAGAIN: recv
\* processes the commands before it gives up, send unless it is throttled.
SucceedsWhenDue == st.pc = "idle" /\ st.res = "EAGAIN" => ~st.due

\* A waiting call is woken by what it waits for, and by the end of the context:
\* the command is in the mailbox, or being sent.
WaiterIsWoken ==
    st.pc = "wait" =>
        /\ st.call = "recv" /\ st.q > 0 => st.mail # <<>> \/ st.tell \/ RecvOk(st)
        /\ st.call = "send" /\ st.unread < Hwm => st.mail # <<>> \/ SendOk(st)
        /\ st.stopped => st.mail # <<>> \/ st.term

\* Commands wait for no more than PollRate messages to be received (recv:
\* "once every inbound_poll_rate messages"), unless a signal has interrupted
\* the processing and left _ticks at the rate: it then passes it, and commands
\* wait until recv finds no message.
CommandsNotStarved == st.ticks <= PollRate => st.waited <= PollRate

\* A timed call gives up when its time is over, not before.
NotTooEarly ==
    st.pc = "idle" /\ st.res = "EAGAIN" /\ st.flag = "timed" => st.now >= st.end
=============================================================================
