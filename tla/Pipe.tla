-------------------------------- MODULE Pipe --------------------------------
(***************************************************************************)
(* A pipepair of pipe_t (pipe.cpp): two ends, each owned by one thread,    *)
(* joined by one ypipe per direction and by the commands the ends send     *)
(* each other through their threads' mailboxes.  Modelled are flow control *)
(* (high and low water marks), activation, hiccups, changes of the water   *)
(* marks, and the asynchronous termination handshake.                      *)
(*                                                                         *)
(* The ypipe is used by its promise (WakeQueue): ready parts, fresh parts  *)
(* (written and not flushed), and whether the reader was told "empty".     *)
(***************************************************************************)
EXTENDS Integers, Sequences, SequencesExt

CONSTANT
    Scenario      \* the cases checked: records of the fields below

End == {1, 2}
Peer(e) == 3 - e

ASSUME ScenarioAssumption ==
    \A s \in Scenario :
        /\ s.kind \subseteq {"msg", "rid", "cred"} /\ s.parts \subseteq BOOLEAN
        /\ s.writer \subseteq End /\ s.hiccuper \subseteq End
        /\ s.delays \subseteq BOOLEAN /\ s.changer \subseteq End
        /\ s.hwm \in [End -> Nat] /\ s.change \subseteq Int
        /\ s.boost \in [End -> Int \X Int]
        /\ s.maxWrites \in Nat /\ s.maxHiccups \in Nat /\ s.maxChanges \in Nat

VARIABLES
    opt,          \* the scenario, which never changes
    state,        \* _state
    inActive,     \* _in_active
    outActive,    \* _out_active
    hwm, lwm,     \* _hwm, _lwm
    msgsRead,     \* _msgs_read
    msgsWritten,  \* _msgs_written
    peersRead,    \* _peers_msgs_read
    delay,        \* _delay
    inq, outq,    \* _in_pipe, _out_pipe: indices into queue, outq 0 when NULL
    alive,        \* the end has not been deallocated
    queue,        \* every ypipe ever made
    cmds,         \* per end, the commands under way to it, in order
    writes, changes  \* counters behind the bounds

flags   == <<state, delay, alive>>
flow    == <<hwm, lwm, msgsRead, msgsWritten, peersRead>>
bounds  == <<writes, changes>>
vars == <<opt, flags, inActive, outActive, flow, inq, outq, queue, cmds, bounds>>

Kind       == opt.kind       \* kinds of messages written
Parts      == opt.parts      \* values of the more flag
Writer     == opt.writer     \* the ends whose owners write
Hiccuper   == opt.hiccuper   \* the ends whose owners may call hiccup (sessions)
Delays     == opt.delays     \* arguments terminate may be called with
InitHwm    == opt.hwm        \* per end, the mark it writes against (0: none)
HwmChange  == opt.change     \* new values the owners may set at run time
Changer    == opt.changer    \* the ends whose owners may set them (sockets)
Boost      == opt.boost      \* _in_hwm_boost, _out_hwm_boost: per end, <<in, out>>
MaxWrites  == opt.maxWrites  \* bound: parts written per end
MaxHiccups == opt.maxHiccups \* bound: hiccups
MaxChanges == opt.maxChanges \* bound: changes of the water marks

State == {"active", "delimiter_received", "waiting_for_delimiter",
          "term_ack_sent", "term_req_sent1", "term_req_sent2"}
Delimiter == [kind |-> "delimiter", more |-> FALSE]
Part == [kind : Kind, more : Parts] \cup {Delimiter}
NewQueue == [ready |-> <<>>, fresh |-> <<>>, idle |-> FALSE, gone |-> FALSE]
Cmd(t) == [type |-> t, arg |-> 0]
CmdArg(t, a) == [type |-> t, arg |-> a]

\* Mutant of compute_lwm: a low above the high water mark.
LwmAboveHwm(h) == h + 1
compute_lwm(h) == (h + 1) \div 2

\* Counts a part that is a whole message (or a message's last part).
Counted(p) == ~p.more /\ p.kind # "rid"

\* The ypipe's operations on one queue record (see WakeQueue).
LastComplete(s) ==
    CHOOSE n \in 0..Len(s) :
        /\ n > 0 => ~s[n].more
        /\ \A i \in n + 1 .. Len(s) : s[i].more
Flushed(q) ==
    LET n == LastComplete(q.fresh) IN
    IF n = 0 THEN q
    ELSE [q EXCEPT !.ready = @ \o SubSeq(q.fresh, 1, n),
                   !.fresh = SubSeq(@, n + 1, Len(@)), !.idle = FALSE]
\* Mutant of FlushTells: the reader found idle is not told.
FlushNeverTells(q) == FALSE
FlushTells(q) == LastComplete(q.fresh) # 0 /\ q.idle
RolledBack(q) == [q EXCEPT !.fresh = SubSeq(@, 1, LastComplete(@))]

Live(e) == alive[e]
Readable(e) == inActive[e] /\ state[e] \in {"active", "waiting_for_delimiter"}
Send(e, c) == cmds' = [cmds EXCEPT ![Peer(e)] = Append(@, c)]
InFlight(e, types) ==
    \E i \in 1..Len(cmds[e]) : cmds[e][i].type \in types

Init ==
    /\ opt \in Scenario
    /\ state = [e \in End |-> "active"] /\ delay = [e \in End |-> TRUE]
    /\ alive = [e \in End |-> TRUE]
    /\ inActive = [e \in End |-> TRUE] /\ outActive = [e \in End |-> TRUE]
    /\ hwm = InitHwm
    /\ lwm = [e \in End |-> compute_lwm(InitHwm[Peer(e)])]
    /\ msgsRead = [e \in End |-> 0] /\ msgsWritten = [e \in End |-> 0]
    /\ peersRead = [e \in End |-> 0]
    /\ inq = [e \in End |-> e] /\ outq = [e \in End |-> Peer(e)]
    /\ queue = <<NewQueue, NewQueue>>
    /\ cmds = [e \in End |-> <<>>]
    /\ writes = [e \in End |-> 0] /\ changes = 0

-----------------------------------------------------------------------------
\* Mutant of check_hwm: one message too many.
HwmOffByOne(e) == ~(hwm[e] > 0 /\ msgsWritten[e] - peersRead[e] > hwm[e])
\* check_hwm: TRUE when the high water mark is not reached.
check_hwm(e) == ~(hwm[e] > 0 /\ msgsWritten[e] - peersRead[e] >= hwm[e])

\* What may follow in the outbound ypipe: routing ids and credentials come
\* from engines, between messages and towards the socket, so never into a
\* ypipe that a session drops by a hiccup.
Writable(e, p) ==
    p.kind # "msg" =>
        /\ ~p.more /\ Peer(e) \notin Hiccuper
        /\ LastComplete(queue[outq[e]].fresh) = Len(queue[outq[e]].fresh)

\* write of a part, with check_write: a full pipe turns outActive off.
Write(e) ==
    /\ Live(e) /\ e \in Writer /\ writes[e] < MaxWrites
    /\ outActive[e] /\ state[e] = "active"
    /\ IF check_hwm(e)
       THEN \E k \in Kind, m \in Parts :
              LET p == [kind |-> k, more |-> m] IN
              /\ Writable(e, p)
              /\ queue' = [queue EXCEPT ![outq[e]].fresh = Append(@, p)]
              /\ msgsWritten' = [msgsWritten EXCEPT
                                   ![e] = IF Counted(p) THEN @ + 1 ELSE @]
              /\ writes' = [writes EXCEPT ![e] = @ + 1]
              /\ UNCHANGED outActive
       ELSE /\ outActive' = [outActive EXCEPT ![e] = FALSE]
            /\ UNCHANGED <<queue, msgsWritten, writes>>
    /\ UNCHANGED <<flags, inActive, hwm, lwm, msgsRead, peersRead, inq, outq,
                   cmds, changes>>

rollback(e) ==
    /\ Live(e) /\ outq[e] # 0 /\ e \in Writer
    /\ queue' = [queue EXCEPT ![outq[e]] = RolledBack(@)]
    /\ UNCHANGED <<flags, inActive, outActive, flow, inq, outq, cmds, bounds>>

flush(e) ==
    /\ Live(e) /\ state[e] # "term_ack_sent" /\ outq[e] # 0
    /\ queue' = [queue EXCEPT ![outq[e]] = Flushed(@)]
    /\ IF FlushTells(queue[outq[e]])
       THEN Send(e, Cmd("activate_read")) ELSE UNCHANGED cmds
    /\ UNCHANGED <<flags, inActive, outActive, flow, inq, outq, bounds>>

-----------------------------------------------------------------------------
\* Mutant of AckAndClose: _out_pipe is not reset.
AckKeepsOutPipe(e) ==
    /\ state' = [state EXCEPT ![e] = "term_ack_sent"]
    /\ Send(e, Cmd("pipe_term_ack")) /\ UNCHANGED outq
AckAndClose(e) ==
    /\ state' = [state EXCEPT ![e] = "term_ack_sent"]
    /\ outq' = [outq EXCEPT ![e] = 0]
    /\ Send(e, Cmd("pipe_term_ack"))
\* Mutant of process_delimiter: acknowledges before pipe_term has come.
DelimiterAcksAtOnce(e) == AckAndClose(e)
\* process_delimiter: what reading the delimiter does to the end.
process_delimiter(e) ==
    IF state[e] = "active"
    THEN /\ state' = [state EXCEPT ![e] = "delimiter_received"]
         /\ UNCHANGED <<outq, cmds>>
    ELSE AckAndClose(e)

\* check_read and read find nothing: the reader goes idle.
ReadNothing(e) ==
    /\ inActive' = [inActive EXCEPT ![e] = FALSE]
    /\ queue' = [queue EXCEPT ![inq[e]].ready = <<>>, ![inq[e]].idle = TRUE]
    /\ UNCHANGED <<flags, msgsRead, outq, cmds>>

\* check_read: looks at the first part and consumes only a delimiter.
check_read(e) ==
    /\ Live(e) /\ Readable(e)
    /\ LET s == queue[inq[e]].ready IN
       \/ s = <<>> /\ ReadNothing(e)
       \/ /\ s # <<>> /\ Head(s) = Delimiter
          /\ queue' = [queue EXCEPT ![inq[e]].ready = Tail(s)]
          /\ process_delimiter(e)
          /\ UNCHANGED <<delay, alive, inActive, msgsRead>>
    /\ UNCHANGED <<outActive, hwm, lwm, msgsWritten, peersRead, inq, bounds>>

\* The credentials read drops at the head of the queue.
Credentials(s) ==
    CHOOSE n \in 0..Len(s) :
        /\ \A i \in 1..n : s[i].kind = "cred"
        /\ n < Len(s) => s[n + 1].kind # "cred"

\* read: takes a part; a multiple of lwm messages read is told to the peer.
read(e) ==
    /\ Live(e) /\ Readable(e)
    /\ LET q == queue[inq[e]]
           n == Credentials(q.ready)
           p == q.ready[n + 1]
           m == msgsRead[e] + IF Counted(p) THEN 1 ELSE 0
       IN
       \/ n = Len(q.ready) /\ ReadNothing(e)
       \/ /\ n < Len(q.ready) /\ p = Delimiter
          /\ queue' = [queue EXCEPT ![inq[e]].ready = SubSeq(@, n + 2, Len(@))]
          /\ process_delimiter(e)
          /\ UNCHANGED <<delay, alive, inActive, msgsRead>>
       \/ /\ n < Len(q.ready) /\ p # Delimiter
          /\ queue' = [queue EXCEPT ![inq[e]].ready = SubSeq(@, n + 2, Len(@))]
          /\ msgsRead' = [msgsRead EXCEPT ![e] = m]
          /\ IF lwm[e] > 0 /\ m % lwm[e] = 0
             THEN Send(e, CmdArg("activate_write", m)) ELSE UNCHANGED cmds
          /\ UNCHANGED <<flags, inActive, outq>>
    /\ UNCHANGED <<outActive, hwm, lwm, msgsWritten, peersRead, inq, bounds>>

-----------------------------------------------------------------------------
\* hiccup: a new inbound ypipe, which the peer will plug in.
hiccup(e) ==
    /\ Live(e) /\ e \in Hiccuper /\ Len(queue) < 2 + MaxHiccups
    /\ state[e] = "active"
    /\ queue' = Append(queue, NewQueue)
    /\ inq' = [inq EXCEPT ![e] = Len(queue) + 1]
    /\ inActive' = [inActive EXCEPT ![e] = TRUE]
    /\ Send(e, CmdArg("hiccup", Len(queue) + 1))
    /\ UNCHANGED <<flags, outActive, flow, outq, bounds>>

\* set_nodelay.
set_nodelay(e) ==
    /\ Live(e) /\ delay[e] /\ FALSE \in Delays
    /\ delay' = [delay EXCEPT ![e] = FALSE]
    /\ UNCHANGED <<state, alive, inActive, outActive, flow, inq, outq, queue,
                   cmds, bounds>>

\* set_hwms: the new marks with the boosts of inproc pipes.
Boosted(h, b) == IF h <= 0 \/ b = 0 THEN 0 ELSE h + (IF b > 0 THEN b ELSE 0)
\* Mutant of set_hwms: the low water mark is left as it was.
SetHwmsKeepsLwm(e, in, out) ==
    hwm' = [hwm EXCEPT ![e] = Boosted(out, Boost[e][2])] /\ UNCHANGED lwm
set_hwms(e, in, out) ==
    /\ lwm' = [lwm EXCEPT ![e] = compute_lwm(Boosted(in, Boost[e][1]))]
    /\ hwm' = [hwm EXCEPT ![e] = Boosted(out, Boost[e][2])]

\* socket_base_t::update_pipe_options after a change of a water mark option:
\* set_hwms at this end, send_hwms_to_peer for the other one.
update_pipe_options(e) ==
    \E rcv \in HwmChange, snd \in HwmChange :
      /\ Live(e) /\ e \in Changer /\ changes < MaxChanges
      /\ set_hwms(e, rcv, snd)
      /\ Send(e, CmdArg("pipe_hwm", <<snd, rcv>>))
      /\ changes' = changes + 1
      /\ UNCHANGED <<flags, inActive, outActive, msgsRead, msgsWritten,
                     peersRead, inq, outq, queue, writes>>

\* socket_base_t::query_pipes_stats: send_stats_to_peer, whatever the state.
\* Bound: one query under way.
query_pipes_stats(e) ==
    /\ Live(e) /\ e \in Changer /\ ~InFlight(Peer(e), {"pipe_peer_stats"})
    /\ Send(e, Cmd("pipe_peer_stats"))
    /\ UNCHANGED <<flags, inActive, outActive, flow, inq, outq, queue, bounds>>

\* terminate(delay_).  The delimiter is written past the high water mark.
terminate(e, d) ==
    /\ Live(e) /\ d \in Delays
    /\ delay' = [delay EXCEPT ![e] = d]
    /\ LET request == state[e] \in {"active", "delimiter_received"}
           drop == state[e] = "waiting_for_delimiter" /\ ~d
           wait == state[e] = "waiting_for_delimiter" /\ d
           q == RolledBack(queue[outq[e]])
           closed == [q EXCEPT !.fresh = Append(@, Delimiter)]
           sent == (IF request THEN <<Cmd("pipe_term")>> ELSE <<>>)
                   \o (IF FlushTells(closed) THEN <<Cmd("activate_read")>> ELSE <<>>)
       IN
       \/ /\ ~request /\ ~drop /\ ~wait
          /\ UNCHANGED <<state, outActive, outq, queue, cmds>>
       \/ /\ drop
          /\ AckAndClose(e)
          /\ queue' = [queue EXCEPT ![outq[e]] = RolledBack(@)]
          /\ outActive' = [outActive EXCEPT ![e] = FALSE]
       \/ /\ request \/ wait
          /\ wait => ~Contains(q.ready, Delimiter)  \* bound: no repeats
          /\ state' = [state EXCEPT ![e] = IF request THEN "term_req_sent1" ELSE @]
          /\ queue' = [queue EXCEPT ![outq[e]] = Flushed(closed)]
          /\ cmds' = [cmds EXCEPT ![Peer(e)] = @ \o sent]
          /\ outActive' = [outActive EXCEPT ![e] = FALSE]
          /\ UNCHANGED outq
    /\ UNCHANGED <<alive, inActive, flow, inq, bounds>>

-----------------------------------------------------------------------------
\* The command handlers.  A handler runs on the oldest command to its end.
Handles(e, t) == Live(e) /\ cmds[e] # <<>> /\ Head(cmds[e]).type = t
Done(e) == cmds' = [cmds EXCEPT ![e] = Tail(@)]
DoneAndSend(e, c) ==
    cmds' = [cmds EXCEPT ![e] = Tail(@), ![Peer(e)] = Append(@, c)]

process_activate_read(e) ==
    /\ Handles(e, "activate_read") /\ Done(e)
    /\ inActive' = [inActive EXCEPT
                      ![e] = @ \/ state[e] \in {"active", "waiting_for_delimiter"}]
    /\ UNCHANGED <<flags, outActive, flow, inq, outq, queue, bounds>>

process_activate_write(e) ==
    /\ Handles(e, "activate_write") /\ Done(e)
    /\ peersRead' = [peersRead EXCEPT ![e] = Head(cmds[e]).arg]
    /\ outActive' = [outActive EXCEPT ![e] = @ \/ state[e] = "active"]
    /\ UNCHANGED <<flags, inActive, hwm, lwm, msgsRead, msgsWritten, inq, outq,
                   queue, bounds>>

\* What is left of a ypipe whose last user drains and deletes it, and a
\* mutant that only drains it.
DrainedOnly(q) == NewQueue
Deleted(q) == [NewQueue EXCEPT !.gone = TRUE]

\* process_hiccup: the old outbound ypipe is drained and deleted.
process_hiccup(e) ==
    /\ Handles(e, "hiccup") /\ outq[e] # 0 /\ Done(e)
    /\ LET q == Flushed(queue[outq[e]]) IN
       msgsWritten' = [msgsWritten EXCEPT
           ![e] = @ - Len(SelectSeq(q.ready, LAMBDA p : ~p.more))]
    /\ queue' = [queue EXCEPT ![outq[e]] = Deleted(@)]
    /\ outq' = [outq EXCEPT ![e] = Head(cmds[e]).arg]
    /\ outActive' = [outActive EXCEPT ![e] = TRUE]
    /\ UNCHANGED <<flags, inActive, hwm, lwm, msgsRead, peersRead, inq, bounds>>

\* process_pipe_term: the end waits for the delimiter.  Mutant: it never does.
NeverWaits(e) == FALSE
Waits(e) == state[e] = "active" /\ delay[e]
process_pipe_term(e) ==
    /\ Handles(e, "pipe_term")
    /\ \/ /\ Waits(e)
          /\ state' = [state EXCEPT ![e] = "waiting_for_delimiter"]
          /\ Done(e) /\ UNCHANGED outq
       \/ /\ ~Waits(e)
          /\ state[e] \in {"active", "delimiter_received", "term_req_sent1"}
          /\ state' = [state EXCEPT ![e] = IF @ = "term_req_sent1"
                          THEN "term_req_sent2" ELSE "term_ack_sent"]
          /\ outq' = [outq EXCEPT ![e] = 0]
          /\ DoneAndSend(e, Cmd("pipe_term_ack"))
    /\ UNCHANGED <<delay, alive, inActive, outActive, flow, inq, queue, bounds>>

\* process_pipe_term_ack: the end and its inbound ypipe are deallocated; in
\* term_req_sent1 the peer is acknowledged.  Mutant: it is not.
NeverAcksBack(e) == FALSE
AcksBack(e) == state[e] = "term_req_sent1"
process_pipe_term_ack(e) ==
    /\ Handles(e, "pipe_term_ack")
    /\ state[e] \in {"term_req_sent1", "term_ack_sent", "term_req_sent2"}
    /\ IF AcksBack(e)
       THEN DoneAndSend(e, Cmd("pipe_term_ack")) ELSE Done(e)
    /\ outq' = [outq EXCEPT ![e] = 0]
    /\ queue' = [queue EXCEPT ![inq[e]] = Deleted(@)]
    /\ alive' = [alive EXCEPT ![e] = FALSE]
    /\ UNCHANGED <<state, delay, inActive, outActive, flow, inq, bounds>>

process_pipe_hwm(e) ==
    /\ Handles(e, "pipe_hwm") /\ Done(e)
    /\ set_hwms(e, Head(cmds[e]).arg[1], Head(cmds[e]).arg[2])
    /\ UNCHANGED <<flags, inActive, outActive, msgsRead, msgsWritten, peersRead,
                   inq, outq, queue, bounds>>

\* The figures go on to the socket, in a command that is none of the pipe's.
process_pipe_peer_stats(e) ==
    /\ Handles(e, "pipe_peer_stats") /\ Done(e)
    /\ UNCHANGED <<flags, inActive, outActive, flow, inq, outq, queue, bounds>>

Process(e) ==
    \/ process_activate_read(e) \/ process_activate_write(e)
    \/ process_hiccup(e) \/ process_pipe_hwm(e) \/ process_pipe_peer_stats(e)
    \/ process_pipe_term(e) \/ process_pipe_term_ack(e)

Next ==
    /\ UNCHANGED opt
    /\ \E e \in End :
        \/ Write(e) \/ rollback(e) \/ flush(e)
        \/ read(e) \/ check_read(e)
        \/ hiccup(e) \/ set_nodelay(e)
        \/ update_pipe_options(e) \/ query_pipes_stats(e)
        \/ \E d \in Delays : terminate(e, d)
        \/ Process(e)

Spec == Init /\ [][Next]_vars

\* Every thread handles its commands; the owner of an end goes on reading
\* while the end says there is something, and flushes what it wrote.
FairSpec ==
    /\ Spec
    /\ \A e \in End : /\ WF_vars(Process(e) /\ UNCHANGED opt)
                      /\ WF_vars(read(e) /\ UNCHANGED opt)
                      /\ WF_vars(flush(e) /\ UNCHANGED opt)

-----------------------------------------------------------------------------
\* Every variable keeps its type.
TypeOK ==
    /\ state \in [End -> State] /\ delay \in [End -> BOOLEAN]
    /\ alive \in [End -> BOOLEAN]
    /\ inActive \in [End -> BOOLEAN] /\ outActive \in [End -> BOOLEAN]
    /\ \A e \in End : inq[e] \in 1..Len(queue) /\ outq[e] \in 0..Len(queue)
    /\ \A e \in End : \A v \in {hwm[e], lwm[e], msgsRead[e], peersRead[e]} : v \in Nat
    /\ \A i \in 1..Len(queue) :
         queue[i].ready \in Seq(Part) /\ queue[i].fresh \in Seq(Part)

\* The variables keep their types, and the assertions of process_pipe_term,
\* process_pipe_term_ack and process_hiccup hold whenever a handler runs.
AssertionsHold ==
    /\ TypeOK
    /\ \A e \in End : alive[e] /\ cmds[e] # <<>> =>
           LET t == Head(cmds[e]).type IN
           /\ t = "pipe_term" =>
                state[e] \in {"active", "delimiter_received", "term_req_sent1"}
           /\ t = "pipe_term_ack" =>
                state[e] \in {"term_req_sent1", "term_req_sent2", "term_ack_sent"}
           /\ t = "hiccup" => outq[e] # 0

\* No command is under way to a deallocated end, and an end never keeps a
\* pointer to a ypipe that was deleted: neither by its peer's termination nor
\* by a hiccup.  Excepted are commands of a socket that changes its water marks
\* or queries statistics between its pipe's acknowledgement and the answer to
\* that: send_hwms_to_peer and send_stats_to_peer do not look at the state.
NoUseAfterFree ==
    \A e \in End :
        /\ ~alive[e] /\ cmds[e] # <<>> =>
               /\ \A i \in 1..Len(cmds[e]) : cmds[e][i].type \in {"pipe_hwm", "pipe_peer_stats"}
               /\ state[Peer(e)] \in {"term_ack_sent", "term_req_sent2"}
        /\ alive[e] => /\ ~queue[inq[e]].gone
                       /\ outq[e] # 0 => ~queue[outq[e]].gone

\* When both ends are gone, so is every ypipe they ever used.
NoLeak ==
    (\A e \in End : ~alive[e]) => \A i \in 1..Len(queue) : queue[i].gone

\* The memory of a pipe: no command of the handshake, of flow control or of a
\* hiccup is used after its end was freed, whatever order the commands cross in,
\* and nothing is left (process_pipe_term, process_pipe_term_ack,
\* process_hiccup); the commands NoUseAfterFree excepts are the only ones.
MemorySafe == NoUseAfterFree /\ NoLeak

\* A reader that was told "nothing to read" while messages are flushed into
\* the ypipe it reads has an activate_read coming.
NoLostActivation ==
    \A e \in End :
        /\ alive[e] /\ state[e] \in {"active", "waiting_for_delimiter"}
        /\ ~inActive[e] /\ queue[inq[e]].ready # <<>>
        => \E i \in 1..Len(cmds[e]) : cmds[e][i].type = "activate_read"

\* The messages an end has waiting at its peer.
Whole(s) == Len(SelectSeq(s, Counted))
Unread(e) ==
    IF outq[e] = 0 THEN 0
    ELSE Whole(queue[outq[e]].ready) + Whole(queue[outq[e]].fresh)

\* check_hwm: while the marks are not changed, the messages in a pipe never
\* exceed the high water mark; the unsigned difference never wraps.
WithinHwm ==
    \A e \in End : state[e] = "active" /\ changes = 0 =>
        /\ peersRead[e] <= msgsWritten[e]
        /\ hwm[e] > 0 => Unread(e) <= hwm[e]

\* A writer stopped at the high water mark is not stopped for good, as long as
\* the marks are not changed: the peer still has enough unread messages to pass
\* a multiple of its low water mark (read), or the command that starts the
\* writer again is under way.
WriterResumes ==
    \A e \in End :
        /\ state[e] = "active" /\ state[Peer(e)] = "active" /\ ~outActive[e]
        /\ changes = 0
        => \/ InFlight(e, {"activate_write", "hiccup"})
           \/ \E n \in 1..Unread(e) : (msgsRead[Peer(e)] + n) % lwm[Peer(e)] = 0

\* set_hwms and send_hwms_to_peer: once a change has reached the peer, the
\* low water mark it reads with belongs to the high water mark this end
\* writes with.
MarksAgree ==
    \A e \in End :
        /\ alive[1] /\ alive[2]
        /\ ~InFlight(1, {"pipe_hwm"}) /\ ~InFlight(2, {"pipe_hwm"})
        => lwm[Peer(e)] = compute_lwm(hwm[e])

\* Flow control: the limit is kept, a writer stopped at it is started again, and
\* a change of the marks reaches both ends (check_hwm, compute_lwm, set_hwms).
FlowControl == WithinHwm /\ WriterResumes /\ MarksAgree

\* terminate(true) delivers everything: where nobody gives up his delay and
\* nobody hiccups, an end acknowledges only after it read every message.
DelayDelivers ==
    \A e \in End :
        alive[e] /\ state[e] = "term_ack_sent" /\ FALSE \notin Delays /\ Len(queue) = 2 =>
            queue[inq[e]].ready = <<>>

\* Once an end asked for termination both ends go away, with and without
\* delay, where no session hiccups.
Terminates ==
    \A e \in End : state[e] = "term_req_sent1" /\ Hiccuper = {}
                   ~> ~alive[1] /\ ~alive[2]

\* terminate: "The termination will happen asynchronously and user will be
\* notified about actual deallocation by 'terminated' event."
AlwaysTerminates ==
    \A e \in End : state[e] = "term_req_sent1" ~> ~alive[1] /\ ~alive[2]
=============================================================================
