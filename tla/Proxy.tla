------------------------------- MODULE Proxy --------------------------------
(***************************************************************************)
(* zmq::proxy (proxy.cpp), built with ZMQ_HAVE_POLLER: a thread moves      *)
(* messages between two sockets, or through one, copies them to a capture  *)
(* socket and obeys a control socket.  It waits on one of seven pollers,   *)
(* chosen by what was possible in the last round.                          *)
(***************************************************************************)
EXTENDS Naturals, Sequences

CONSTANTS
    Burst,        \* proxy_burst_size
    Hwm,          \* messages a socket takes before it is full
    MaxMsgs,      \* bound: messages that arrive
    MaxCommands   \* bound: control commands

VARIABLE st

Side == {"F", "B"}
Command == {"PAUSE", "RESUME", "TERMINATE", "STATISTICS"}
Other(x) == IF x = "F" THEN "B" ELSE "F"

\* What each poller waits for; all of them wait for control_ too.
Waits ==
    [in |-> {<<"F", "in">>, <<"B", "in">>}, control |-> {},
     receive_blocked |-> {<<"F", "out">>, <<"B", "in">>, <<"B", "out">>},
     send_blocked |-> {<<"B", "out">>, <<"F", "in">>, <<"F", "out">>},
     both_blocked |-> {<<"F", "out">>, <<"B", "out">>},
     frontend_only |-> {<<"F", "in">>, <<"F", "out">>},
     backend_only |-> {<<"B", "in">>, <<"B", "out">>}]

\* same: frontend_ and backend_ are one socket.  queue: messages that can be
\* received, room: those that can be sent without waiting, n: arrived so far;
\* control: commands, replies: of STATISTICS.  can: frontend_in and the other
\* three, cin: control_in; wait: poller_wait.  In forward: the direction, the
\* messages moved in this burst and the one received and not yet sent; out,
\* captured: what was sent and captured; stats: msg_in and msg_out.
Init ==
    \E same \in BOOLEAN :
        st = [same |-> same, queue |-> [x \in Side |-> <<>>], room |-> [x \in Side |-> 0],
              n |-> [x \in Side |-> 0], control |-> <<>>, commands |-> 0, replies |-> <<>>,
              state |-> "active", can |-> {}, cin |-> FALSE, wait |-> "in", pc |-> "wait",
              from |-> "F", moved |-> 0, hand |-> <<>>, done |-> {},
              out |-> [x \in Side |-> <<>>], captured |-> [x \in Side |-> <<>>],
              in |-> [x \in Side |-> 0], stats |-> [x \in Side |-> 0], res |-> "none", term |-> FALSE]

\* The socket behind a name.
At(s, x) == IF s.same THEN "F" ELSE x

-----------------------------------------------------------------------------
(* The peers, the controlling thread, the end of the context *)

Arrives(x) ==
    /\ st.pc # "end" /\ st.n["F"] + st.n["B"] < MaxMsgs /\ (st.same => x = "F")
    /\ st' = [st EXCEPT !.n[x] = @ + 1, !.queue[x] = Append(@, <<x, st.n[x] + 1>>)]
\* Peers read, connect or leave: the room changes.
RoomChanges(x, r) ==
    /\ st.pc # "end" /\ r # st.room[x] /\ (st.same => x = "F")
    /\ st' = [st EXCEPT !.room[x] = r]
Commands(c) ==
    /\ st.pc # "end" /\ st.commands < MaxCommands
    /\ st' = [st EXCEPT !.commands = @ + 1, !.control = Append(@, c)]
Term == st.pc # "end" /\ ~st.term /\ st' = [st EXCEPT !.term = TRUE]

-----------------------------------------------------------------------------
(* A round of the loop *)

Has(s, e) ==
    IF e[2] = "in" THEN s.queue[At(s, e[1])] # <<>> ELSE s.room[At(s, e[1])] > 0
\* With one socket only its input and, when blocked, its output are polled for.
WaitsFor(s) ==
    IF ~s.same THEN Waits[s.wait]
    ELSE CASE s.wait = "in" -> {<<"F", "in">>}
           [] s.wait = "receive_blocked" -> {<<"F", "out">>}
           [] OTHER -> {}
Signalled(s) == s.control # <<>> \/ s.term \/ \E e \in WaitsFor(s) : Has(s, e)

Fails(s, r) == [s EXCEPT !.pc = "end", !.res = r]
Wait ==
    /\ st.pc = "wait" /\ Signalled(st)
    /\ st' = IF st.term THEN Fails(st, "ETERM") ELSE [st EXCEPT !.pc = "all"]
\* A signal ends a wait: for events, or in a call of one of the sockets.
Interrupted ==
    /\ st.pc \in {"wait", "capture", "send"} \/ (st.pc = "control" /\ st.cin)
    /\ st' = Fails(st, "EINTR")

\* poller_all: the flags of the sockets that have events are set anew, those
\* of a socket without any stay.
Seen(s, x) == {e \in {<<x, "in">>, <<x, "out">>} : Has(s, e)}
Flags(s, x) ==
    IF Seen(s, x) = {} THEN s.can ELSE {e \in s.can : e[1] # x} \cup Seen(s, x)
All ==
    /\ st.pc = "all"
    /\ LET f == [st EXCEPT !.can = Flags(st, "F")]
           b == IF st.same THEN f ELSE [f EXCEPT !.can = Flags(f, "B")]
       IN  st' = IF st.term THEN Fails(st, "ETERM")
                 ELSE [b EXCEPT !.pc = "control", !.cin = st.control # <<>>]

\* The counters of both sides, in one message to the controlling application.
reply_stats(s) == [s EXCEPT !.replies = Append(@, <<s.in, s.stats>>)]
\* The command is received, captured (which may wait) and obeyed.
Obeyed(s, c) ==
    CASE c = "PAUSE" -> [s EXCEPT !.state = "paused", !.wait = "control"]
      [] c = "RESUME" -> [s EXCEPT !.state = "active", !.wait = "in"]
      [] c = "TERMINATE" -> [s EXCEPT !.state = "terminated"]
      [] c = "STATISTICS" -> reply_stats(s)
Goes(s) ==
    CASE s.state = "active" -> [s EXCEPT !.pc = "request", !.done = {}]
      [] s.state = "paused" -> [s EXCEPT !.pc = "wait"]
      [] s.state = "terminated" -> Fails(s, "ok")
Control ==
    /\ st.pc = "control"
    /\ st' = IF ~st.cin THEN Goes(st)
             ELSE IF st.term THEN Fails(st, "ETERM")
             ELSE LET c == Head(st.control)
                      s == [st EXCEPT !.control = Tail(@), !.cin = FALSE]
                  IN  Goes(Obeyed(s, c))

\* A request, then a reply, is moved if the flags allow it.
Begins(s, x) ==
    IF <<x, "in">> \in s.can /\ (<<Other(x), "out">> \in s.can \/ (s.same /\ x = "F"))
    THEN [s EXCEPT !.pc = "recv", !.from = x, !.moved = 0]
    ELSE [s EXCEPT !.pc = IF x = "F" THEN "reply" ELSE "choose"]
Request == st.pc = "request" /\ st' = Begins(st, "F")
Reply == st.pc = "reply" /\ st' = Begins(st, "B")

-----------------------------------------------------------------------------
(* forward *)

Forwarded(s) ==
    [s EXCEPT !.done = @ \cup {s.from},
              !.can = @ \ {<<s.from, "in">>, <<Other(s.from), "out">>},
              !.pc = IF s.from = "F" THEN "reply" ELSE "choose"]
\* The next message is received; there must be a first one.
Recv ==
    /\ st.pc = "recv"
    /\ st' = IF st.term THEN Fails(st, "ETERM")
             ELSE IF st.moved = Burst THEN Forwarded(st)
             ELSE IF st.queue[st.from] = <<>>
             THEN IF st.moved > 0 THEN Forwarded(st) ELSE Fails(st, "EAGAIN")
             ELSE [st EXCEPT !.queue[st.from] = Tail(@), !.hand = <<Head(st.queue[st.from])>>,
                             !.pc = "capture"]
\* A copy is sent to the capture socket, when that takes it.
Capture ==
    /\ st.pc = "capture"
    /\ st' = IF st.term THEN Fails(st, "ETERM")
             ELSE [st EXCEPT !.captured[st.from] = @ \o st.hand, !.pc = "send"]
\* It is sent as soon as there is room.
Send ==
    /\ st.pc = "send"
    /\ LET to == Other(st.from) IN
       \/ /\ st.term
          /\ st' = Fails(st, "ETERM")
       \/ /\ ~st.term /\ st.room[At(st, to)] > 0
          /\ st' = [st EXCEPT !.room[At(st, to)] = @ - 1, !.out[to] = Append(@, st.hand[1]),
                              !.hand = <<>>, !.moved = @ + 1, !.pc = "recv",
                              !.in[st.from] = @ + 1, !.stats[to] = @ + 1]

-----------------------------------------------------------------------------
(* The poller for the next round *)

Unblocked(w, x) ==
    LET mine == IF x = "F" THEN <<"send_blocked", "receive_blocked", "frontend_only">>
                ELSE <<"receive_blocked", "send_blocked", "backend_only">>
    IN  CASE w = "both_blocked" -> mine[1]
          [] w \in {mine[2], mine[3]} -> "in"
          [] OTHER -> w
Blocked(w, can, x) ==
    LET mine == IF x = "F" THEN <<"send_blocked", "receive_blocked", "backend_only">>
                ELSE <<"receive_blocked", "send_blocked", "frontend_only">>
    IN  CASE <<x, "in">> \notin can -> w
          [] <<x, "out">> \in can -> mine[3]
          [] w = mine[1] -> "both_blocked"
          [] w = "in" -> mine[2]
          [] OTHER -> w
Choose ==
    /\ st.pc = "choose"
    /\ LET f == IF "F" \in st.done THEN Unblocked(st.wait, "F") ELSE st.wait
           w == IF st.done = {} THEN Blocked(Blocked(st.wait, st.can, "F"), st.can, "B")
                ELSE IF "B" \in st.done THEN Unblocked(f, "B") ELSE f
       IN  st' = [st EXCEPT !.pc = "wait", !.wait = w]

Next ==
    \/ \E x \in Side : Arrives(x) \/ \E r \in 0..Hwm : RoomChanges(x, r)
    \/ \E c \in Command : Commands(c)
    \/ Term \/ Wait \/ Interrupted \/ All \/ Control \/ Request \/ Reply \/ Recv \/ Capture \/ Send \/ Choose

Spec == Init /\ [][Next]_st

-----------------------------------------------------------------------------
\* The proxy never waits over work: whatever poller it chose, one of its events
\* is there when a command waits, or a message whose other side has room and
\* the proxy is not paused.
NoWorkMissed ==
    st.pc = "wait" =>
        /\ st.control # <<>> => Signalled(st)
        /\ st.state = "active" =>
               \A x \in Side :
                   Has(st, <<x, "in">>) /\ (Has(st, <<Other(x), "out">>) \/ st.same) => Signalled(st)

\* Messages leave in the order they came, each once, captured before they are
\* sent; only the one in hand when the context ends or a signal comes is lost.
Moved ==
    /\ \A x \in Side :
           LET hand == IF st.from = x THEN st.hand ELSE <<>>
               out == st.out[Other(x)]
           IN  /\ out \o hand \o st.queue[x] = [i \in 1..st.n[x] |-> <<x, i>>]
               /\ st.captured[x] = out \/ (st.captured[x] = out \o hand /\ st.pc \in {"send", "end"})
               /\ st.pc = "send" => st.captured[x] = out \o hand
    /\ st.pc = "end" /\ st.hand # <<>> => st.res \in {"ETERM", "EINTR"}

\* The statistics of a reply belong together: what came in on one side went
\* out on the other.
StatsAgree == \A i \in DOMAIN st.replies : \A x \in Side : st.replies[i][1][x] = st.replies[i][2][Other(x)]

\* The proxy ends by the command TERMINATE, by the end of the context or by a
\* signal, never because a flag promised a message that was not there.
EndsOnPurpose == st.res # "EAGAIN"
=============================================================================
