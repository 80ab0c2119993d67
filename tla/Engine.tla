------------------------------- MODULE Engine -------------------------------
(***************************************************************************)
(* The engine of a connection (stream_engine_base.cpp, and the parts of    *)
(* zmtp_engine.cpp that come after the greeting): it decodes what the peer *)
(* sends and pushes it to the session's pipe until the pipe is full, pulls *)
(* messages off the pipe and sends them until there is none, and is        *)
(* restarted by the pipe on both sides.  Four timers guard the connection. *)
(* A connection that fails is replaced by another engine on the same pipe. *)
(*                                                                         *)
(* `process` and `next` are the two function pointers.  A batch is one     *)
(* frame, and the bytes of the batch are written in one go, not at all, or *)
(* with an error, so that every cut between two events happens.            *)
(***************************************************************************)
EXTENDS Naturals, Sequences, FiniteSets

CONSTANTS Hwm,              \* messages the pipe to the socket holds
          MaxFrames,        \* messages the peer sends on one connection
          MaxPings,         \* pings it sends among them
          MaxSent,          \* messages the application sends
          MaxBoth,          \* pings on a connection and messages sent together
          MaxConnections

VARIABLE st

\* What the peer sends: its messages are numbered, `hello` is its part of the handshake.
Hello == 0
Ping == MaxFrames + 1
Nothing == MaxFrames + 2
Frame == 0..Ping

TypeOK ==
    st \in [protocol : {"v1", "v3"}, recvId : BOOLEAN, notify : BOOLEAN, heart : BOOLEAN,
            zap : BOOLEAN, engine : BOOLEAN, connection : 1..MaxConnections,
            handshaking : BOOLEAN, mechanism : {"hello", "sent", "zap", "welcome", "ready"},
            process : {"routing_id", "handshake", "credential", "decode", "push_one", "push"},
            next : {"routing_id", "handshake", "pull", "ping", "pong"},
            wire : Seq(Frame), count : 0..MaxFrames, pings : 0..MaxPings,
            closed : BOOLEAN, buf : Seq(Frame), cur : Frame \cup {Nothing},
            out : {"none", "greeting", "welcome", "ping", "pong", "message"},
            inStop : BOOLEAN, outStop : BOOLEAN, ioError : BOOLEAN, pollin : BOOLEAN,
            pollout : BOOLEAN, broken : BOOLEAN, rc : {"ok", "again", "error"},
            timers : SUBSET {"handshake", "heartbeat", "timeout", "ttl"},
            pipe : 0..(Hwm + 2), outActive : BOOLEAN, wakeWrite : BOOLEAN,
            queue : 0..MaxSent, inActive : BOOLEAN, wakeRead : BOOLEAN, sent : 0..MaxSent,
            last : 0..MaxFrames, order : BOOLEAN, crowded : BOOLEAN,
            failed : SUBSET {"input", "output", "id"}]

\* An assertion that does not hold ends the process.
Asserting(s, what, p) == [s EXCEPT !.failed = IF p THEN @ ELSE @ \cup {what}]

\*---------------------------------------------------------------------------
\* The pipe, as the session's push_msg and pull_msg use it

\* push_msg: a full pipe says so once, and is quiet until the socket has read.
Push(s, counted) ==
    IF s.outActive /\ s.pipe < Hwm
      THEN [s EXCEPT !.rc = "ok", !.pipe = IF counted THEN @ + 1 ELSE @]
      ELSE [s EXCEPT !.rc = "again", !.outActive = FALSE]

\* A frame of the peer reaches the pipe.
PushFrame(s, n) ==
    LET r == Push(s, TRUE)
    IN IF r.rc = "ok" THEN [r EXCEPT !.last = n, !.order = @ /\ n = s.last + 1] ELSE r

\* pull_msg: an empty pipe puts the reader to sleep.
Pull(s) ==
    IF s.inActive /\ s.queue > 0 THEN [s EXCEPT !.queue = @ - 1, !.out = "message"]
                                 ELSE [s EXCEPT !.inActive = FALSE]

\*---------------------------------------------------------------------------
\* Sending

\* mechanism_ready: the pointers change unless the pipe refuses the routing id or the notice.
mechanism_ready(s) ==
    LET timed == IF s.heart THEN [s EXCEPT !.timers = @ \cup {"heartbeat"}] ELSE s
        id == IF s.recvId THEN Push(timed, FALSE) ELSE [timed EXCEPT !.rc = "ok"]
        told == IF s.notify /\ id.rc = "ok" THEN Push(id, TRUE) ELSE id
    IN IF told.rc = "ok" THEN [told EXCEPT !.next = "pull", !.process = "credential"]
                         ELSE [told EXCEPT !.rc = "ok"]

\* next_handshake_command.
NextHandshake(s) ==
    CASE s.mechanism = "ready" -> Pull(mechanism_ready(s))
      \* The batch has room for another command, so the mechanism is asked again at once.
      [] s.mechanism = "welcome" ->
           [mechanism_ready([s EXCEPT !.mechanism = "ready"]) EXCEPT !.out = "welcome"]
      [] s.mechanism = "hello" /\ ~s.zap -> [s EXCEPT !.mechanism = "sent", !.out = "welcome"]
      [] OTHER -> s

\* (this->*_next_msg): what is encoded next, if anything.
NextMsg(s) ==
    CASE s.next = "routing_id" -> [s EXCEPT !.out = "greeting", !.next = "pull"]
      [] s.next = "handshake" -> NextHandshake(s)
      [] s.next = "pull" -> Pull(s)
      [] s.next = "ping" -> [s EXCEPT !.out = "ping", !.next = "pull",
                                      !.timers = @ \cup {"timeout"}]
      [] s.next = "pong" -> [s EXCEPT !.out = "pong", !.next = "pull"]

\* write: the whole batch, nothing, or a failure that is left to the reading side to report.
Write(s, w) ==
    CASE w = "error" -> [s EXCEPT !.pollout = FALSE, !.broken = TRUE]
      [] w = "none" -> s
      [] w = "all" -> [s EXCEPT !.out = "none", !.pollout = @ /\ ~s.handshaking]

out_event(s, w) ==
    LET a == Asserting(s, "output", ~s.ioError)
        n == IF s.out = "none" /\ ~s.handshaking THEN NextMsg(a) ELSE a
    IN IF n.out = "none"
         THEN IF s.handshaking THEN n ELSE [n EXCEPT !.outStop = TRUE, !.pollout = FALSE]
         ELSE Write(n, w)

\* A restart_output that leaves the poller alone.
RestartOutputUnpolled(s, w) ==
    IF s.ioError THEN s ELSE out_event([s EXCEPT !.outStop = FALSE], w)

restart_output(s, w) ==
    IF s.ioError THEN s
    ELSE out_event(IF s.outStop THEN [s EXCEPT !.pollout = TRUE, !.outStop = FALSE] ELSE s, w)

\*---------------------------------------------------------------------------
\* Receiving

\* process_handshake_command: a server that authenticates waits for the ZAP handler, a mechanism
\* without roles is ready when both sides have sent and received.
ProcessHandshake(s, w) ==
    IF s.cur # Hello \/ s.mechanism \notin {"hello", "sent"} THEN [s EXCEPT !.rc = "error"]
    ELSE LET m == CASE s.mechanism = "sent" -> mechanism_ready([s EXCEPT !.mechanism = "ready"])
                    [] s.zap -> [s EXCEPT !.mechanism = "zap"]
                    [] OTHER -> [s EXCEPT !.mechanism = "welcome"]
         IN [IF m.outStop THEN restart_output(m, w) ELSE m EXCEPT !.rc = "ok"]

\* decode_and_push: any frame shows that the peer is alive; a ping is answered at once, by way of
\* out_event, and is not passed on.
decode_and_push(s, w) ==
    LET heard == [s EXCEPT !.timers = @ \ {"timeout", "ttl"}, !.rc = "ok"]
    IN IF s.cur = Ping
         THEN [out_event([heard EXCEPT !.timers = @ \cup {"ttl"}, !.next = "pong"], w)
                 EXCEPT !.rc = "ok"]
         ELSE LET r == PushFrame(heard, s.cur)
              IN IF r.rc = "again" THEN [r EXCEPT !.process = "push_one"] ELSE r

\* write_credential: the name of an authenticated peer goes before its first message.
write_credential(s, w) ==
    LET c == IF s.zap THEN Push(s, TRUE) ELSE [s EXCEPT !.rc = "ok"]
    IN IF c.rc = "ok" THEN decode_and_push([c EXCEPT !.process = "decode"], w) ELSE c

\* A push_one that passes over the frame that was refused.
PushOneSkips(s) == [s EXCEPT !.process = "decode", !.rc = "ok"]

\* push_one_then_decode_and_push: the frame the pipe refused is not decoded again.
push_one(s) ==
    LET r == PushFrame(s, s.cur) IN IF r.rc = "ok" THEN [r EXCEPT !.process = "decode"] ELSE r

\* process_routing_id_msg, of the protocols without a mechanism.
ProcessRoutingId(s) ==
    LET r == IF s.recvId THEN Push(s, FALSE) ELSE [s EXCEPT !.rc = "ok"]
    IN Asserting([r EXCEPT !.process = "push", !.rc = "ok"], "id", r.rc = "ok")

\* (this->*_process_msg) on the frame the decoder holds.
ProcessMsg(s, w) ==
    CASE s.process = "routing_id" -> ProcessRoutingId(s)
      [] s.process = "handshake" -> ProcessHandshake(s, w)
      [] s.process = "credential" -> write_credential(s, w)
      [] s.process = "decode" -> decode_and_push(s, w)
      [] s.process = "push_one" -> push_one(s)
      [] s.process = "push" -> PushFrame(s, s.cur)

\* The decoder keeps a frame that is refused.
Processed(s, w) ==
    LET r == ProcessMsg(s, w) IN [r EXCEPT !.cur = IF r.rc = "ok" THEN Nothing ELSE @]

RECURSIVE Decode(_, _)
\* The loop over the buffer, which ends with it or with a frame that is refused.
Decode(s, w) ==
    IF s.buf = <<>> \/ s.rc # "ok" THEN s
    ELSE Decode(Processed([s EXCEPT !.cur = Head(s.buf), !.buf = Tail(s.buf)], w), w)

\* error: the engine is gone, the session keeps the pipe.  (Not after an assertion has failed.)
error(s) ==
    LET told == IF s.notify /\ ~s.handshaking THEN Push(s, TRUE) ELSE s
    IN IF s.failed # {} THEN s ELSE
       [told EXCEPT !.engine = FALSE, !.timers = {}, !.pollin = FALSE, !.pollout = FALSE,
                    !.wire = <<>>, !.buf = <<>>, !.cur = Nothing, !.out = "none", !.rc = "ok",
                    !.inStop = FALSE, !.outStop = FALSE, !.ioError = FALSE, !.closed = FALSE,
                    !.broken = FALSE, !.handshaking = TRUE, !.mechanism = "hello",
                    !.process = "routing_id", !.next = "routing_id", !.count = 0, !.pings = 0,
                    !.last = 0]

\* The end of in_event_internal.
Received(s) ==
    CASE s.rc = "error" -> error(s)
      [] s.rc = "again" -> [s EXCEPT !.rc = "ok", !.inStop = TRUE, !.pollin = FALSE]
      [] OTHER -> s

\* in_event, past the greeting: a connection whose input is stopped is only left alone.
in_event(s, w) ==
    IF s.inStop THEN [s EXCEPT !.ioError = TRUE, !.pollin = FALSE, !.pollout = FALSE]
    ELSE IF s.buf = <<>> /\ s.wire = <<>> THEN IF s.closed THEN error(s) ELSE s
    ELSE Received(Decode(IF s.buf = <<>> THEN [s EXCEPT !.buf = s.wire, !.wire = <<>>] ELSE s, w))

\* First the frame that was refused, which the decoder holds, then what is left in the buffer.
Restarted(s, r, w) ==
    IF ~(s.inStop /\ s.cur # Nothing) THEN Asserting(s, "input", FALSE)
    ELSE IF r.rc = "again" THEN [r EXCEPT !.rc = "ok"]
    ELSE IF r.rc = "error" \/ r.ioError THEN error(r)
    ELSE in_event([r EXCEPT !.inStop = FALSE, !.pollin = TRUE], w)
restart_input(s, w) == {Restarted(s, r, w) : r \in {Decode(Processed(s, w), w)}}

\*---------------------------------------------------------------------------
\* Steps

\* plug and plug_internal, on a pipe that may hold what earlier connections left.
Plugged(s, protocol) ==
    [s EXCEPT !.protocol = protocol, !.engine = TRUE, !.handshaking = TRUE, !.mechanism = "hello",
              !.process = "routing_id", !.next = "routing_id", !.wire = <<Hello>>, !.count = 0,
              !.pings = 0, !.closed = FALSE, !.out = "greeting", !.pollin = TRUE, !.pollout = TRUE,
              !.broken = FALSE, !.timers = {"handshake"}, !.last = 0]

Init ==
    \E recvId, notify, heart, zap \in BOOLEAN, protocol \in {"v1", "v3"} :
      /\ zap => protocol = "v3"
      /\ st = Plugged([protocol |-> protocol, recvId |-> recvId, notify |-> notify, heart |-> heart,
                       zap |-> zap, engine |-> TRUE, connection |-> 1, handshaking |-> TRUE,
                       mechanism |-> "hello", process |-> "routing_id", next |-> "routing_id",
                       wire |-> <<>>, count |-> 0, pings |-> 0, closed |-> FALSE, buf |-> <<>>,
                       cur |-> Nothing, out |-> "none", inStop |-> FALSE, outStop |-> FALSE,
                       ioError |-> FALSE, pollin |-> TRUE, pollout |-> TRUE, broken |-> FALSE,
                       rc |-> "ok", timers |-> {}, pipe |-> 0, outActive |-> TRUE,
                       wakeWrite |-> FALSE, queue |-> 0, inActive |-> FALSE, wakeRead |-> FALSE,
                       sent |-> 0, last |-> 0, order |-> TRUE, crowded |-> FALSE, failed |-> {}], protocol)

Outcome == {"all", "none", "error"}

\* handshake: the greeting has come, its last byte with the first frames.
Greeted ==
    /\ st.engine /\ st.handshaking /\ st.wire # <<>>
    /\ \E w \in Outcome :
         LET g == [st EXCEPT !.handshaking = FALSE, !.timers = @ \ {"handshake"},
                             !.pollout = @ \/ st.out = "none",
                             !.process = IF st.protocol = "v3" THEN "handshake" ELSE @,
                             !.next = IF st.protocol = "v3" THEN "handshake" ELSE @]
         IN st' = in_event(g, w)

GreetingFails == st.engine /\ st.handshaking /\ st.closed /\ st' = error(st)

InEvent ==
    /\ st.engine /\ ~st.handshaking /\ st.pollin /\ ~st.ioError
    /\ st.wire # <<>> \/ st.closed
    /\ \E w \in Outcome : st' = in_event(st, w)

\* The poller reports a broken connection although no input is polled for.
BreaksWhileStopped ==
    /\ st.engine /\ st.inStop /\ ~st.ioError /\ st.closed
    /\ st' = in_event(st, "all")

OutEvent ==
    /\ st.engine /\ st.pollout /\ ~st.ioError
    /\ \E w \in Outcome : st' = out_event(st, w)

\* zap_msg_available: a reply that is refused ends the connection.
zap_msg_available(good, w) ==
    LET m == [st EXCEPT !.mechanism = "welcome"] IN
    IF ~good THEN st' = error(st)
    ELSE \E i \in IF st.inStop THEN restart_input(m, w) ELSE {m} :
           st' = IF i.engine /\ i.outStop THEN restart_output(i, w) ELSE i

ZapReply ==
    /\ st.engine /\ st.mechanism = "zap"
    /\ \E w \in Outcome, good \in BOOLEAN : zap_msg_available(good, w)

\* activate_write, activate_read: the session passes them to the engine, if there is one.
WriteActivated ==
    /\ st.wakeWrite
    /\ \E w \in Outcome :
         LET s == [st EXCEPT !.wakeWrite = FALSE, !.outActive = TRUE]
         IN st' \in IF st.engine /\ ~st.outActive THEN restart_input(s, w) ELSE {s}

ReadActivated ==
    /\ st.wakeRead
    /\ \E w \in Outcome :
         LET s == [st EXCEPT !.wakeRead = FALSE, !.inActive = TRUE]
         IN st' = IF st.engine /\ ~st.inActive THEN restart_output(s, w) ELSE s

TimerEvent(id) ==
    /\ st.engine /\ id \in st.timers
    /\ IF id = "heartbeat"
         THEN \E w \in Outcome : st' = out_event([st EXCEPT !.next = "ping"], w)
         ELSE st' = error([st EXCEPT !.timers = @ \ {id}])

\* The session has connected again.  (crowded: the pipe has refused something before, or has no
\* room for the routing id and the notice of a connection.)
Reconnected ==
    /\ ~st.engine /\ st.connection < MaxConnections
    /\ \E protocol \in {"v1", "v3"} :
         /\ st.zap => protocol = "v3"
         /\ st' = Plugged([st EXCEPT !.connection = @ + 1,
                                     !.crowded = ~st.outActive \/ st.pipe + 2 > Hwm], protocol)

\* The socket at the other end of the pipe.
SocketReads == st.pipe > 0 /\ st' = [st EXCEPT !.pipe = @ - 1, !.wakeWrite = TRUE]

SocketSends ==
    /\ st.sent < MaxSent /\ st.sent + st.pings < MaxBoth
    /\ st' = [st EXCEPT !.sent = @ + 1, !.queue = @ + 1, !.wakeRead = @ \/ ~st.inActive]

\* The peer: it talks once it has seen our part of the handshake, and may close at any time.
PeerReady == st.protocol = "v1" \/ (st.mechanism \in {"sent", "ready"} /\ st.out # "welcome")

PeerSends ==
    /\ st.engine /\ ~st.closed /\ PeerReady /\ ~st.handshaking /\ Len(st.wire) < 2
    /\ \/ st.count < MaxFrames /\ st' = [st EXCEPT !.wire = Append(@, st.count + 1), !.count = @ + 1]
       \/ /\ st.pings < MaxPings /\ st.sent + st.pings < MaxBoth /\ st.protocol = "v3"
          /\ st' = [st EXCEPT !.wire = Append(@, Ping), !.pings = @ + 1]

PeerCloses == st.engine /\ ~st.closed /\ st' = [st EXCEPT !.closed = TRUE]

Next ==
    /\ st.failed = {}
    /\ \/ Greeted \/ GreetingFails \/ InEvent \/ BreaksWhileStopped \/ OutEvent \/ ZapReply
       \/ WriteActivated \/ ReadActivated
       \/ \E id \in {"handshake", "heartbeat", "timeout", "ttl"} : TimerEvent(id)
       \/ Reconnected \/ SocketReads \/ SocketSends \/ PeerSends \/ PeerCloses

Spec == Init /\ [][Next]_st

\*---------------------------------------------------------------------------

\* The assertions of the engine: nothing is written to a connection given up by the poller, input
\* is restarted only where it was stopped, with the frame that stopped it, and the routing id of a
\* peer finds room.  The first does not hold with heartbeats: a connection that breaks while its
\* input is stopped stays, and the next ping, of either side, aborts in out_event.  The other two
\* do not hold of an engine whose connection began with a full pipe: the room that comes then is
\* told to an engine that did not stop, and process_routing_id_msg does not expect a refusal.
AssertionsHold ==
    /\ "output" \in st.failed => st.heart \/ st.pings > 0
    /\ st.failed \cap {"input", "id"} # {} => st.crowded

\* The frames of a connection reach the pipe in order, each of them once, although the pipe
\* refuses some of them and the engine offers them again.
FramesOnceInOrder == st.order

\* An engine that has stopped is started again: stopped input waits for a full pipe that will be
\* read, stopped output for a pipe that has nothing or whose wake-up is on its way.
NeverStuck ==
    st.failed = {} /\ st.engine /\ ~st.handshaking =>
      /\ st.inStop => ~st.outActive /\ (st.pipe > 0 \/ st.wakeWrite)
      /\ ~st.inStop => st.pollin
      /\ st.queue > 0 /\ ~st.ioError /\ ~st.broken /\ st.mechanism # "zap" =>
           st.pollout \/ st.wakeRead \/ st.mechanism \in {"hello", "sent"}

\* A handshake that does not complete is ended by its timer, as doc/zmq_setsockopt.txt says of
\* ZMQ_HANDSHAKE_IVL: an engine whose security mechanism is not ready yet has the timer running.
HandshakeTimed ==
    st.engine /\ st.protocol = "v3" /\ st.mechanism # "ready" => "handshake" \in st.timers
=============================================================================
