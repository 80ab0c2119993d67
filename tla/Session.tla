------------------------------ MODULE Session ------------------------------
(**************************************************************************)
(* A session (session_base.cpp): the object of an I/O thread that stands  *)
(* between the pipe to a socket and the engine of a connection.  It       *)
(* outlives its connections: when an engine fails it clears what the      *)
(* engine left half done, connects again (an active session) or ends, and *)
(* when its owner asks it to end it lets the pipe drain for as long as    *)
(* the linger period says.                                                *)
(*                                                                        *)
(* The session's end of a pipe is "open", "waiting" (the socket has ended *)
(* the pipe and a delimiter closes what is left to read), "delim" (the    *)
(* delimiter was read first) or "ending" (nothing is read any more, the   *)
(* last acknowledgement is awaited).  Pipe.tla has the protocol of the    *)
(* two ends; here the other end is an environment that does its part.     *)
(**************************************************************************)
EXTENDS Naturals, Sequences

CONSTANTS MaxConnections,   \* engines attached in the life of the session
          MaxMessages       \* messages of two frames sent each way

VARIABLE st

PipeState == {"none", "open", "waiting", "delim", "ending"}

TypeOK ==
    st \in [active : BOOLEAN, immediate : BOOLEAN, sub : BOOLEAN, raw : BOOLEAN,
            reconnects : BOOLEAN, pipe : PipeState, zap : PipeState, old : 0..MaxConnections,
            inq : Seq({1, 2}), delim : BOOLEAN, incomplete : BOOLEAN, sent : 0..MaxMessages,
            half : 0..MaxConnections, rcvd : 0..MaxMessages,
            engine : {"none", "handshake", "up"}, connection : 0..MaxConnections, mid : 0..2,
            child : BOOLEAN, own : {"live", "asked", "ending", "dead"}, termed : BOOLEAN,
            pending : BOOLEAN, linger : {"unset", "zero", "some", "forever"}, timer : BOOLEAN,
            late : BOOLEAN, torn : BOOLEAN, cut : BOOLEAN, gone : BOOLEAN,
            failed : SUBSET {"half", "zap", "other"}]

\* process_plug: an active session starts connecting, a passive one is made for an engine.
Init ==
    \E active, immediate, sub, raw, reconnects \in BOOLEAN :
      /\ ~active => ~immediate /\ ~sub /\ ~reconnects
      /\ raw => ~immediate /\ ~sub
      \* A connecting socket that does not wait for the connection attaches its pipe at once.
      /\ st = [active |-> active, immediate |-> immediate, sub |-> sub, raw |-> raw,
               reconnects |-> reconnects, pipe |-> IF active /\ ~immediate THEN "open" ELSE "none",
               zap |-> "none", old |-> 0, inq |-> <<>>, delim |-> FALSE, incomplete |-> FALSE,
               sent |-> 0, half |-> 0, rcvd |-> 0, engine |-> "none", connection |-> 0, mid |-> 0,
               child |-> TRUE, own |-> "live", termed |-> FALSE, pending |-> FALSE,
               linger |-> "unset", timer |-> FALSE, late |-> FALSE,
               torn |-> FALSE, cut |-> FALSE, gone |-> FALSE, failed |-> {}]

\* An assertion that does not hold, or a call on a pipe that is not there, ends the process.
Failing(s, what, p) == IF p THEN s ELSE [s EXCEPT !.failed = @ \cup {what}]
Asserting(s, p) == Failing(s, "other", p)

\*---------------------------------------------------------------------------
\* What the session calls on its pipe

Reads(s) == s.pipe \in {"open", "waiting"}

\* process_delimiter.
Delimited(s) == [s EXCEPT !.pipe = IF @ = "open" THEN "delim" ELSE "ending", !.delim = FALSE]

\* check_read: a delimiter on its own is taken off the pipe.
check_read(s) == IF Reads(s) /\ s.inq = <<>> /\ s.delim THEN Delimited(s) ELSE s

\* terminate: half a message on its way to the socket is dropped with the pipe.  (cut: what is
\* left of a message the engine has begun to send can no longer be read.)
Terminated(s, delay) ==
    LET after == CASE s.pipe \in {"open", "delim"} -> "ending"
                   [] s.pipe = "waiting" /\ ~delay -> "ending"
                   [] OTHER -> s.pipe
    IN [s EXCEPT !.pipe = after, !.half = 0, !.cut = @ \/ (s.incomplete /\ after = "ending")]

ZapTerminated(s) == [s EXCEPT !.zap = IF @ = "none" THEN "none" ELSE "ending"]

\* hiccup: the pipe to the session starts afresh, unless it is ending.
Hiccuped(s) == IF s.pipe = "open" THEN [s EXCEPT !.inq = <<>>] ELSE s

\*---------------------------------------------------------------------------
\* The session

\* own_t::terminate: the owner is asked for the order to end.
AskToEnd(s) == [s EXCEPT !.own = IF @ = "live" THEN "asked" ELSE @]

\* own_t::process_term.
EndOwn(s) == Asserting([s EXCEPT !.own = "ending", !.pending = FALSE], s.own \in {"live", "asked"})

NoPipes(s) == s.pipe = "none" /\ s.zap = "none" /\ s.old = 0

\* What is left of the pipe once a message has been read to its last frame.
RestRead(s) == IF Head(s.inq) = 2 THEN Tail(s.inq) ELSE Tail(Tail(s.inq))

\* A clean_pipes that leaves the half-read message to the next connection.
CleanPipesNot(s) == [s EXCEPT !.half = 0, !.incomplete = FALSE]

\* clean_pipes: the half message to the socket is rolled back, the half message from it is read
\* to its end, which asserts that there is one.
clean_pipes(s) ==
    IF ~s.incomplete THEN [s EXCEPT !.half = 0]
    ELSE IF Reads(s) /\ s.inq # <<>>
      THEN [s EXCEPT !.half = 0, !.inq = RestRead(s), !.incomplete = FALSE]
      ELSE Failing(s, "half", FALSE)

\* A reconnect that gives up the pipe and leaves the linger timer running.
DetachedTimed(s) ==
    IF s.pipe # "none" /\ s.immediate
      THEN [Terminated(Hiccuped(s), FALSE) EXCEPT !.pipe = "none", !.old = @ + 1, !.inq = <<>>,
                                                  !.delim = FALSE, !.gone = TRUE]
      ELSE s

\* reconnect: a socket that queues nothing for an absent peer gives up the pipe.
Detached(s) ==
    IF s.pipe # "none" /\ s.immediate
      THEN [Terminated(Hiccuped(s), FALSE) EXCEPT !.pipe = "none", !.old = @ + 1, !.inq = <<>>,
                                                  !.delim = FALSE, !.timer = FALSE, !.gone = TRUE]
      ELSE s

Restarted(s) == IF s.reconnects THEN [s EXCEPT !.child = TRUE] ELSE AskToEnd(s)

reconnect(s) ==
    LET r == Restarted(Detached(s)) IN IF s.sub /\ r.pipe # "none" THEN Hiccuped(r) ELSE r

\* The end of a session whose engine failed for good.
GivesUp(s) ==
    IF s.pending
      THEN ZapTerminated(IF s.pipe = "none" THEN s ELSE Terminated(s, FALSE))
      ELSE AskToEnd(s)

engine_error(s, reason) ==
    LET forgotten == [s EXCEPT !.engine = "none", !.mid = 0]
        clean == IF s.pipe = "none" THEN forgotten ELSE clean_pipes(forgotten)
        next == IF s.active /\ reason # "protocol" THEN reconnect(clean) ELSE GivesUp(clean)
    IN check_read(next)

\* A pipe_terminated that does not wait for the pipes given up by reconnect.
AfterPipeEarly(s) ==
    LET r == IF s.raw /\ s.own # "ending" THEN AskToEnd([s EXCEPT !.engine = "none"]) ELSE s
    IN IF r.pending /\ r.pipe = "none" THEN EndOwn(r) ELSE r

\* The end of pipe_terminated.
AfterPipe(s) ==
    LET r == IF s.raw /\ s.own # "ending" THEN AskToEnd([s EXCEPT !.engine = "none"]) ELSE s
    IN IF r.pending /\ NoPipes(r) THEN EndOwn(r) ELSE r

pipe_terminated(s, which) ==
    AfterPipe(CASE which = "pipe" -> [s EXCEPT !.pipe = "none", !.inq = <<>>, !.delim = FALSE,
                                                 !.half = 0, !.timer = FALSE, !.gone = TRUE]
                [] which = "zap" -> [s EXCEPT !.zap = "none"]
                [] which = "old" -> [s EXCEPT !.old = @ - 1])

\* process_term.
Lingering(s, linger) ==
    LET timed == [s EXCEPT !.timer = linger = "some"]
        ended == Terminated(Asserting(timed, ~s.timer), linger # "zero")
    IN IF s.engine = "none" THEN check_read(ended) ELSE ended

process_term(s, linger) ==
    LET r == Asserting([s EXCEPT !.termed = TRUE, !.linger = linger], ~s.pending)
    IN IF NoPipes(s)
         THEN EndOwn(r)
         ELSE ZapTerminated(IF s.pipe = "none" THEN [r EXCEPT !.pending = TRUE]
                              ELSE Lingering([r EXCEPT !.pending = TRUE], linger))

\* read_activated: without an engine, the pipe to the socket is asked, whichever pipe was meant.
read_activated(s) ==
    IF s.engine # "none" THEN s ELSE check_read(Failing(s, "zap", s.pipe # "none"))

\* process_attach: the pipe is made with the first engine, and anew after one was given up.
process_attach(s) ==
    LET piped == IF s.pipe = "none" /\ s.own # "ending"
                   THEN [s EXCEPT !.pipe = "open", !.late = s.pending] ELSE s
    IN Asserting([piped EXCEPT !.child = FALSE, !.engine = "handshake",
                               !.connection = @ + 1, !.mid = 0], s.engine = "none")

\*---------------------------------------------------------------------------
\* Steps

Alive == st.own # "dead"

\* The connecter or the listener hands over an engine.
Attach ==
    /\ Alive /\ st.child /\ st.connection < MaxConnections
    /\ st' = process_attach(st)

\* The connecter is told to end with the session.
ChildEnds == st.own = "ending" /\ st.child /\ st' = [st EXCEPT !.child = FALSE]

\* zap_connect, while the mechanism authenticates the peer.
ZapConnect ==
    /\ st.engine = "handshake" /\ st.zap = "none" /\ st.own # "ending"
    /\ st' = [st EXCEPT !.zap = "open"]

ZapReply ==
    /\ st.zap = "open"
    /\ st' = read_activated(st)

Handshaken == st.engine = "handshake" /\ st' = [st EXCEPT !.engine = "up"]

\* The socket writes a message of two frames.
SocketWrites ==
    /\ st.pipe = "open" /\ st.sent < MaxMessages
    /\ st' = read_activated([st EXCEPT !.sent = @ + 1, !.inq = @ \o <<1, 2>>])

\* pull_msg: the engine puts the next frame on the wire.  A second frame belongs to the first
\* that went before it on the same connection.
pull_msg ==
    /\ st.engine = "up" /\ Reads(st) /\ st.inq # <<>>
    /\ st' = [st EXCEPT !.inq = Tail(@), !.incomplete = Head(st.inq) = 1,
                        !.mid = Head(st.inq) % 2,
                        !.torn = @ \/ Head(st.inq) # st.mid + 1]

PullDelimiter ==
    /\ st.engine = "up" /\ Reads(st) /\ st.inq = <<>> /\ st.delim
    /\ st' = Delimited(st)

\* push_msg: the next frame of a message comes off the connection.
push_msg ==
    /\ st.engine = "up" /\ st.pipe = "open" /\ st.rcvd < MaxMessages
    /\ IF st.half = 0
         THEN st' = [st EXCEPT !.half = st.connection]
         ELSE st' = [st EXCEPT !.half = 0, !.rcvd = @ + 1,
                               !.torn = @ \/ st.half # st.connection]

EngineError(reason) ==
    /\ Alive /\ st.engine # "none"
    /\ st' = engine_error(st, reason)

\* The socket ends the pipe: process_pipe_term at the session's end, a delimiter behind the
\* messages.
SocketEndsPipe ==
    /\ st.pipe = "open"
    /\ LET ended == [st EXCEPT !.pipe = "waiting", !.delim = TRUE, !.half = 0]
       IN st' = read_activated(ended)

SocketEndsDelimited == st.pipe = "delim" /\ st' = [st EXCEPT !.pipe = "ending"]

\* process_pipe_term_ack.
PipeAcked(which) ==
    /\ Alive
    /\ CASE which = "pipe" -> st.pipe = "ending"
         [] which = "zap" -> st.zap = "ending"
         [] which = "old" -> st.old > 0
    /\ st' = pipe_terminated(st, which)

\* The ZAP handler closes its socket.
ZapEnds == st.zap = "open" /\ st' = ZapTerminated(st)

\* The order to end comes once, asked for or not.
Term(linger) ==
    /\ ~st.termed
    /\ st' = process_term(st, linger)

timer_event ==
    /\ st.timer
    /\ st' = Terminated(Asserting([st EXCEPT !.timer = FALSE], st.pipe # "none"), FALSE)

\* The destructor, once the children have ended.
Destroy ==
    /\ st.own = "ending" /\ ~st.child
    /\ st' = Asserting([st EXCEPT !.own = "dead", !.engine = "none", !.timer = FALSE],
                       st.pipe = "none" /\ st.zap = "none")

Next ==
    /\ st.failed = {}
    /\ \/ Attach \/ ChildEnds \/ ZapConnect \/ ZapReply \/ Handshaken
       \/ SocketWrites \/ pull_msg \/ PullDelimiter \/ push_msg
       \/ \E reason \in {"connection", "timeout", "protocol"} : EngineError(reason)
       \/ SocketEndsPipe \/ SocketEndsDelimited
       \/ \E which \in {"pipe", "zap", "old"} : PipeAcked(which)
       \/ ZapEnds \/ \E linger \in {"zero", "some", "forever"} : Term(linger)
       \/ timer_event \/ Destroy

Spec == Init /\ [][Next]_st

\*---------------------------------------------------------------------------

\* The assertions of the session: an engine never meets another one, the timer finds its pipe, and
\* the pipes are gone when the session is destroyed.  Two do not hold in every order, each in one
\* case only.  clean_pipes reads half a message to its end, unless the pipe was ended with the
\* message half sent, after which an engine that fails aborts, on that pipe or on the next one.
\* read_activated finds the pipe, unless the pipe has ended or was given up: the reply of the ZAP
\* handler to an engine that has failed then calls a null pointer.
AssertionsHold ==
    /\ "other" \notin st.failed
    /\ "half" \in st.failed => st.cut
    /\ "zap" \in st.failed => st.gone /\ st.zap = "open"

\* No message is begun on one connection and ended on another, either way.
ConnectionsStartClean == ~st.torn

\* A session told to end is waiting for something that comes: a pipe is being ended, the linger
\* timer runs, or the socket asked for the messages to be sent however long it takes.  (The one
\* other pipe is made for an engine that arrives after the order to end, while a given-up pipe is
\* still being ended: the socket ends it if it is closing, and else it stays.)
EndIsNear ==
    /\ st.pending => ~NoPipes(st)
    /\ st.pending /\ st.linger # "forever" /\ st.pipe \in {"open", "waiting", "delim"} =>
         st.timer \/ st.late
    /\ st.own \in {"ending", "dead"} => NoPipes(st)
=============================================================================
