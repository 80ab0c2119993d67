------------------------------- MODULE ReqRep -------------------------------
(***************************************************************************)
(* req_t (req.cpp) over dealer_t (dealer.cpp): requests go to servers in   *)
(* turn, a reply is taken from the server the request went to, and with    *)
(* ZMQ_REQ_CORRELATE only if it repeats the number of the request.  lb_t   *)
(* and fq_t are reduced to the choice of a pipe (Lb.tla, Fq.tla).  The     *)
(* servers answer a request at most once, late or never, with the frames   *)
(* they got up to the empty one; a foreign server may also send anything.  *)
(* The REP socket at the other end is the second part of the module.       *)
(***************************************************************************)
EXTENDS Ends, FiniteSets

CONSTANTS
    Server, NoServer,
    Settings,      \* the values of strict, corr and probe, set before the first connect
    MaxRequests,   \* bound: requests the application starts
    DiesAtLast     \* TRUE: the last frame of a request may meet a pipe that is ending

VARIABLE st

Empty == [kind |-> "empty"]
Id(n) == [kind |-> "id", v |-> n]
Body(n, i) == [kind |-> "body", v |-> <<n, i>>]
Envelope(s) == IF s.corr THEN <<Id(s.id), Empty>> ELSE <<Empty>>

\* link: o towards the server; todo: what a server has read and not answered;
\* recv, begins, reply, id, strict, corr: the members of req_t; probe: the one of
\* dealer_t; to: the pipe of the message lb_t is in the middle of, drop:
\* lb_t::_dropping; from: the same of fq_t; n: the request of the application, got: the frames of its reply;
\* gone: a pipe has ended since the request began; call: xrecv is in its loop.
Init ==
    \E o \in Settings :
        st = [link |-> [v \in Server |-> Link], todo |-> [v \in Server |-> <<>>],
              recv |-> FALSE, begins |-> TRUE, reply |-> NoServer, id |-> 0,
              strict |-> o.strict, corr |-> o.corr, probe |-> o.probe, to |-> NoServer,
              drop |-> FALSE,
              from |-> NoServer, n |-> 0, i |-> 0, got |-> <<>>, gone |-> FALSE,
              junk |-> FALSE, call |-> FALSE]

-----------------------------------------------------------------------------
(* Servers and pipes *)

\* dealer_t::xattach_pipe; ZMQ_PROBE_ROUTER sends an empty message first.
xattach_pipe(v) ==
    /\ st.link[v].st = "none"
    /\ st' = [st EXCEPT !.link[v].st = "open",
                        !.link[v].o = IF st.probe THEN Sent(@, <<Empty>>) ELSE @]
ServerReads(v) ==
    /\ st.link[v].st = "open" /\ Readable(st.link[v].o)
    /\ st' = [st EXCEPT !.link[v].o = ReadAll(@),
                        !.todo[v] = Append(@, Head(st.link[v].o.q))]
\* process_activate_write and lb_t::activated.
Activate(v) ==
    /\ st.link[v].st = "open" /\ Reportable(st.link[v].o)
    /\ st' = [st EXCEPT !.link[v].o = Reported(@)]
Answer(m) == SubSeq(m, 1, Len(m) - 1)
             \o [j \in 1..2 |-> [kind |-> "body", v |-> <<m[Len(m)].v[1], j>>]]
Answerable(m) == Len(m) > 1 /\ m[Len(m)].kind = "body" /\ m[Len(m) - 1] = Empty
ServerAnswers(v) ==
    /\ st.link[v].st = "open" /\ st.todo[v] # <<>>
    /\ st' = [st EXCEPT !.todo[v] = Tail(@), !.link[v].i.q =
                IF Answerable(Head(st.todo[v])) THEN Append(@, Answer(Head(st.todo[v])))
                ELSE @]
ServerSendsJunk(v) ==
    /\ st.link[v].st = "open" /\ ~st.junk
    /\ \E m \in {<<Empty>>, <<Id(0), Empty, Body(0, 1)>>, <<Body(0, 1), Body(0, 2)>>} :
          st' = [st EXCEPT !.link[v].i.q = Append(@, m), !.junk = TRUE]
ServerCloses(v) ==
    /\ st.link[v].st = "open" /\ st' = [st EXCEPT !.link[v].st = "drain"]
xpipe_terminated(v) ==
    /\ st.link[v].st = "drain" /\ ~Readable(st.link[v].i)
    /\ st' = [st EXCEPT !.link[v].st = "gone", !.gone = TRUE,
                        !.reply = IF @ = v THEN NoServer ELSE @,
                        !.drop = @ \/ st.to = v, !.to = IF @ = v THEN NoServer ELSE @]

-----------------------------------------------------------------------------
(* xsend *)

Open == {v \in Server : st.link[v].st = "open" /\ Writable(st.link[v].o)}
\* A relaxed socket abandons the request that waits for its reply.
Abandoned(s) == IF s.recv THEN [s EXCEPT !.recv = FALSE, !.begins = TRUE] ELSE s
\* "Eat all currently available messages before the request is fully sent".
Eaten(s) ==
    [s EXCEPT !.link = [v \in Server |-> IF @[v].st \in {"open", "drain"}
                                         THEN [@[v] EXCEPT !.i.q = <<>>] ELSE @[v]],
              !.from = NoServer]
Complete(s, last) ==
    IF last THEN [s EXCEPT !.recv = TRUE, !.begins = TRUE, !.to = NoServer] ELSE s
Part(s, v, last) ==
    LET d == Written(s.link[v].o, Body(s.n, s.i + 1)) IN
    [s EXCEPT !.link[v].o = IF last THEN Flushed(d) ELSE d, !.to = v, !.i = @ + 1]
Started(s, v) ==
    Eaten([s EXCEPT !.link[v].o.part = Envelope(s), !.reply = v, !.begins = FALSE])

\* The first frame of a request; it fails when no pipe can be written.
xsend_first(last) ==
    LET s == Abandoned(st)
        t == [s EXCEPT !.id = IF s.corr THEN @ + 1 ELSE @, !.reply = NoServer]
        r == [t EXCEPT !.n = @ + 1, !.i = 0, !.got = <<>>, !.gone = FALSE]
    IN
    /\ ~st.call /\ ~(st.recv /\ st.strict) /\ s.begins /\ st.n < MaxRequests
    /\ \/ \E v \in Open : st' = Complete(Part(Started(r, v), v, last), last)
       \/ /\ Open = {} /\ st.id < MaxRequests
          /\ st' = [t EXCEPT !.link = [v \in Server |->
                IF @[v].st = "open" THEN [@[v] EXCEPT !.o = Checked(@)] ELSE @[v]]]
\* A later frame: to the same pipe, dropped once the pipe has gone, or refused
\* by a pipe that is ending (lb_t::sendpipe returns -2).
xsend_next(last) ==
    /\ ~st.recv /\ ~st.begins /\ ~st.call /\ (st.i < 2 \/ last)
    /\ \/ /\ st.to \in Open /\ st' = Complete(Part(st, st.to, last), last)
       \/ st.drop /\ st' = Complete([st EXCEPT !.drop = ~last], last)
       \/ /\ st.to # NoServer /\ st.to \notin Open /\ (DiesAtLast \/ ~last)
          /\ st' = [st EXCEPT !.link[st.to].o = RolledBack(@), !.drop = ~last,
                              !.to = NoServer]
       \* Nothing has been sent of this message: lb_t takes the frame for the
       \* first of a new one.
       \/ /\ st.to = NoServer /\ ~st.drop
          /\ \E v \in Open : st' = Complete(Part(st, v, last), last)

-----------------------------------------------------------------------------
(* xrecv *)

Queue == {v \in Server : /\ st.link[v].st \in {"open", "drain"}
                         /\ Readable(st.link[v].i)
                         /\ st.from # NoServer => v = st.from}
Expected(v) == st.reply \in {NoServer, v}     \* recv_reply_pipe
\* Mutant of Matches: the number of the request is not compared.
MatchesAny(m) == Len(m) > Len(Envelope(st)) /\ m[Len(Envelope(st))] = Empty
Matches(m) ==
    LET e == Envelope(st) IN Len(m) > Len(e) /\ SubSeq(m, 1, Len(e)) = e
Took(s, v) ==
    LET d == s.link[v].i
        last == IsLast(d)
    IN  [s EXCEPT !.link[v].i = Read(d), !.got = Append(@, Frame(d)),
                  !.begins = last, !.recv = ~last, !.call = FALSE,
                  !.from = IF last THEN NoServer ELSE v]
Unwrapped(v) ==
    [st EXCEPT !.link[v].i.q =
        <<SubSeq(Head(@), Len(Envelope(st)) + 1, Len(Head(@)))>> \o Tail(@)]
xrecv(v) ==
    /\ st.recv /\ v \in Queue
    /\ IF ~st.begins THEN st' = Took(st, v)
       ELSE IF Expected(v) /\ Matches(Head(st.link[v].i.q)) THEN st' = Took(Unwrapped(v), v)
       ELSE st' = [st EXCEPT !.link[v].i = ReadAll(@), !.call = TRUE]
xrecv_fails ==
    /\ st.call /\ Queue = {} /\ st' = [st EXCEPT !.call = FALSE]

Next ==
    \/ \E v \in Server :
          \/ ServerReads(v) \/ ServerAnswers(v) \/ ServerSendsJunk(v) \/ xrecv(v)
          \* commands are processed between calls
          \/ /\ ~st.call
             /\ \/ xattach_pipe(v)
                \/ Activate(v) \/ ServerCloses(v) \/ xpipe_terminated(v)
    \/ \E last \in BOOLEAN : xsend_first(last) \/ xsend_next(last)
    \/ xrecv_fails

Spec == Init /\ [][Next]_st

-----------------------------------------------------------------------------
\* The frames received are those of the answer to the last request, in order:
\* always with ZMQ_REQ_CORRELATE; otherwise if the socket is strict, no server
\* has sent anything unasked and no pipe has ended (xrecv, recv_reply_pipe).
ReplyMatchesRequest ==
    st.corr \/ (st.strict /\ ~st.gone /\ ~st.junk) =>
        \A i \in 1..Len(st.got) : st.got[i] = Body(st.n, i)

\* A server gets whole requests, each in its envelope (xsend).
RequestsEnveloped ==
    \A v \in Server : \A j \in 1..Len(st.link[v].o.q) :
        LET m == st.link[v].o.q[j]
            k == IF st.corr THEN 2 ELSE 1
        IN  m = <<Empty>> \/ /\ Len(m) > k /\ m[k] = Empty
                             /\ \A i \in 1..(Len(m) - k) : m[k + i] = Body(m[k + 1].v[1], i)

\* While a request is under way it is known which pipe its reply will come
\* from, unless that pipe has ended (_reply_pipe).
ReplyPipeKnown == st.recv /\ st.reply = NoServer => st.gone

-----------------------------------------------------------------------------
(***************************************************************************)
(* rep_t (rep.cpp), a ROUTER socket that copies the envelope of a request  *)
(* to the reply and alternates between receiving and sending.  Its clients *)
(* are sockets of any kind that send messages with or without an envelope. *)
(***************************************************************************)

CONSTANTS
    Pipe, NoPipe,      \* the clients
    MalformedUnwritten \* TRUE: a request without envelope may come from a
                       \* client that cannot be written to


R == INSTANCE Router WITH Name <- {""}, MaxParts <- 2, MaxSends <- 0, MaxWrites <- <<>>

RepEmpty == [kind |-> "empty"]
Label(c, n) == [kind |-> "label", v |-> <<c, n>>]
Request(c, n, i) == [kind |-> "request", v |-> <<c, n, i>>]
Reply(c, n, i) == [kind |-> "reply", v |-> <<c, n, i>>]

\* The n-th message: straight from a REQ socket, through a proxy, and one
\* without the empty frame.
Messages(c, n) ==
    {<<RepEmpty, Request(c, n, 1)>>,
     <<Label(c, n), RepEmpty, Request(c, n, 1), Request(c, n, 2)>>,
     <<Label(c, n), Request(c, n, 1)>>}
WellFormed(m) == \E i \in 1..(Len(m) - 1) : m[i] = RepEmpty
Answers(m) ==
    LET i == CHOOSE i \in 1..Len(m) : m[i] = RepEmpty
        v == m[Len(m)].v
    IN  {SubSeq(m, 1, i) \o [j \in 1..k |-> Reply(v[1], v[2], j)] : k \in 1..2}

\* s: the socket; sending, begins: _sending_reply and _request_begins; call:
\* xrecv is between two messages of its loop; request: the one received, its
\* client and whether that could be written to; parts: frames of the reply;
\* asked: what clients have sent; lost: a reply vanished.
RepInit ==
    st = [s |-> R!Router(FALSE, FALSE), sending |-> FALSE, begins |-> TRUE,
          call |-> FALSE, request |-> [c |-> NoPipe, n |-> 0, room |-> FALSE],
          parts |-> 0, asked |-> <<>>, lost |-> FALSE]

CanWrite(c) == st.s.link[c].st = "open" /\ Writable(st.s.link[c].o)

-----------------------------------------------------------------------------
(* The clients, and the pipes *)

Attach(c) ==
    /\ st.s.link[c].st = "none"
    /\ st' = [st EXCEPT !.s = R!xattach_pipe([@ EXCEPT !.link[c].i.q = <<<<R!Id("")>>>>], c)]
ClientSends(c) ==
    /\ st.s.link[c].st = "open" /\ Len(st.asked) < MaxRequests
    /\ \E m \in Messages(c, Len(st.asked) + 1) :
          st' = [st EXCEPT !.s.link[c].i.q = Append(@, m), !.asked = Append(@, m)]
ClientReads(c) ==
    /\ st.s.link[c].st = "open" /\ Readable(st.s.link[c].o)
    /\ st' = [st EXCEPT !.s.link[c].o = ReadAll(@)]
process_activate_write(c) ==
    /\ st.s.link[c].st = "open" /\ Reportable(st.s.link[c].o)
    /\ LET t == [st.s EXCEPT !.link[c].o = Reported(@)] IN
       st' = [st EXCEPT !.s = IF st.s.link[c].o.out THEN t ELSE R!xwrite_activated(t, c)]
ClientCloses(c) ==
    /\ st.s.link[c].st = "open" /\ st' = [st EXCEPT !.s.link[c].st = "drain"]
PipeTerminated(c) ==
    /\ st.s.link[c].st = "drain" /\ ~Readable(st.s.link[c].i)
    /\ st' = [st EXCEPT !.s = R!xpipe_terminated(@, c)]

-----------------------------------------------------------------------------
\* The loop of xrecv over the envelope of one message: frames go to the reply
\* pipe until the empty one; a last frame ends a malformed message.
RECURSIVE CopyEnvelope(_, _)
CopyEnvelope(s, c) ==
    LET g == R!Got(s, c)
        t == R!xrecv(s, c)
    IN
    IF g.last THEN [ok |-> FALSE, s |-> R!rollback(t)]
    ELSE IF g.f = RepEmpty THEN [ok |-> TRUE, s |-> R!xsend(t, g.f, FALSE)]
    ELSE CopyEnvelope(R!xsend(t, g.f, FALSE), c)

\* The part returned to the user; the last one flips the socket to sending.
Returned(t, c) ==
    LET last == R!Got(t.s, c).last IN
    [t EXCEPT !.s = R!xrecv(t.s, c), !.sending = last, !.begins = last, !.call = FALSE]

rep_xrecv(c) ==
    /\ ~st.sending /\ c \in R!FromQueue(st.s)
    /\ IF ~st.begins THEN st' = Returned(st, c)
       ELSE LET e == CopyEnvelope(st.s, c)
                v == Head(st.s.link[c].i.q)[Len(Head(st.s.link[c].i.q))].v
            IN
            IF e.ok
            THEN st' = Returned([st EXCEPT !.s = e.s, !.parts = 0,
                     !.request = [c |-> c, n |-> v[2], room |-> CanWrite(c)]], c)
            ELSE /\ MalformedUnwritten \/ CanWrite(c)
                 /\ st' = [st EXCEPT !.s = e.s, !.call = TRUE]
\* There is no message (EAGAIN).
rep_xrecv_fails ==
    /\ st.call /\ R!FromQueue(st.s) = {} /\ st' = [st EXCEPT !.call = FALSE]

xsend(last) ==
    /\ st.sending /\ ~st.call /\ (st.parts < 1 \/ last)
    /\ LET c == st.request.c
           t == R!xsend(st.s, Reply(c, st.request.n, st.parts + 1), last)
           arrived == Len(t.link[c].o.q) > Len(st.s.link[c].o.q)
       IN
       st' = [st EXCEPT !.s = t, !.sending = ~last, !.parts = @ + 1,
                        !.lost = @ \/ /\ last /\ st.request.room /\ ~arrived
                                      /\ st.s.link[c].st = "open"]

RepNext ==
    \/ \E c \in Pipe :
          \/ ClientSends(c) \/ ClientReads(c) \/ rep_xrecv(c)
          \* commands are processed between calls
          \/ /\ ~st.call
             /\ \/ Attach(c) \/ process_activate_write(c) \/ ClientCloses(c)
                \/ PipeTerminated(c)
    \/ rep_xrecv_fails \/ \E last \in BOOLEAN : xsend(last)

RepSpec == RepInit /\ [][RepNext]_st

-----------------------------------------------------------------------------
\* A client reads only whole answers to its own requests, each with the
\* envelope of that request (rep_t::xrecv and xsend, router_t::rollback).
AnswersOnly ==
    \A c \in Pipe : \A j \in 1..Len(st.s.link[c].o.q) :
        \E m \in {st.asked[i] : i \in 1..Len(st.asked)} :
            /\ m[Len(m)].v[1] = c /\ WellFormed(m)
            /\ st.s.link[c].o.q[j] \in Answers(m)

\* A reply reaches the client of the request that was received last, if that
\* one could be written to and has not gone (rep_t::xsend).
RepliesArrive == ~st.lost
=============================================================================
