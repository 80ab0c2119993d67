----------------------------- MODULE Datagrams ------------------------------
(***************************************************************************)
(* udp_engine_t (udp_engine.cpp) with its session: of a RADIO socket,      *)
(* which sends datagrams of a group and a body, of a DISH socket, which    *)
(* receives them, and of a DGRAM socket, which does both with raw          *)
(* addresses.  i is the pipe towards the socket and o the one from it      *)
(* (Ends.tla).  The PGM transport is the second part of the module.        *)
(***************************************************************************)
EXTENDS Ends, FiniteSets, SequencesExt, FiniteSetsExt

CONSTANTS
    MaxMsgs,     \* bound: messages of the application, and datagrams that arrive
    MaxEngines   \* bound: engines the session starts

VARIABLE st

Role == {"radio", "dish", "dgram"}
Sends(s) == s.role # "dish"       \* _send_enabled
Receives(s) == s.role # "radio"   \* _recv_enabled
Raw(s) == s.role = "dgram"        \* _options.raw_socket
Frame_(k, n) == [k |-> k, n |-> n]
NoGroup == 0

\* eng: "attach" (the engine is on its way to the session), "on" (plugged in),
\* "none".  half: the group dish_session_t holds while it waits for the body;
\* asleep: the session has found pipe o empty; tell: activate_read is on its
\* way; hiccup: the command for the socket is; net: datagrams that have arrived.
Init ==
    \E role \in Role, mcast \in BOOLEAN, again \in BOOLEAN :
        st = [role |-> role, mcast |-> mcast, again |-> again, eng |-> "attach",
              pollin |-> FALSE, pollout |-> FALSE,
              i |-> Direction, o |-> Direction, half |-> NoGroup, asleep |-> FALSE,
              tell |-> FALSE, hiccup |-> FALSE, net |-> <<>>, sent |-> <<>>, got |-> <<>>,
              n |-> 0, m |-> 0, engines |-> 1, assert |-> TRUE]

Asserting(s, p) == [s EXCEPT !.assert = @ /\ p]

-----------------------------------------------------------------------------
(* The session *)

\* session_base_t::pull_msg: the message at the head of pipe o, or none.
HasMsg(s) == s.o.in /\ Readable(s.o)
Pulled(s) == [s EXCEPT !.o = ReadAll(@)]
PullFails(s) == [s EXCEPT !.o.in = FALSE, !.asleep = @ \/ s.o.in]
\* dish_session_t::push_msg and session_base_t::push_msg: whether the frame is
\* taken, and the session after it.
Takes(s, f) == (s.role = "dish" /\ s.half = NoGroup) \/ Writable(s.i) \/ s.i.part # <<>>
push_msg(s, f) ==
    IF s.role # "dish" THEN
        IF Takes(s, f) THEN [s EXCEPT !.i = Written(@, f)] ELSE [s EXCEPT !.i = Checked(@)]
    ELSE IF s.half = NoGroup THEN [Asserting(s, f.k = "group") EXCEPT !.half = f.n]
    ELSE IF Takes(s, f) THEN [s EXCEPT !.i = Written(@, [k |-> f.k, n |-> f.n, g |-> s.half]),
                                       !.half = NoGroup]
    ELSE [s EXCEPT !.i = Checked(@)]
flush(s) == [s EXCEPT !.i = Flushed(@)]
reset(s) == [s EXCEPT !.half = NoGroup]

\* session_base_t::engine_error and reconnect, after a connection error.
reconnect(s) ==
    LET t == reset([s EXCEPT !.i = RolledBack(@)]) IN
    IF s.again
    THEN [t EXCEPT !.eng = "attach", !.engines = @ + 1,
                   !.o = IF s.role = "dish" THEN Direction ELSE @,
                   !.hiccup = @ \/ s.role = "dish",
                   !.asleep = @ /\ s.role # "dish"]
    ELSE [t EXCEPT !.eng = "none"]

\* udp_engine_t::error and terminate.
Unplugged(s) == [Asserting(s, s.eng = "on") EXCEPT !.eng = "none", !.pollin = FALSE, !.pollout = FALSE]
CheckRead(s) == IF HasMsg(s) THEN s ELSE PullFails(s)
error(s, reason) ==
    CheckRead(IF reason = "connection" THEN reconnect(Unplugged(s)) ELSE Unplugged(s))

-----------------------------------------------------------------------------
(* The engine *)

\* resolve_raw_address: a message whose address is no address is discarded.
resolve_raw_address(s) == IF Raw(s) THEN {TRUE, FALSE} ELSE {TRUE}

\* A send that fails for any reason, want of room included, ends the engine.
out_event(s) ==
    IF ~HasMsg(s) THEN {[PullFails(s) EXCEPT !.pollout = FALSE]}
    ELSE {IF ok THEN [Pulled(s) EXCEPT !.sent = Append(@, Frame(s.o))] ELSE Pulled(s) :
             ok \in resolve_raw_address(s)}
         \cup {error(Pulled(s), "connection")}
restart_output(s) ==
    IF ~Sends(s) THEN {PullFails(IF HasMsg(s) THEN [s EXCEPT !.o.q = <<>>] ELSE s)}
    ELSE out_event([s EXCEPT !.pollout = TRUE])

\* sockaddr_to_msg makes the first frame from the sender's address.
sockaddr_to_msg(n) == Frame_("address", n)
First(s, n) == IF Raw(s) THEN sockaddr_to_msg(n) ELSE Frame_("group", n)
\* The datagram n goes to the session, in two frames; what does not fit is dropped.
Received(s, n) ==
    LET t == push_msg(s, First(s, n))
        u == push_msg(t, Frame_("body", n))
    IN  IF ~Takes(s, First(s, n)) THEN [t EXCEPT !.pollin = FALSE]
        ELSE IF Takes(t, Frame_("body", n)) THEN flush(u)
        ELSE [reset(u) EXCEPT !.pollin = FALSE]
in_event(s) ==
    {error(s, "connection")}
    \cup (IF s.net = <<>> THEN {} ELSE {Received([s EXCEPT !.net = Tail(@)], Head(s.net))})
restart_input(s) ==
    IF Receives(s) THEN in_event([s EXCEPT !.pollin = TRUE]) ELSE {s}

\* The system calls of plug, of which one may fail.
bind_to_device(f) == "device" \in f
set_udp_multicast_loop(f) == "loop" \in f
set_udp_multicast_ttl(f) == "ttl" \in f
set_udp_multicast_iface(f) == "iface" \in f
set_udp_reuse_address(f) == "address" \in f
set_udp_reuse_port(f) == "port" \in f
add_membership(f) == "membership" \in f
Calls == {"device", "loop", "ttl", "iface", "address", "port", "bind", "membership"}
Plugs(s, f) ==
    LET out == /\ Sends(s) /\ ~Raw(s) /\ s.mcast
               /\ set_udp_multicast_loop(f) \/ set_udp_multicast_ttl(f) \/ set_udp_multicast_iface(f)
        in == Receives(s) /\ (set_udp_reuse_address(f) \/ (s.mcast /\ set_udp_reuse_port(f)))
    IN  IF bind_to_device(f) THEN "connection"
        ELSE IF out \/ in THEN "protocol"
        ELSE IF Receives(s) /\ "bind" \in f THEN "connection"
        ELSE IF Receives(s) /\ s.mcast /\ add_membership(f) THEN "protocol" ELSE "ok"
plug(s) ==
    LET t == [Asserting(s, s.eng = "attach") EXCEPT !.eng = "on"]
        on == [t EXCEPT !.pollout = Sends(s), !.pollin = Receives(s)]
    IN  UNION {LET end == Plugs(s, f) IN
               IF end # "ok" THEN {error(t, end)}
               ELSE IF Receives(s) THEN restart_output(on) ELSE {on} :
                   f \in {{}} \cup {{c} : c \in Calls}}

-----------------------------------------------------------------------------
process_attach == st.eng = "attach" /\ st.engines <= MaxEngines /\ st' \in plug(st)
InEvent == st.eng = "on" /\ st.pollin /\ st' \in in_event(st)
OutEvent == st.eng = "on" /\ st.pollout /\ st' \in out_event(st)
\* The session's end of pipe o wakes up, that of pipe i has room again.
read_activated ==
    /\ st.tell
    /\ LET s == [st EXCEPT !.tell = FALSE, !.o.in = TRUE] IN
       st' \in (IF st.o.in THEN {s} ELSE IF st.eng = "on" THEN restart_output(s) ELSE {CheckRead(s)})
write_activated ==
    /\ Reportable(st.i)
    /\ LET s == [st EXCEPT !.i = Reported(@)] IN
       st' \in (IF ~st.i.out /\ st.eng = "on" THEN restart_input(s) ELSE {s})

\* The application sends, or joins groups, reads, and processes commands; what
\* it writes before it knows of a hiccup goes to a pipe nobody reads.
Written_(s, f) ==
    [s EXCEPT !.o = Sent(@, <<f>>), !.asleep = FALSE, !.tell = @ \/ s.asleep]
SocketSends ==
    /\ st.m < MaxMsgs /\ Writable(st.o)
    /\ st' = [IF st.hiccup THEN st ELSE Written_(st, st.m + 1) EXCEPT !.m = @ + 1]
xhiccuped == st.hiccup /\ st' = Written_([st EXCEPT !.hiccup = FALSE], 0)
SocketActivated == Reportable(st.o) /\ st' = [st EXCEPT !.o = Reported(@)]
SocketReads ==
    /\ Readable(st.i)
    /\ st' = [st EXCEPT !.i = ReadAll(@), !.got = Append(@, Head(st.i.q))]
Arrives == st.n < MaxMsgs /\ st' = [st EXCEPT !.n = @ + 1, !.net = Append(@, st.n + 1)]

Next ==
    \/ process_attach \/ InEvent \/ OutEvent \/ read_activated \/ write_activated
    \/ SocketSends \/ xhiccuped \/ SocketActivated \/ SocketReads \/ Arrives

Spec == Init /\ [][Next]_st

-----------------------------------------------------------------------------
\* plug is called once, terminate only of an engine that is plugged in, and a
\* group is not taken for a body.
AssertionsHold == st.assert

\* What the socket reads are whole datagrams, each with its own address or
\* group, in the order of their arrival and none twice, although bodies are
\* refused by a full pipe and engines replaced; the datagrams sent are in the
\* order of the messages, none twice.
Increasing(q) == \A j \in 1..(Len(q) - 1) : q[j] < q[j + 1]
DatagramsWhole ==
    LET read == st.got \o st.i.q IN
    /\ \A j \in DOMAIN read :
          LET m == read[j] IN
          IF Raw(st) THEN Len(m) = 2 /\ m[1] = Frame_("address", m[2].n) /\ m[2].k = "body"
          ELSE Len(m) = 1 /\ m[1].k = "body" /\ m[1].g = m[1].n
    /\ Increasing([j \in DOMAIN read |-> Last(read[j]).n])
    /\ st.i.part = <<>>
    /\ Increasing(st.sent)

\* An engine that has stopped polling is going to be told: for input, its pipe
\* was full and the socket's report will come; for output, the pipe was empty
\* and a message since then sends the command.
PollsOrIsTold ==
    st.eng = "on" =>
        /\ Receives(st) /\ ~st.pollin => ~st.i.out /\ (Readable(st.i) \/ Reportable(st.i))
        /\ Readable(st.o) => st.tell \/ (Sends(st) /\ st.pollout /\ st.o.in)

-----------------------------------------------------------------------------
(***************************************************************************)
(* The engines of the PGM multicast transport (pgm_sender.cpp,              *)
(* pgm_receiver.cpp, pgm_socket.cpp): senders pack the encoded frames into  *)
(* packets, with the offset of the first message that starts in it, so      *)
(* that a receiver can join a sender's stream late or after a loss.  OpenPGM *)
(* keeps the packets of a sender in order and reports what it has lost.      *)
(* No maximum size of messages is set.                                      *)
(***************************************************************************)

CONSTANTS
    Peer,        \* the senders
    Messages,    \* what they send: sequences of the encoded sizes of frames
    Room,        \* bytes of frames in a packet
    MaxSent,     \* bound: messages of all senders
    MaxVector,   \* pgm_msgv_len
    MaxLost      \* bound: packets lost or missed


NoOffset == Room + 1    \* 0xffff
Nobody == 0
\* A byte names the frame it belongs to and its place in it.
Bytes(f) == [k \in 1..f.size |-> [f |-> f, k |-> k]]
AllBytes(fs) == FlattenSeq([j \in DOMAIN fs |-> Bytes(fs[j])])

\* A sender: q, the frames in its session's pipe; left, the bytes still in the
\* encoder; more: more_flag; buf: the packet of write_size bytes, if any.
Source == [q |-> <<>>, left |-> <<>>, more |-> FALSE, buf |-> <<>>, pollout |-> TRUE,
           txtimer |-> FALSE, asleep |-> FALSE, n |-> 0]
\* What the receiver knows of a peer: peer_info_t; dec: the bytes of the frame
\* being decoded.
PeerInfo == [known |-> FALSE, joined |-> FALSE, dec |-> <<>>]
PgmInit ==
    st = [snd |-> [p \in Peer |-> Source], net |-> <<>>, msgs |-> 0, lost |-> 0,
          peers |-> [p \in Peer |-> PeerInfo], active |-> Nobody, in |-> <<>>, pending |-> <<>>,
          vec |-> <<>>, returned |-> FALSE, pollin |-> TRUE, rxtimer |-> FALSE, i |-> Direction,
          got |-> [p \in Peer |-> <<>>], starts |-> [p \in Peer |-> {}],
          torn |-> FALSE, assert |-> TRUE]

PgmAsserting(s, p) == [s EXCEPT !.assert = @ /\ p]

-----------------------------------------------------------------------------
(* pgm_sender_t *)

\* The bytes before frame j of the queue; the frames loaded into the packet; the
\* offset: where the encoder first was between two messages.
Before(d, j) == Len(d.left) + Len(AllBytes(SubSeq(d.q, 1, j - 1)))
Visited(d) == {j \in 1..(Len(d.q) + 1) : Before(d, j) < Room}
MoreBefore(d, j) == IF j = 1 THEN d.more ELSE d.q[j - 1].more
Offset(d) == LET free == {Before(d, j) : j \in {v \in Visited(d) : ~MoreBefore(d, v)}} IN
             IF free = {} THEN NoOffset ELSE Min(free)
Filled(d, p) ==
    LET loaded == Cardinality(Visited(d) \ {Len(d.q) + 1})
        all == d.left \o AllBytes(SubSeq(d.q, 1, loaded))
        n == Min({Room, Len(all)})
    IN  [d EXCEPT !.q = SubSeq(@, loaded + 1, Len(@)), !.left = SubSeq(all, n + 1, Len(all)),
                  !.more = IF loaded = 0 THEN @ ELSE d.q[loaded].more,
                  !.asleep = @ \/ Len(d.q) + 1 \in Visited(d),
                  !.pollout = n > 0 /\ @,
                  !.buf = IF n = 0 THEN <<>>
                          ELSE <<[from |-> p, reset |-> FALSE, off |-> Offset(d), data |-> SubSeq(all, 1, n)]>>]
\* pgm_socket_t::send takes the packet, is limited in its rate, or would block.
Send(s, p) ==
    LET t == [s EXCEPT !.snd[p].txtimer = FALSE,
                       !.snd[p].pollout = @ \/ s.snd[p].txtimer]
    IN  {[t EXCEPT !.net = Append(@, s.snd[p].buf[1]), !.snd[p].buf = <<>>],
         [t EXCEPT !.snd[p].txtimer = TRUE, !.snd[p].pollout = FALSE],
         t}
pgm_out_event(s, p) ==
    LET t == IF s.snd[p].buf # <<>> THEN s ELSE [s EXCEPT !.snd[p] = Filled(@, p)]
    IN  IF t.snd[p].buf = <<>> THEN {t} ELSE Send(t, p)
pgm_restart_output(s, p) == pgm_out_event([s EXCEPT !.snd[p].pollout = TRUE, !.snd[p].asleep = FALSE], p)

PgmOutEvent(p) == st.snd[p].pollout /\ st' \in pgm_out_event(st, p)
TxTimer(p) ==
    /\ st.snd[p].txtimer
    /\ st' \in pgm_out_event([st EXCEPT !.snd[p].txtimer = FALSE, !.snd[p].pollout = TRUE], p)
\* The application sends a message; a session that found its pipe empty is told.
AppSends(p) ==
    /\ st.msgs < MaxSent
    /\ \E m \in Messages :
        LET n == st.snd[p].n
            fs == [j \in DOMAIN m |-> [p |-> p, n |-> n + j, size |-> m[j],
                                       first |-> j = 1, more |-> j < Len(m)]]
            s == [st EXCEPT !.snd[p].q = @ \o fs, !.snd[p].n = n + Len(m), !.msgs = @ + 1]
        IN  st' \in IF st.snd[p].asleep THEN pgm_restart_output(s, p) ELSE {s}

-----------------------------------------------------------------------------
(* pgm_receiver_t *)

\* session_base_t::push_msg into the pipe.
PgmTakes(s) == Writable(s.i) \/ s.i.part # <<>>
Pushed(s, f) ==
    [s EXCEPT !.i = IF f.more THEN Written(@, f) ELSE Flushed(Written(@, f)),
              !.torn = @ \/ (s.i.part # <<>> /\ (f.first \/ Last(s.i.part).p # f.p)),
              !.got[f.p] = Append(@, f)]

\* process_input: the frames of the packet go to the session until it refuses
\* one, which the decoder keeps.
RECURSIVE process_input(_, _)
process_input(s, p) ==
    LET dec == s.peers[p].dec
        b == Head(s.in)
        t == [PgmAsserting(s, b.k = Len(dec) + 1) EXCEPT
                 !.in = Tail(@), !.peers[p].dec = IF b.k = b.f.size THEN <<>> ELSE Append(dec, b)]
    IN  IF s.in = <<>> THEN s
        ELSE IF b.k < b.f.size THEN process_input(t, p)
        ELSE IF PgmTakes(t) THEN process_input(Pushed(t, b.f), p)
        ELSE [t EXCEPT !.i = Checked(@), !.pending = <<b.f>>, !.active = p]

\* The data the packet has for a receiver that has not joined: from the first
\* message that starts in it.
Join(s, p, x) ==
    IF s.peers[p].joined THEN [s EXCEPT !.in = x.data]
    ELSE [PgmAsserting(s, x.off <= Len(x.data) /\ s.peers[p].dec = <<>>) EXCEPT
             !.in = SubSeq(x.data, x.off + 1, Len(x.data)), !.peers[p].joined = TRUE,
             !.starts[p] = @ \cup {Len(s.got[p]) + 1}]
\* Data loss: the decoder goes, and with it the place in the stream.
Disjoint(s, p) == [s EXCEPT !.peers[p].joined = FALSE, !.peers[p].dec = <<>>]
\* One packet; what the peer has lost ends the loop.
Packet(s, x) ==
    LET t == [s EXCEPT !.peers[x.from].known = TRUE] IN
    IF x.reset THEN Disjoint(s, x.from)
    ELSE IF ~t.peers[x.from].joined /\ x.off = NoOffset THEN t
    ELSE process_input(Join(t, x.from, x), x.from)
\* The loop over what pgm_socket_t::receive returns, until all packets of one
\* pgm_recvmsgv are processed, or the session has refused a frame.
RECURSIVE Loop(_)
Loop(s) ==
    IF s.active # Nobody THEN [s EXCEPT !.pollin = FALSE]
    ELSE IF s.vec = <<>> THEN [s EXCEPT !.returned = FALSE]
    ELSE LET t == Packet([s EXCEPT !.vec = Tail(@), !.returned = ~Head(s.vec).reset], Head(s.vec))
         IN  IF Head(s.vec).reset THEN t ELSE Loop(t)
\* pgm_recvmsgv: packets, or one loss, or nothing and perhaps a time to wait.
PgmReceived(s) ==
    {[s EXCEPT !.vec = SubSeq(s.net, 1, n), !.net = SubSeq(@, n + 1, Len(@))] :
        n \in {k \in 1..Min({MaxVector, Len(s.net)}) :
                  k = 1 \/ \A j \in 1..k : ~s.net[j].reset}}
pgm_in_event(s) ==
    IF s.active # Nobody THEN {s}
    ELSE LET t == [s EXCEPT !.rxtimer = FALSE] IN
         IF t.vec # <<>> \/ t.returned THEN {Loop(t)}
         ELSE {Loop(u) : u \in PgmReceived(t)} \cup {t, [t EXCEPT !.rxtimer = TRUE]}
pgm_restart_input(s) ==
    LET p == s.active
        t == Pushed([PgmAsserting(s, p # Nobody /\ s.peers[p].joined /\ PgmTakes(s)) EXCEPT
                        !.pending = <<>>, !.active = Nobody], s.pending[1])
        u == process_input(t, p)
    IN  IF u.active # Nobody THEN {u} ELSE pgm_in_event([u EXCEPT !.pollin = TRUE])

PgmInEvent == st.pollin /\ st' \in pgm_in_event(st)
RxTimer == st.rxtimer /\ st' \in pgm_in_event([st EXCEPT !.rxtimer = FALSE])
\* The pipe has room again: activate_write.
pgm_write_activated ==
    /\ Reportable(st.i)
    /\ LET s == [st EXCEPT !.i = Reported(@)] IN
       st' \in IF st.i.out THEN {s} ELSE pgm_restart_input(s)
AppReads == Readable(st.i) /\ st' = [st EXCEPT !.i = ReadAll(@)]
\* A packet is lost for good, or the receiver was not there yet.
Lose ==
    /\ st.lost < MaxLost
    /\ \E k \in DOMAIN st.net : ~st.net[k].reset /\
          st' = [st EXCEPT !.net[k] = [from |-> @.from, reset |-> TRUE], !.lost = @ + 1]
Miss ==
    /\ st.lost < MaxLost /\ st.net # <<>> /\ ~st.peers[Head(st.net).from].known
    /\ st' = [st EXCEPT !.net = Tail(@), !.lost = @ + 1]

PgmNext == \/ \E p \in Peer : PgmOutEvent(p) \/ TxTimer(p) \/ AppSends(p)
        \/ PgmInEvent \/ RxTimer \/ pgm_write_activated \/ AppReads \/ Lose \/ Miss

PgmSpec == PgmInit /\ [][PgmNext]_st

-----------------------------------------------------------------------------
\* The assertions of pgm_receiver_t hold, and its decoder always starts at the
\* first byte of a frame.
PgmAssertionsHold == st.assert

\* The frames of a sender reach the pipe in order and once; a receiver that joins,
\* late or after a loss, starts with the first frame of a message, and until the
\* next loss none is missing (offset, in_event).
StreamsJoined ==
    \A p \in Peer : \A k \in DOMAIN st.got[p] :
        LET f == st.got[p][k] IN
        IF k \in st.starts[p] THEN f.first /\ (k > 1 => f.n > st.got[p][k - 1].n)
        ELSE k > 1 /\ f.n = st.got[p][k - 1].n + 1

\* While no loss and no other sender has come between the frames of a message,
\* the socket reads the messages as they were sent.
MessagesKept ==
    ~st.torn => \A k \in DOMAIN st.i.q : Head(st.i.q[k]).first /\ ~Last(st.i.q[k]).more

\* A sender with a packet to send is called again; one whose pipe is not empty
\* too; the receiver polls unless a full pipe holds a frame of it back
\* (out_event, restart_input).
PgmMoves ==
    /\ \A p \in Peer : LET d == st.snd[p] IN
          /\ d.buf # <<>> \/ d.q # <<>> \/ d.left # <<>> => d.pollout \/ d.txtimer
          /\ ~d.pollout /\ ~d.txtimer => d.asleep
    /\ st.pollin <=> st.active = Nobody
    /\ st.active # Nobody => ~st.i.out /\ (Readable(st.i) \/ Reportable(st.i))
=============================================================================
