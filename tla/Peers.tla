------------------------------- MODULE Peers --------------------------------
(***************************************************************************)
(* server_t (server.cpp) and its clients (client.cpp): sockets without     *)
(* multi-part messages.  A SERVER socket gives each pipe a 32-bit number,  *)
(* puts it on what it receives from that pipe, and sends to the pipe whose *)
(* number a message carries.  fq_t is the choice of a pipe (Fq.tla).       *)
(* STREAM, and PAIR with DGRAM, are the further parts of the module.       *)
(***************************************************************************)
EXTENDS Ends, Functions, TLC

CONSTANTS
    Pipe, NoPipe,
    IdLimit,     \* the numbers are below this, 2^32 in the code
    MaxSends     \* bound: messages of the clients, and of the application

VARIABLE st

Number == 0..(IdLimit - 1)
Ask(p, k) == [i \in 1..k |-> [kind |-> "ask", v |-> p]]
Reply(p, id) == [kind |-> "reply", v |-> p, id |-> id]

\* rid: _server_socket_routing_id of the pipes; table, next: _out_pipes and
\* _next_routing_id; got: the message received last, its sender and number;
\* back: what a client received last; call: xrecv is in its loop.  History:
\* given counts the numbers given, at those given up to a pipe's.
Init ==
    \E next \in Number :
        st = [link |-> [p \in Pipe |-> Link], rid |-> [p \in Pipe |-> 0],
              table |-> << >>, next |-> next, got |-> [from |-> NoPipe, id |-> 0],
              back |-> [p \in Pipe |-> NoPipe], call |-> FALSE, n |-> 0, m |-> 0,
              given |-> 0, at |-> [p \in Pipe |-> 0], aborted |-> FALSE]

-----------------------------------------------------------------------------
(* server_t *)

Plus1(i) == (i + 1) % IdLimit
\* "Never use Routing ID zero".
NextNumber(next) == IF next = 0 THEN 1 ELSE next
xattach_pipe(p) ==
    /\ st.link[p].st = "none"
    /\ LET id == NextNumber(st.next) IN
       st' = [st EXCEPT !.link[p].st = "open", !.rid[p] = id, !.next = Plus1(id),
                        !.aborted = @ \/ id \in DOMAIN st.table,
                        !.given = @ + 1, !.at[p] = st.given + 1,
                        !.table = (id :> [pipe |-> p, active |-> TRUE]) @@ @]
xpipe_terminated(p) ==
    /\ st.link[p].st = "drain" /\ ~Readable(st.link[p].i)
    /\ st' = [st EXCEPT !.link[p].st = "gone",
                        !.aborted = @ \/ st.rid[p] \notin DOMAIN st.table,
                        !.table = Restrict(@, DOMAIN @ \ {st.rid[p]})]
\* process_activate_write and server_t::xwrite_activated.
Activate(p) ==
    /\ st.link[p].st = "open" /\ Reportable(st.link[p].o)
    /\ LET woken == ~st.link[p].o.out
           ids == {id \in DOMAIN st.table : st.table[id].pipe = p}
       IN
       st' = [st EXCEPT !.link[p].o = Reported(@),
                !.aborted = @ \/ (woken /\ (ids = {} \/ \E id \in ids : st.table[id].active)),
                !.table = [id \in DOMAIN @ |-> IF woken /\ id \in ids
                              THEN [@[id] EXCEPT !.active = TRUE] ELSE @[id]]]

\* Sends a reply to the message received last, on its number or on another.
\* An unknown number is refused with EHOSTUNREACH, a full pipe with EAGAIN.
xsend(id) ==
    /\ st.m < MaxSends /\ st.got.from # NoPipe /\ id \in DOMAIN st.table
    /\ LET p == st.table[id].pipe
           to == IF id = st.got.id THEN st.got.from ELSE p
       IN
       st' = IF st.link[p].st = "open" /\ Writable(st.link[p].o)
             THEN [st EXCEPT !.m = @ + 1, !.link[p].o = Sent(@, <<Reply(to, id)>>)]
             ELSE [st EXCEPT !.table[id].active = FALSE,
                     !.link[p].o = IF st.link[p].st = "open" THEN Checked(@) ELSE @]

\* A message of several frames is dropped and the next one tried.
xrecv(p) ==
    /\ st.link[p].st \in {"open", "drain"} /\ Readable(st.link[p].i)
    /\ LET t == [st EXCEPT !.link[p].i = ReadAll(@)] IN
       st' = IF IsLast(st.link[p].i)
             THEN [t EXCEPT !.got = [from |-> p, id |-> st.rid[p]], !.call = FALSE]
             ELSE [t EXCEPT !.call = TRUE]
xrecv_fails ==
    /\ st.call /\ \A p \in Pipe : st.link[p].st \in {"open", "drain"} => ~Readable(st.link[p].i)
    /\ st' = [st EXCEPT !.call = FALSE]

-----------------------------------------------------------------------------
(* Clients: client_t::xsend refuses a frame with the flag "more"; a foreign  *)
(* client may send one                                                       *)

ClientSends(p, k) ==
    /\ st.n < MaxSends /\ st.link[p].st = "open"
    /\ st' = [st EXCEPT !.n = @ + 1, !.link[p].i.q = Append(@, Ask(p, k))]
ClientReads(p) ==
    /\ st.link[p].st = "open" /\ Readable(st.link[p].o)
    /\ st' = [st EXCEPT !.link[p].o = ReadAll(@), !.back[p] = Frame(st.link[p].o).v]
ClientCloses(p) ==
    /\ st.link[p].st = "open" /\ st' = [st EXCEPT !.link[p].st = "drain"]

Next ==
    /\ ~st.aborted
    /\ \/ /\ ~st.call
          /\ \/ \E p \in Pipe : \/ xattach_pipe(p) \/ xpipe_terminated(p) \/ Activate(p)
             \/ \E id \in Number : xsend(id)
       \/ \E p \in Pipe : \/ xrecv(p) \/ ClientReads(p) \/ ClientCloses(p)
                          \/ \E k \in 1..2 : ClientSends(p, k)
       \/ xrecv_fails

Spec == Init /\ [][Next]_st

-----------------------------------------------------------------------------
\* The assertions of server_t hold: a number is given and taken once, and only
\* a pipe marked inactive becomes active; except that a pipe which outlives all
\* the other numbers loses its own to the next one attached.
Outlived(p) == st.link[p].st \in {"open", "drain"} /\ st.given - st.at[p] = IdLimit - 1
AssertionsHold == st.aborted => \E p \in Pipe : Outlived(p)

\* A message marked with the number of the one received goes to its sender, as
\* long as the numbers have not come round, and the number is never zero
\* (xrecv, xsend).
RepliesToSender ==
    /\ st.got.from # NoPipe => st.got.id # 0
    /\ st.given < IdLimit => \A p \in Pipe : st.back[p] \in {p, NoPipe}

-----------------------------------------------------------------------------
(***************************************************************************)
(* stream_t (stream.cpp): raw connections, each with a routing id made up  *)
(* by the socket.  A message sent is the routing id and then the data; an  *)
(* empty one closes the connection.  A message received is the routing id, *)
(* then the data.  The table of pipes is that of Router.tla.               *)
(***************************************************************************)

R == INSTANCE Router WITH Name <- {""}, MaxParts <- 1, MaxSends <- 0, MaxWrites <- <<>>

Data(p) == [kind |-> "data", v |-> p]

\* s has the members of Router.tla's record that stream_t has too; pre: the
\* message read ahead, its pipe and whether its routing id has been delivered
\* (_prefetched, _routing_id_sent).  The application: to, the pipe of the
\* message it is sending; got, what it received; alone: it has sent a routing id
\* without data; lost: a message vanished.
NoMessage == [from |-> NoPipe, id |-> "", idSent |-> FALSE]
StreamInit ==
    st = [s |-> R!Router(TRUE, FALSE), pre |-> NoMessage, to |-> NoPipe, got |-> <<>>,
          part |-> FALSE, alone |-> FALSE, lost |-> FALSE, n |-> 0, m |-> 0]

Live(p) == st.s.link[p].st \in {"open", "drain"}

\* xattach_pipe and identify_peer: the name the application has set for the
\* connection it initiates, or the next number.
Attach(p, name) ==
    /\ st.s.link[p].st = "none"
    /\ LET t == [st.s EXCEPT !.link[p].st = "open"] IN
       st' = [st EXCEPT !.s = IF name = "" THEN R!add_out_pipe([t EXCEPT !.next = @ + 1],
                                                              R!Integral(t), p)
                              ELSE R!add_out_pipe(t, name, p)]
stream_xpipe_terminated(p) ==
    /\ \/ st.s.link[p].st = "term"
       \/ st.s.link[p].st = "drain" /\ ~Readable(st.s.link[p].i)
    /\ st' = [st EXCEPT !.s = [R!erase_out_pipe(@, p) EXCEPT
                                  !.link[p].st = "gone", !.out = IF @ = p THEN NoPipe ELSE @]]
StreamActivate(p) ==
    /\ st.s.link[p].st = "open" /\ Reportable(st.s.link[p].o)
    /\ LET t == [st.s EXCEPT !.link[p].o = Reported(@)] IN
       st' = [st EXCEPT !.s = IF st.s.link[p].o.out THEN t ELSE R!xwrite_activated(t, p)]

\* xsend of a routing id: fails for an unknown one and for a full pipe.
xsend_id(id) ==
    /\ ~st.part /\ st.m < MaxSends
    /\ IF st.s.moreOut
       THEN \* the socket takes it for data
            st' = [st EXCEPT !.s.moreOut = FALSE, !.m = @ + 1, !.part = TRUE,
                             !.to = IF id \in DOMAIN st.s.table THEN st.s.table[id].pipe ELSE @]
       ELSE /\ id \in DOMAIN st.s.table
            /\ LET p == st.s.table[id].pipe IN
               IF st.s.link[p].st = "open" /\ Writable(st.s.link[p].o)
               THEN st' = [st EXCEPT !.s.out = p, !.s.moreOut = TRUE, !.to = p,
                                     !.part = TRUE, !.m = @ + 1]
               ELSE st' = [st EXCEPT !.s.table[id].active = FALSE,
                             !.s.link[p].o = IF st.s.link[p].st = "open" THEN Checked(@) ELSE @]
\* A first part without "more".
xsend_alone ==
    /\ ~st.part /\ ~st.s.moreOut
    /\ st' = [st EXCEPT !.s.moreOut = TRUE, !.alone = TRUE]
\* xsend of the data, empty or not.
xsend_data(empty) ==
    /\ st.part
    /\ LET p == st.s.out
           t == [st EXCEPT !.s.moreOut = FALSE, !.s.out = NoPipe, !.part = FALSE, !.to = NoPipe,
                           !.lost = @ \/ /\ p # st.to /\ st.to # NoPipe
                                         /\ st.s.link[st.to].st = "open"]
       IN
       st' = IF ~st.s.moreOut THEN [t EXCEPT !.s.moreOut = TRUE]  \* taken for a routing id
             ELSE IF p = NoPipe THEN t
             ELSE IF empty THEN [t EXCEPT !.s = R!Terminate(@, p)]
             ELSE IF st.s.link[p].st = "open" /\ Writable(st.s.link[p].o)
             THEN [t EXCEPT !.s.link[p].o = Sent(@, <<Data(st.to)>>)]
             ELSE t

xhas_in ==
    \E p \in Pipe :
        /\ st.pre = NoMessage /\ Live(p) /\ Readable(st.s.link[p].i)
        /\ st' = [st EXCEPT !.s.link[p].i = ReadAll(@),
                            !.pre = [from |-> p, id |-> st.s.rid[p], idSent |-> FALSE]]
stream_xrecv ==
    \/ /\ st.pre # NoMessage /\ ~st.pre.idSent
       /\ st' = [st EXCEPT !.pre.idSent = TRUE, !.got = <<R!Id(st.pre.id)>>]
    \/ /\ st.pre # NoMessage /\ st.pre.idSent
       /\ st' = [st EXCEPT !.pre = NoMessage, !.got = Append(@, Data(st.pre.from))]
    \/ \E p \in Pipe :
          /\ st.pre = NoMessage /\ Live(p) /\ Readable(st.s.link[p].i)
          /\ st' = [st EXCEPT !.s.link[p].i = ReadAll(@), !.got = <<R!Id(st.s.rid[p])>>,
                              !.pre = [from |-> p, id |-> st.s.rid[p], idSent |-> TRUE]]

\* The peers.
PeerSends(p) ==
    /\ st.s.link[p].st = "open" /\ st.n < MaxSends
    /\ st' = [st EXCEPT !.n = @ + 1, !.s.link[p].i.q = Append(@, <<Data(p)>>)]
PeerReads(p) ==
    /\ st.s.link[p].st = "open" /\ Readable(st.s.link[p].o)
    /\ st' = [st EXCEPT !.s.link[p].o = ReadAll(@)]
PeerCloses(p) ==
    /\ st.s.link[p].st = "open" /\ st' = [st EXCEPT !.s.link[p].st = "drain"]

StreamNext ==
    \/ \E p \in Pipe : \/ \E name \in {"", "A"} : (name \notin DOMAIN st.s.table) /\ Attach(p, name)
                       \/ stream_xpipe_terminated(p) \/ StreamActivate(p)
                       \/ PeerSends(p) \/ PeerReads(p) \/ PeerCloses(p)
    \/ \E id \in DOMAIN st.s.table : xsend_id(id)
    \/ xsend_alone \/ xhas_in \/ stream_xrecv
    \/ \E empty \in BOOLEAN : xsend_data(empty)

StreamSpec == StreamInit /\ [][StreamNext]_st

-----------------------------------------------------------------------------
\* The assertions hold (identify_peer, routing_socket_base_t), and a message
\* being sent has its pipe only between its two parts.
StreamAssertionsHold == st.s.failed = {} /\ (st.s.out # NoPipe => st.s.moreOut)

\* A peer gets the data that were sent with its routing id; the application
\* gets the routing id of a peer and then its data (xsend, xrecv, xhas_in).
DataOfItsPeer ==
    /\ \A p \in Pipe : \A j \in 1..Len(st.s.link[p].o.q) :
          st.s.link[p].o.q[j] = <<Data(p)>>
    /\ Len(st.got) = 2 => /\ st.got[1].kind = "id"
                          /\ st.s.rid[st.got[2].v] = st.got[1].v
    /\ Len(st.got) = 1 => st.got[1].kind = "id"

\* The data sent with a routing id are not dropped while its connection is up,
\* unless the application has sent a routing id alone (xsend).
NothingSwallowed == st.lost => st.alone

-----------------------------------------------------------------------------
(***************************************************************************)
(* pair_t and dgram_t (pair.cpp, dgram.cpp): sockets with one pipe.        *)
(* Further ones are terminated.  A DGRAM message has two frames, the       *)
(* address and the data.                                                   *)
(***************************************************************************)

Part(n, i) == [v |-> <<n, i>>]

\* pipe, moreOut: _pipe and _more_out (of dgram_t); n: the message being sent,
\* i its frames sent; cut: the pipe ended within it; m counts the messages of the peers.
PairInit ==
    \E type \in {"PAIR", "DGRAM"} :
        st = [type |-> type, link |-> [p \in Pipe |-> Link], pipe |-> NoPipe, moreOut |-> FALSE,
              n |-> 1, i |-> 0, cut |-> FALSE, m |-> 0]

Terminate(s, p) == [s EXCEPT !.link[p].st = "term"]
pair_xattach_pipe(p) ==
    /\ st.link[p].st = "none"
    /\ st' = IF st.pipe = NoPipe THEN [st EXCEPT !.pipe = p, !.link[p].st = "open"]
             ELSE Terminate(st, p)
\* Mutant of Released: any pipe that ends leaves the socket without one.
ReleasedAny(s, p) == NoPipe
Released(s, p) == IF s.pipe = p THEN NoPipe ELSE s.pipe
pair_xpipe_terminated(p) ==
    /\ \/ st.link[p].st = "term"
       \/ st.link[p].st = "drain" /\ ~Readable(st.link[p].i)
    /\ st' = [st EXCEPT !.link[p].st = "gone", !.pipe = Released(st, p),
                        !.cut = @ \/ (st.pipe = p /\ st.i > 0)]
PairActivate(p) ==
    /\ st.link[p].st = "open" /\ Reportable(st.link[p].o)
    /\ st' = [st EXCEPT !.link[p].o = Reported(@)]

Takes(p) == p # NoPipe /\ st.link[p].st = "open" /\ Writable(st.link[p].o)
\* A frame is sent, or refused and the socket is as before: without a pipe, by
\* a full pipe, or by a DGRAM socket that expects the other of the two parts.
pair_xsend(more) ==
    /\ st.n <= MaxSends /\ Takes(st.pipe)
    /\ st.i < 2 /\ (st.type = "DGRAM" => more # st.moreOut)
    /\ LET d == Written(st.link[st.pipe].o, Part(st.n, st.i + 1)) IN
       st' = [st EXCEPT !.link[st.pipe].o = IF more THEN d ELSE Flushed(d),
                        !.moreOut = IF st.type = "DGRAM" THEN ~@ ELSE @,
                        !.i = IF more THEN @ + 1 ELSE 0, !.n = IF more THEN @ ELSE @ + 1]
xsend_full ==
    /\ st.n <= MaxSends /\ st.pipe # NoPipe /\ st.link[st.pipe].st = "open"
    /\ st.link[st.pipe].o.out /\ ~Writable(st.link[st.pipe].o)
    /\ st' = [st EXCEPT !.link[st.pipe].o = Checked(@)]
pair_xrecv ==
    /\ st.pipe # NoPipe /\ st.link[st.pipe].st \in {"open", "drain"}
    /\ Readable(st.link[st.pipe].i)
    /\ st' = [st EXCEPT !.link[st.pipe].i = Read(@)]

PairPeerSends(p) ==
    /\ st.link[p].st = "open" /\ st.m < MaxSends
    /\ st' = [st EXCEPT !.m = @ + 1, !.link[p].i.q = Append(@, <<Part(p, 1), Part(p, 2)>>)]
PairPeerReads(p) ==
    /\ st.link[p].st = "open" /\ Readable(st.link[p].o)
    /\ st' = [st EXCEPT !.link[p].o = ReadAll(@)]
PairPeerCloses(p) == st.link[p].st = "open" /\ st' = [st EXCEPT !.link[p].st = "drain"]

PairNext ==
    \/ \E p \in Pipe : \/ pair_xattach_pipe(p) \/ pair_xpipe_terminated(p) \/ PairActivate(p)
                       \/ PairPeerSends(p) \/ PairPeerReads(p) \/ PairPeerCloses(p)
    \/ \E more \in BOOLEAN : pair_xsend(more)
    \/ xsend_full \/ pair_xrecv

PairSpec == PairInit /\ [][PairNext]_st

-----------------------------------------------------------------------------
\* The socket has the pipe that was attached while it had none, until that one
\* ends; refusing others does not disturb it (xattach_pipe, xpipe_terminated).
OnePipe ==
    \A p \in Pipe : st.link[p].st \in {"open", "drain"} <=> st.pipe = p

\* A peer reads whole messages, of a DGRAM socket an address and data, unless
\* a pipe has ended within a message: the rest goes to the next pipe.
PeersReadWhole ==
    ~st.cut => \A p \in Pipe : \A j \in 1..Len(st.link[p].o.q) :
        LET m == st.link[p].o.q[j] IN
        /\ \A i \in 1..Len(m) : m[i] = Part(m[1].v[1], i)
        /\ st.type = "DGRAM" => Len(m) = 2
=============================================================================
