------------------------------- MODULE Router -------------------------------
(***************************************************************************)
(* router_t (router.cpp) with its table of peers (routing_socket_base_t,   *)
(* socket_base.cpp).  The socket is a record; its operations are operators *)
(* on such records, which rep_t uses too (ReqRep.tla).  Which pipe the     *)
(* fair queue picks is left open between messages (Fq.tla).  A frame is a  *)
(* record with its kind and content: the name a peer announces, an         *)
(* identity the socket delivers, or a body.                                *)
(***************************************************************************)
EXTENDS Ends, FiniteSets, Functions, TLC

CONSTANTS
    Pipe,
    NoPipe,
    Name,        \* names peers may announce; "" is the anonymous one
    MaxParts,    \* bound: frames of a message of the peers
    MaxSends,    \* bound: messages of the peers
    MaxWrites    \* bound: frames of each message of the application, after its identity

VARIABLE st

Id(x) == [kind |-> "id", v |-> x]
Body(n, i, k) == [kind |-> "body", v |-> <<n, i, k>>]   \* i-th of k frames of n
Message(n, k) == [i \in 1..k |-> Body(n, i, k)]

\* router_t as constructed, with its options.
Router(mandatory, handover) ==
    [link |-> [p \in Pipe |-> Link],
     rid |-> [p \in Pipe |-> ""],        \* _router_socket_routing_id of a pipe
     table |-> << >>,                    \* _out_pipes: identity -> pipe, active
     anonymous |-> {},
     prefetched |-> <<>>,                \* frames kept for xrecv
     in |-> NoPipe, termIn |-> FALSE, moreIn |-> FALSE,
     out |-> NoPipe, moreOut |-> FALSE,
     next |-> 1,                         \* _next_integral_routing_id
     mandatory |-> mandatory, handover |-> handover,
     failed |-> {},                      \* assertions that failed, with the pipe
     renamed |-> {},                     \* history: pipes that lost their name while
                                         \* read from and unable to take a message
     left |-> {}]                        \* history: such pipes that ended before the
                                         \* message read ahead was delivered

Unless(holds, what, p) == IF holds THEN {} ELSE {<<what, p>>}

-----------------------------------------------------------------------------
(* routing_socket_base_t *)

\* Mutant of add_out_pipe: the pipe is not active at first.
AddInactive(s, id, p) ==
    [s EXCEPT !.rid[p] = id, !.failed = @ \cup Unless(id \notin DOMAIN s.table, "added", p),
              !.table = (id :> [pipe |-> p, active |-> FALSE]) @@ @]
add_out_pipe(s, id, p) ==
    [s EXCEPT !.rid[p] = id, !.failed = @ \cup Unless(id \notin DOMAIN s.table, "added", p),
              !.table = (id :> [pipe |-> p, active |-> TRUE]) @@ @]
erase_out_pipe(s, p) ==
    [s EXCEPT !.failed = @ \cup Unless(s.rid[p] \in DOMAIN s.table, "erased", p),
              !.table = Restrict(@, DOMAIN @ \ {s.rid[p]})]
xwrite_activated(s, p) ==
    LET ids == {id \in DOMAIN s.table : s.table[id].pipe = p} IN
    [s EXCEPT !.failed = @ \cup Unless(ids # {}, "unknown", p)
                           \cup Unless(\A id \in ids : ~s.table[id].active, "active", p),
              !.table = [id \in DOMAIN @ |->
                            IF id \in ids THEN [@[id] EXCEPT !.active = TRUE] ELSE @[id]]]

-----------------------------------------------------------------------------
(* identify_peer: the result has the pipe in the table, or not *)

\* An identity the socket makes up, from _next_integral_routing_id.
Integral(s) == ToString(s.next)
\* pipe_t::terminate; the pointer may be to a pipe that has been deallocated.
Terminate(s, p) ==
    [s EXCEPT !.link[p].st = IF @ \in {"open", "drain"} THEN "term" ELSE @,
              !.failed = @ \cup Unless(s.link[p].st # "gone", "freed", p)]

\* Mutant of Dethroned: a pipe being read is terminated at once.
DethronedAtOnce(s, old) ==
    Terminate(add_out_pipe([erase_out_pipe(s, old) EXCEPT !.next = @ + 1], Integral(s), old), old)
\* The pipe that loses its name gets an integral one, and is terminated, when
\* the message that is being read from it has been read.
Dethroned(s, old) ==
    LET t == add_out_pipe([erase_out_pipe(s, old) EXCEPT !.next = @ + 1], Integral(s), old)
    IN  IF old = s.in
        THEN [t EXCEPT !.termIn = TRUE,
                       !.renamed = IF s.link[old].o.out THEN @ ELSE @ \cup {old}]
        ELSE Terminate(t, old)

identify_peer(s, p) ==
    LET d == s.link[p].i
        t == [s EXCEPT !.link[p].i = Read(d)]
        id == Frame(d).v
    IN
    CASE ~Readable(d) -> [s EXCEPT !.link[p].i.in = FALSE]
      [] Readable(d) /\ id = "" ->
            add_out_pipe([t EXCEPT !.next = @ + 1], Integral(s), p)
      [] Readable(d) /\ id # "" /\ id \notin DOMAIN s.table -> add_out_pipe(t, id, p)
      [] Readable(d) /\ id # "" /\ id \in DOMAIN s.table ->
            IF s.handover THEN add_out_pipe(Dethroned(t, s.table[id].pipe), id, p) ELSE t
Identified(s, p) == \E id \in DOMAIN s.table : s.table[id].pipe = p

\* A pipe without a name waits in _anonymous_pipes.
Placed(s, p) ==
    LET t == identify_peer(s, p) IN
    [t EXCEPT !.anonymous = IF Identified(t, p) THEN @ \ {p} ELSE @ \cup {p}]
xattach_pipe(s, p) == Placed([s EXCEPT !.link[p].st = "open"], p)
\* A pipe the application connected after setting ZMQ_CONNECT_ROUTING_ID,
\* "not allowed to duplicate an existing rid".
xattach_connected(s, p, id) ==
    IF id \in DOMAIN s.table THEN [s EXCEPT !.failed = @ \cup {<<"taken", p>>}]
    ELSE [add_out_pipe(s, id, p) EXCEPT !.link[p].st = "open"]

xread_activated(s, p) == IF p \in s.anonymous THEN Placed(s, p) ELSE s

\* _current_in and _terminate_current_in stay as they are.
xpipe_terminated(s, p) ==
    LET t == [s EXCEPT !.link[p].st = "gone",
                       !.left = IF s.in = p /\ s.termIn THEN @ \cup {p} ELSE @] IN
    IF p \in s.anonymous THEN [t EXCEPT !.anonymous = @ \ {p}]
    ELSE [erase_out_pipe(t, p) EXCEPT
             !.link[p].o = RolledBack(@),
             !.out = IF @ = p THEN NoPipe ELSE @]

-----------------------------------------------------------------------------
(* xsend and xrecv; an operator for each kind of frame *)

\* The first frame names the peer.  Returns the socket; a call that fails
\* leaves moreOut FALSE.
SendId(s, id) ==
    LET p == s.table[id].pipe
        ok == s.link[p].st = "open" /\ Writable(s.link[p].o)
    IN
    CASE id \notin DOMAIN s.table -> [s EXCEPT !.moreOut = ~s.mandatory]
      [] id \in DOMAIN s.table /\ ok -> [s EXCEPT !.moreOut = TRUE, !.out = p]
      [] id \in DOMAIN s.table /\ ~ok ->
            [s EXCEPT !.moreOut = ~s.mandatory, !.table[id].active = FALSE,
                      !.link[p].o = IF s.link[p].st = "open" THEN Checked(@) ELSE @]

\* The other frames go to that pipe, or nowhere.
SendPart(s, f, last) ==
    LET d == s.link[s.out].o
        t == [s EXCEPT !.moreOut = ~last]
    IN
    CASE s.out = NoPipe -> t
      [] s.out # NoPipe /\ ~(s.link[s.out].st = "open" /\ Writable(d)) ->
            [t EXCEPT !.link[s.out].o = RolledBack(@), !.out = NoPipe]
      [] s.out # NoPipe /\ s.link[s.out].st = "open" /\ Writable(d) ->
            [t EXCEPT !.link[s.out].o = IF last THEN Flushed(Written(d, f))
                                        ELSE Written(d, f),
                      !.out = IF last THEN NoPipe ELSE @]
xsend(s, f, last) == IF s.moreOut THEN SendPart(s, f, last)
                     ELSE IF last THEN s ELSE SendId(s, f.v)
rollback(s) ==
    IF s.out = NoPipe THEN s
    ELSE [s EXCEPT !.link[s.out].o = RolledBack(@), !.out = NoPipe, !.moreOut = FALSE]

\* The fair queue: any pipe with a message, the same one within a message.
FromQueue(s) ==
    {p \in Pipe : /\ s.link[p].st \in {"open", "drain"} /\ Readable(s.link[p].i)
                  /\ Identified(s, p) /\ (s.moreIn => p = s.in)}
\* The last frame has been delivered.
Finished(s) ==
    [(IF s.termIn THEN Terminate(s, s.in) ELSE s) EXCEPT !.termIn = FALSE, !.in = NoPipe]
Delivered(s, last) == IF last THEN [Finished(s) EXCEPT !.moreIn = FALSE]
                      ELSE [s EXCEPT !.moreIn = TRUE]

\* Reading a first frame: it is kept, behind the identity of its pipe.
Prefetch(s, p) ==
    LET d == s.link[p].i IN
    [s EXCEPT !.link[p].i = Read(d), !.in = p,
              !.prefetched = <<[f |-> Id(s.rid[p]), last |-> FALSE],
                               [f |-> Frame(d), last |-> IsLast(d)]>>]
xhas_in(s, p) == IF s.moreIn \/ s.prefetched # <<>> THEN s ELSE Prefetch(s, p)

\* xrecv delivers Got(s, p) and leaves the socket as xrecv(s, p); p is the
\* pipe the queue picks, where one is read.
Reads(s, p) == IF s.moreIn \/ s.prefetched # <<>> THEN s ELSE Prefetch(s, p)
Got(s, p) ==
    IF Reads(s, p).prefetched # <<>> THEN Head(Reads(s, p).prefetched)
    ELSE [f |-> Frame(s.link[p].i), last |-> IsLast(s.link[p].i)]
xrecv(s, p) ==
    LET t == Reads(s, p) IN
    IF t.prefetched # <<>>
    THEN Delivered([t EXCEPT !.prefetched = Tail(@)], Head(t.prefetched).last)
    ELSE Delivered([s EXCEPT !.link[p].i = Read(@)], IsLast(s.link[p].i))
-----------------------------------------------------------------------------
(* The socket among its peers and its application.  s is the socket; held  *)
(* the identities a pipe has had; got the frames of the message being      *)
(* received; sending the number and the frames left of the message being   *)
(* sent; n counts the messages of peers, m those of the application.       *)

Init ==
    \E mandatory, handover \in BOOLEAN :
        st = [s |-> Router(mandatory, handover), held |-> [p \in Pipe |-> {}],
              got |-> <<>>, sending |-> <<>>, n |-> 0, m |-> 0]

Held(t) == [p \in Pipe |-> st.held[p] \cup {t.rid[p]}]
Becomes(t) == st.s.failed = {} /\ st' = [st EXCEPT !.s = t, !.held = Held(t)]

Attach(p, name, early) ==
    /\ st.s.link[p].st = "none"
    /\ Becomes(xattach_pipe([st.s EXCEPT !.link[p].i.q =
                                IF early THEN <<<<Id(name)>>>> ELSE <<>>], p))
AttachConnected(p, id) ==
    /\ st.s.link[p].st = "none" /\ id # ""
    /\ Becomes(xattach_connected(st.s, p, id))

\* The peer flushes a message; a reader that found nothing is told.
Arrives(s, p, m) ==
    LET t == [s EXCEPT !.link[p].i.q = Append(@, m), !.link[p].i.in = TRUE] IN
    IF s.link[p].i.in THEN t ELSE xread_activated(t, p)
PeerNames(p, name) ==
    /\ st.s.link[p].st = "open" /\ p \in st.s.anonymous /\ ~st.s.link[p].i.in
    /\ Becomes(Arrives(st.s, p, <<Id(name)>>))
PeerSends(p, k) ==
    /\ st.n < MaxSends /\ st.s.link[p].st = "open" /\ st.s.link[p].i.in
    /\ st.s.failed = {}
    /\ LET t == Arrives(st.s, p, Message(p, k)) IN
       st' = [st EXCEPT !.s = t, !.n = @ + 1]
PeerReads(p) ==
    /\ st.s.link[p].st = "open" /\ Readable(st.s.link[p].o)
    /\ Becomes([st.s EXCEPT !.link[p].o = ReadAll(@)])
process_activate_write(p) ==
    /\ st.s.link[p].st = "open" /\ Reportable(st.s.link[p].o)
    /\ LET t == [st.s EXCEPT !.link[p].o = Reported(@)] IN
       Becomes(IF st.s.link[p].o.out THEN t ELSE xwrite_activated(t, p))
PeerCloses(p) ==
    /\ st.s.link[p].st = "open" /\ Becomes([st.s EXCEPT !.link[p].st = "drain"])
\* The delimiter is read, or the pipe's termination is acknowledged.  A pipe
\* whose announced name was refused is not read any more.
PipeTerminated(p) ==
    /\ \/ st.s.link[p].st = "term"
       \/ /\ st.s.link[p].st = "drain" /\ ~Readable(st.s.link[p].i)
          /\ p \in st.s.anonymous => ~st.s.link[p].i.in
    /\ Becomes(xpipe_terminated(st.s, p))

SendFirst(id, k) ==
    /\ st.sending = <<>> /\ st.s.failed = {}
    /\ LET t == xsend(st.s, Id(id), FALSE) IN
       st' = [st EXCEPT !.s = t, !.m = @ + 1,
                        !.sending = IF t.moreOut THEN Message(st.m, k) ELSE <<>>]
SendNext ==
    /\ st.sending # <<>> /\ st.s.failed = {}
    /\ st' = [st EXCEPT !.s = xsend(@, Head(st.sending), Len(st.sending) = 1),
                        !.sending = Tail(@)]
HasIn == \E p \in FromQueue(st.s) : Becomes(xhas_in(st.s, p))
Recv ==
    \E p \in FromQueue(st.s) \cup (IF st.s.prefetched # <<>> THEN {NoPipe} ELSE {}) :
        /\ st.s.prefetched = <<>> <=> p # NoPipe
        /\ st.s.failed = {}
        /\ LET g == Got(st.s, p) IN
           st' = [st EXCEPT !.s = xrecv(@, p), !.got =
                     IF g.f.kind = "id" THEN <<g.f>> ELSE Append(@, g.f)]

Next ==
    \/ \E p \in Pipe :
          \/ \E name \in Name : \/ \E early \in BOOLEAN : Attach(p, name, early)
                                \/ AttachConnected(p, name) \/ PeerNames(p, name)
          \/ \E k \in 1..MaxParts : PeerSends(p, k)
          \/ PeerReads(p) \/ process_activate_write(p)
          \/ PeerCloses(p) \/ PipeTerminated(p)
    \/ /\ st.m < Len(MaxWrites)
       /\ \E id \in (Name \ {""}) \cup DOMAIN st.s.table, k \in 1..MaxWrites[st.m + 1] :
             SendFirst(id, k)
    \/ SendNext \/ HasIn \/ Recv

Spec == Init /\ [][Next]_st

-----------------------------------------------------------------------------
\* An identity is added once, erased once, and only a pipe marked inactive
\* becomes active: the assertions of routing_socket_base_t hold, and no pipe is
\* terminated after it has been deallocated.  Three cases are excepted, in
\* which the code fails: the application connects with an identity in use
\* (identify_peer asserts); a pipe that could not take a message is given its
\* new identity as active while it is read from, and then becomes writable; and
\* a pipe that was to be terminated after its message ends before the
\* application has received that message, read ahead (_current_in).
AssertionsHold ==
    \A f \in st.s.failed : \/ f[1] = "taken"
                           \/ f[1] = "active" /\ f[2] \in st.s.renamed
                           \/ f[1] = "freed" /\ f[2] \in st.s.left

\* Every pipe that has announced its name is in the table once, under the
\* identity it is known by, and the others are not (add_out_pipe,
\* erase_out_pipe, the exchange of names in identify_peer).
TableMatches ==
    \A p \in Pipe :
        LET ids == {id \in DOMAIN st.s.table : st.s.table[id].pipe = p} IN
        ids = IF st.s.link[p].st \in {"none", "gone"} \/ p \in st.s.anonymous
              THEN {} ELSE {st.s.rid[p]}

\* A pipe marked inactive is one that refused a message, so that it will be
\* activated (xsend, xwrite_activated); except a pipe renamed while it could
\* not take one.
InactiveWillWake ==
    \A id \in DOMAIN st.s.table :
        LET l == st.s.link[st.s.table[id].pipe] IN
        l.st = "open" /\ st.s.table[id].pipe \notin st.s.renamed
            => (st.s.table[id].active <=> l.o.out)

\* What the application receives is an identity and then frames of one
\* message of one pipe that has held that identity, in order; and once the
\* message has begun its rest is there (_current_in, _terminate_current_in).
WholeReads ==
    /\ \A i \in 2..Len(st.got) :
          /\ st.got[i] = Body(st.got[2].v[1], i - 1, st.got[2].v[3])
          /\ st.got[1].v \in st.held[st.got[2].v[1]]
    /\ st.s.moreIn => st.s.prefetched # <<>> \/ FromQueue(st.s) # {}

\* What a peer can read are whole messages (SendPart, rollback).
WholeWrites ==
    \A p \in Pipe : \A j \in 1..Len(st.s.link[p].o.q) :
        LET m == st.s.link[p].o.q[j] IN m = Message(m[1].v[1], m[1].v[3])
=============================================================================
