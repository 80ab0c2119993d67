------------------------------- MODULE Groups -------------------------------
(***************************************************************************)
(* radio_t and dish_t with their sessions (radio.cpp, dish.cpp).  A DISH   *)
(* socket joins and leaves groups; its session turns that into commands,   *)
(* and the session at the RADIO socket turns those back.  A message has    *)
(* one frame in the sockets and two on the wire, its group and its body.   *)
(* A connection that breaks is replaced, and the DISH socket then joins    *)
(* its groups again.  Over UDP nothing is sent to the RADIO socket, which  *)
(* sends everything.  dist_t and fq_t are reduced to choices of pipes.     *)
(***************************************************************************)
EXTENDS Naturals, Sequences, FiniteSets, SequencesExt

CONSTANTS
    Dish, Group, NoGroup,
    MaxOps,         \* bound: groups joined and left
    MaxSends,       \* bound: messages sent
    Hwm,            \* high water mark of the pipes that carry messages
    UpHwm           \* high water mark of the pipes that carry commands

VARIABLE st

Conn == Dish \X {1, 2}       \* the connections of a DISH socket, in turn
Msg(g, n) == [g |-> g, n |-> n]
NoMsg == Msg(NoGroup, 0)

\* radio_t: subs, _subscriptions as the number of entries of a group and pipe;
\* out: its pipes; rsess, pending: _state and _pending_msg of radio_session_t.
\* up and wire: what is on its way.  dish_t: joined, its _subscriptions; in:
\* its pipe; msg: _message (_has_message); dsess, group: _state and _group_msg
\* of dish_session_t; body: a body its full pipe refused.  cur: the connection
\* in use; open: the pipes attached to the RADIO socket.  link: the pipe of a
\* DISH socket, with its commands not reported read, _out_active and whether
\* dist_t has it among its active ones.  got: what the application received last
\* and the groups joined when it was taken.  History: dropped, the connections
\* on which a command was dropped at the high water mark.
Init ==
    \E udp \in BOOLEAN :
        st = [udp |-> udp,
              subs |-> [g \in Group |-> [p \in Conn |-> 0]], out |-> [p \in Conn |-> <<>>],
              rsess |-> [p \in Conn |-> "group"], pending |-> [p \in Conn |-> NoMsg],
              up |-> [p \in Conn |-> <<>>], wire |-> [p \in Conn |-> <<>>],
              joined |-> [d \in Dish |-> {}], in |-> [d \in Dish |-> <<>>],
              msg |-> [d \in Dish |-> NoMsg], dsess |-> [d \in Dish |-> "group"],
              group |-> [d \in Dish |-> NoGroup], body |-> [d \in Dish |-> NoMsg],
              cur |-> [d \in Dish |-> 0], open |-> {}, dropped |-> {},
              link |-> [d \in Dish |-> [used |-> 0, out |-> TRUE, act |-> TRUE]],
              got |-> [d \in Dish |-> [m |-> NoMsg, as |-> NoGroup, joined |-> {}]],
              ops |-> 0, n |-> 0]

Current(d) == <<d, st.cur[d]>>

-----------------------------------------------------------------------------
(* The DISH socket *)

Command(kind, g) == [kind |-> kind, g |-> g]
\* pipe_t::write of a command, or its refusal.
Write(s, d, c) ==
    LET p == <<d, s.cur[d]>> IN
    IF s.link[d].out /\ s.link[d].used < UpHwm
    THEN [s EXCEPT !.up[p] = Append(@, c), !.link[d].used = @ + 1]
    ELSE [s EXCEPT !.link[d].out = FALSE, !.dropped = @ \cup {p}]
\* dist_t::send_to_all, which does not fail.
Upward(s, d, c) ==
    IF s.cur[d] = 0 \/ s.udp THEN s
    ELSE IF ~s.link[d].act THEN [s EXCEPT !.dropped = @ \cup {<<d, s.cur[d]>>}]
    ELSE LET t == Write(s, d, c) IN [t EXCEPT !.link[d].act = t.link[d].out]
xjoin(d, g) ==
    /\ st.ops < MaxOps /\ g \notin st.joined[d]
    /\ st' = Upward([st EXCEPT !.ops = @ + 1, !.joined[d] = @ \cup {g}], d, Command("join", g))
xleave(d, g) ==
    /\ st.ops < MaxOps /\ g \in st.joined[d]
    /\ st' = Upward([st EXCEPT !.ops = @ + 1, !.joined[d] = @ \ {g}], d, Command("leave", g))

\* dish_session_t::reset, when the connection has broken.
Reset(s, d) == [s EXCEPT !.dsess[d] = "group", !.body[d] = NoMsg]
\* xattach_pipe, and after a break xhiccuped: send_subscriptions.  The hiccup
\* takes back what was not read and makes the pipe writable.
Connect(d) ==
    /\ st.cur[d] < 2
    /\ \E left \in 0..st.link[d].used :
       LET t == Reset([st EXCEPT !.cur[d] = @ + 1, !.link[d].used = left, !.link[d].out = TRUE], d)
       IN  st' = IF st.udp THEN t
                 ELSE FoldLeft(LAMBDA s, g : Write(s, d, Command("join", g)), t, SetToSeq(st.joined[d]))
\* The reader of that pipe reports a command read: process_activate_write and
\* xwrite_activated.
WriteActivated(d) ==
    /\ st.link[d].used > 0
    /\ st' = [st EXCEPT !.link[d] = [used |-> @.used - 1, out |-> TRUE, act |-> @.act \/ ~@.out]]

\* xxrecv reads a message and skips it if its group has been left.
Matching(d) == Head(st.in[d]).as \in st.joined[d]
Skip(d) ==
    /\ st.in[d] # <<>> /\ ~Matching(d) /\ st' = [st EXCEPT !.in[d] = Tail(@)]
Take(d) == [m |-> Head(st.in[d]).m, as |-> Head(st.in[d]).as, joined |-> st.joined[d]]
xhas_in(d) ==
    /\ st.msg[d] = NoMsg /\ st.in[d] # <<>> /\ Matching(d)
    /\ st' = [st EXCEPT !.in[d] = Tail(@), !.msg[d] = Take(d)]
xrecv(d) ==
    \/ st.msg[d] # NoMsg /\ st' = [st EXCEPT !.msg[d] = NoMsg, !.got[d] = st.msg[d]]
    \/ /\ st.msg[d] = NoMsg /\ st.in[d] # <<>> /\ Matching(d)
       /\ st' = [st EXCEPT !.in[d] = Tail(@), !.got[d] = Take(d)]

\* dish_session_t::push_msg: a frame of the wire.  A body that the full pipe
\* refuses has its group already, and is pushed again later.
Delivered(s, d, m, g) ==
    IF Len(s.in[d]) < Hwm
    THEN [s EXCEPT !.in[d] = Append(@, [m |-> m, as |-> g]), !.dsess[d] = "group", !.body[d] = NoMsg]
    ELSE [s EXCEPT !.body[d] = [m |-> m, as |-> g]]
push_msg(d) ==
    /\ st.cur[d] > 0
    /\ \/ /\ st.body[d] = NoMsg /\ st.wire[Current(d)] # <<>>
          /\ LET f == Head(st.wire[Current(d)])
                 t == [st EXCEPT !.wire[Current(d)] = Tail(@)]
             IN  st' = IF st.dsess[d] = "group" THEN [t EXCEPT !.group[d] = f.g, !.dsess[d] = "body"]
                       ELSE Delivered(t, d, f.m, st.group[d])
       \/ /\ st.body[d] # NoMsg /\ Len(st.in[d]) < Hwm
          /\ st' = Delivered(st, d, st.body[d].m, st.body[d].as)

-----------------------------------------------------------------------------
(* The RADIO socket *)

\* Mutant of Applied: a pipe leaves all groups with one.
LeavesAll(s, c, p) ==
    [s EXCEPT !.subs = [g \in Group |-> [@[g] EXCEPT ![p] =
        IF c.kind = "join" THEN (IF g = c.g THEN @ + 1 ELSE @) ELSE 0]]]
Applied(s, c, p) ==
    [s EXCEPT !.subs[c.g][p] = IF c.kind = "join" THEN @ + 1 ELSE IF @ > 0 THEN @ - 1 ELSE 0]
xread_activated(s, p) ==
    [FoldLeft(LAMBDA x, c : Applied(x, c, p), s, s.up[p]) EXCEPT !.up[p] = <<>>]
xattach_pipe(p) ==
    /\ p \notin st.open /\ st.cur[p[1]] = p[2]
    /\ st' = xread_activated([st EXCEPT !.open = @ \cup {p}], p)
ReadActivated(p) == p \in st.open /\ st.up[p] # <<>> /\ st' = xread_activated(st, p)
\* The pipe ends at once (set_nodelay) when its connection has broken.
xpipe_terminated(p) ==
    /\ p \in st.open /\ st.cur[p[1]] # p[2]
    /\ st' = [st EXCEPT !.open = @ \ {p}, !.out[p] = <<>>, !.up[p] = <<>>, !.wire[p] = <<>>,
                        !.subs = [g \in Group |-> [@[g] EXCEPT ![p] = 0]]]

Targets(g) == IF st.udp THEN st.open ELSE {p \in st.open : st.subs[g][p] > 0}
\* lossy: a full pipe is left out; otherwise nothing is sent (EAGAIN).
xsend(g, lossy) ==
    /\ st.n < MaxSends
    /\ lossy \/ \A p \in Targets(g) : Len(st.out[p]) < Hwm
    /\ st' = [st EXCEPT !.n = @ + 1, !.out = [p \in Conn |->
                IF p \in Targets(g) /\ Len(@[p]) < Hwm THEN Append(@[p], Msg(g, st.n + 1)) ELSE @[p]]]
\* radio_session_t::pull_msg: the group, then the body.
pull_msg(p) ==
    /\ p \in st.open
    /\ IF st.rsess[p] = "body"
       THEN st' = [st EXCEPT !.rsess[p] = "group", !.pending[p] = NoMsg,
                     !.wire[p] = Append(@, [g |-> NoGroup, m |-> st.pending[p]])]
       ELSE /\ st.out[p] # <<>>
            /\ st' = [st EXCEPT !.out[p] = Tail(@), !.pending[p] = Head(st.out[p]),
                        !.rsess[p] = "body",
                        !.wire[p] = Append(@, [g |-> Head(st.out[p]).g, m |-> NoMsg])]

Next ==
    \/ \E d \in Dish : \/ Connect(d) \/ WriteActivated(d) \/ Skip(d) \/ xhas_in(d) \/ xrecv(d) \/ push_msg(d)
                       \/ \E g \in Group : xjoin(d, g) \/ xleave(d, g)
    \/ \E p \in Conn : xattach_pipe(p) \/ ReadActivated(p) \/ xpipe_terminated(p) \/ pull_msg(p)
    \/ \E g \in Group, lossy \in BOOLEAN : xsend(g, lossy)

Spec == Init /\ [][Next]_st

-----------------------------------------------------------------------------
\* Once its commands have arrived, the RADIO socket has each DISH socket down,
\* once, for the groups it has joined, however often it joined, left and
\* reconnected (xjoin, xleave, send_subscriptions, xread_activated).  Excepted
\* is a connection on which a command was dropped at the high water mark: the
\* DISH socket ignores a refused write.
GroupsAgree ==
    /\ \A p \in Conn \ st.open, g \in Group : st.subs[g][p] = 0
    /\ \A d \in Dish :
          /\ ~st.udp /\ st.cur[d] > 0 /\ Current(d) \in st.open /\ st.up[Current(d)] = <<>>
          /\ Current(d) \notin st.dropped
          => \A g \in Group : st.subs[g][Current(d)] = IF g \in st.joined[d] THEN 1 ELSE 0

\* An application gets each body under its own group, one it had joined when
\* the message was taken from the pipe (dish_session_t, xxrecv).
BodyInItsGroup ==
    \A d \in Dish : st.got[d].as # NoGroup =>
        st.got[d].as = st.got[d].m.g /\ st.got[d].as \in st.got[d].joined
=============================================================================
