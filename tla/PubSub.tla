------------------------------- MODULE PubSub -------------------------------
(***************************************************************************)
(* xpub_t and xsub_t (xpub.cpp, xsub.cpp; pub_t and sub_t are the same     *)
(* with fewer calls): subscriptions travel from XSUB sockets to an XPUB    *)
(* socket, which tells its application about them and sends each of them   *)
(* the messages it asked for.  A connection that breaks is replaced: the   *)
(* XSUB socket sends its subscriptions again, to a new pipe of the XPUB    *)
(* socket.  The tries are the functions they implement (Tries.tla), dist_t *)
(* is reduced to the set of pipes it writes to (Dist.tla).                 *)
(***************************************************************************)
EXTENDS Naturals, Sequences, FiniteSets, SequencesExt

CONSTANTS
    Sub, NoPipe,
    Topic,          \* prefixes subscribed to
    Subject,        \* what messages begin with
    MaxConnections, \* bound: connections of the XSUB sockets
    MaxOps,         \* bound: calls of the application of an XSUB socket
    MaxSends,       \* bound: messages sent by the XPUB socket
    MaxUnread,      \* high water mark of the pipes towards the XSUB sockets
    UpHwm,          \* high water mark of the pipes towards the XPUB socket
    NoDrop          \* modes in which ZMQ_XPUB_NODROP is set, or not

VARIABLE st

Conn == Sub \X {1, 2}        \* the connections of an XSUB socket, in turn
On(t) == [kind |-> "on", t |-> t]
Off(t) == [kind |-> "off", t |-> t]
User == [kind |-> "user", t |-> <<>>]

\* xpub_t: subs and man are _subscriptions and _manual_subscriptions; pend the
\* _pending_data, of which "of" is the pipe it came from; pipes the
\* _pending_pipes; last the _last_pipe; lossy: _lossy; matched: pipes still
\* matching after a refused message.  xsub_t: trie counts its subscriptions.
\* cur: the connection in use; open: the pipes attached to the XPUB socket; up
\* and down what is in them.  link: the pipe of an XSUB socket, with its
\* messages not reported read, _out_active and whether dist_t has it among its
\* active ones.  told: for each topic the last notification the XPUB application
\* got; of: in manual mode the pipe whose notification it got last; user: an
\* XSUB socket has sent a message that is no subscription.  History: dropped,
\* the connections on which a message of the XSUB socket was dropped at the
\* high water mark; stale, the pipes answered after their end; freed, such a
\* pipe has been used.
Init ==
    \E mode \in {"plain", "verbose", "verboser", "manual", "last"}, type \in {"PUB", "XPUB"},
      lossy \in BOOLEAN :
        /\ type = "PUB" => mode = "plain"
        /\ lossy \/ mode \in NoDrop
        /\ st = [mode |-> mode, type |-> type, lossy |-> lossy, matched |-> {},
                 link |-> [s \in Sub |-> [used |-> 0, out |-> TRUE, act |-> TRUE]],
                 dropped |-> {}, stale |-> {}, freed |-> FALSE,
                 subs |-> [t \in Topic |-> {}], man |-> [t \in Topic |-> {}],
                 pend |-> <<>>, pipes |-> <<>>, last |-> NoPipe,
                 trie |-> [s \in Sub |-> [t \in Topic |-> 0]],
                 cur |-> [s \in Sub |-> 0], open |-> {},
                 up |-> [p \in Conn |-> <<>>], down |-> [p \in Conn |-> <<>>],
                 told |-> [t \in Topic |-> FALSE], of |-> NoPipe, user |-> FALSE,
                 ops |-> 0, sent |-> 0]

Manual == st.mode \in {"manual", "last"}
Current(s) == <<s, st.cur[s]>>

-----------------------------------------------------------------------------
(* xpub_t *)

\* What xread_activated does with one message of pipe p: user data and, if the
\* mode says so, subscriptions are kept for the application.
Notify(x, m, p) ==
    [x EXCEPT !.pend = Append(@, [m |-> m, of |-> IF x.mode \in {"manual", "last"} THEN p ELSE NoPipe])]
\* Mutant of rm: the last subscriber is not recognised.
RmKeeps(x, t, p) == [x EXCEPT !.subs[t] = @ \ {p}]
\* The trie's rm: values remain, the last was removed, or it was not found.
rm(x, t, p) ==
    LET r == x.subs[t] \ {p}
        notify == p \notin x.subs[t] \/ r = {} \/ x.mode = "verboser"
        y == [x EXCEPT !.subs[t] = r]
    IN  IF notify /\ x.type = "XPUB" THEN Notify(y, Off(t), p) ELSE y
add(x, t, p) ==
    LET notify == x.subs[t] = {} \/ x.mode \in {"verbose", "verboser"}
        y == [x EXCEPT !.subs[t] = @ \cup {p}]
    IN  IF notify /\ x.type = "XPUB" THEN Notify(y, On(t), p) ELSE y
Applied(x, m, p) ==
    CASE m.kind = "user" -> Notify(x, m, p)
      [] m.kind # "user" /\ x.mode \in {"manual", "last"} ->
            Notify([x EXCEPT !.man[m.t] = IF m.kind = "on" THEN @ \cup {p} ELSE @ \ {p},
                             !.pipes = Append(@, p)], m, p)
      [] m.kind = "on" /\ x.mode \notin {"manual", "last"} -> add(x, m.t, p)
      [] m.kind = "off" /\ x.mode \notin {"manual", "last"} -> rm(x, m.t, p)
xread_activated(x, p) ==
    [FoldLeft(LAMBDA y, m : Applied(y, m, p), x, x.up[p]) EXCEPT !.up[p] = <<>>]

xattach_pipe(x, p) == xread_activated([x EXCEPT !.open = @ \cup {p}], p)

\* The topics of a pipe, in the order the trie is walked.
TopicsOf(f, p) == SetToSortSeq({t \in Topic : p \in f[t]}, LAMBDA a, b : Len(a) < Len(b))
\* send_unsubscription
Unsubscribed(x, t) ==
    IF x.type = "PUB" THEN x
    ELSE IF x.mode \in {"manual", "last"}
    THEN [Notify(x, Off(t), NoPipe) EXCEPT !.last = NoPipe, !.pipes = Append(@, NoPipe)]
    ELSE Notify(x, Off(t), NoPipe)
\* The callback comes for topics nobody else wants, or in mode verboser for
\* all; in manual mode for all that were asked for.
xpipe_terminated(x, p) ==
    LET f == IF x.mode \in {"manual", "last"} THEN x.man ELSE x.subs
        all == x.mode \in {"manual", "last", "verboser"}
        gone == SelectSeq(TopicsOf(f, p), LAMBDA t : all \/ f[t] = {p})
        without == [x EXCEPT !.subs = [t \in Topic |-> @[t] \ {p}],
                             !.man = [t \in Topic |-> @[t] \ {p}],
                             !.open = @ \ {p}, !.matched = @ \ {p}, !.down[p] = <<>>]
    IN  FoldLeft(Unsubscribed, without, gone)

Arrive(p) ==
    /\ p \notin st.open /\ st.cur[p[1]] = p[2] /\ st' = xattach_pipe(st, p)
ReadActivated(p) ==
    /\ p \in st.open /\ st.up[p] # <<>> /\ st' = xread_activated(st, p)
\* The connection has been replaced: what was in the old pipe is read first,
\* except by a PUB socket (set_nodelay).
PipeTerminated(p) ==
    /\ p \in st.open /\ st.cur[p[1]] # p[2] /\ (st.up[p] = <<>> \/ st.type = "PUB")
    /\ st' = xpipe_terminated([st EXCEPT !.up[p] = <<>>], p)

\* xsetsockopt (ZMQ_SUBSCRIBE, ZMQ_UNSUBSCRIBE) in manual mode, for the pipe of
\* the notification just received.
Answer(t, on) ==
    /\ Manual /\ st.last # NoPipe
    /\ st' = [st EXCEPT !.subs[t] = IF on THEN @ \cup {st.last} ELSE @ \ {st.last},
                        !.stale = IF st.last \in st.open THEN @ ELSE @ \cup {st.last}]

xrecv ==
    /\ st.type = "XPUB" /\ st.pend # <<>>
    /\ LET m == Head(st.pend).m
           pops == Manual /\ st.pipes # <<>>
       IN
       st' = [st EXCEPT !.pend = Tail(@), !.of = IF Manual THEN Head(st.pend).of ELSE @,
                        !.last = IF pops THEN Head(st.pipes) ELSE @,
                        !.pipes = IF pops THEN Tail(@) ELSE @,
                        !.told = IF m.kind = "user" \/ Manual THEN @ ELSE [@ EXCEPT ![m.t] = m.kind = "on"]]

Matching(x) == UNION {st.subs[t] : t \in {t \in Topic : IsPrefix(t, x)}}
Targets(x) ==
    IF st.mode = "last" /\ st.last # NoPipe THEN Matching(x) \cap {st.last} ELSE Matching(x)
Roomy(p) == Len(st.down[p]) < MaxUnread
\* With ZMQ_XPUB_NODROP a message that a matching pipe cannot take is refused
\* with EAGAIN; the pipes stay matching.
xsend(x) ==
    LET to == st.matched \cup Targets(x)
        t == [st EXCEPT !.last = IF st.mode = "last" THEN NoPipe ELSE @]
    IN
    /\ st.sent < MaxSends
    /\ st' = IF ~(to \subseteq st.open) THEN [st EXCEPT !.freed = TRUE]
             ELSE IF ~st.lossy /\ \E p \in to : ~Roomy(p) THEN [t EXCEPT !.matched = to]
             ELSE [t EXCEPT !.sent = @ + 1, !.matched = {},
                            !.down = [p \in Conn |-> IF p \in to /\ Roomy(p)
                                                     THEN Append(@[p], x) ELSE @[p]]]

-----------------------------------------------------------------------------
(* xsub_t *)

\* pipe_t::write of message m, or its refusal.
Write(x, s, m) ==
    LET p == <<s, x.cur[s]>> IN
    IF x.link[s].out /\ x.link[s].used < UpHwm
    THEN [x EXCEPT !.up[p] = Append(@, m), !.link[s].used = @ + 1]
    ELSE [x EXCEPT !.link[s].out = FALSE, !.dropped = @ \cup {p}]
\* dist_t::send_to_all: a pipe that refuses a message is not active any more,
\* one that is not active gets nothing.
SendUp(x, s, m) ==
    IF x.cur[s] = 0 THEN x
    ELSE IF ~x.link[s].act THEN [x EXCEPT !.dropped = @ \cup {<<s, x.cur[s]>>}]
    ELSE LET y == Write(x, s, m) IN [y EXCEPT !.link[s].act = y.link[s].out]
\* xattach_pipe, and xhiccuped when the connection has been replaced:
\* send_subscription for each topic.  process_hiccup takes back what was not
\* read and makes the pipe writable; dist_t does not learn of that.
Attach(s) ==
    /\ st.cur[s] < 2 /\ Cardinality({p \in Conn : p[2] <= st.cur[p[1]]}) < MaxConnections
    /\ \E left \in 0..st.link[s].used :
       LET cached == SetToSortSeq({t \in Topic : st.trie[s][t] > 0},
                                  LAMBDA a, b : Len(a) < Len(b))
           x == [st EXCEPT !.cur[s] = @ + 1, !.link[s].used = left, !.link[s].out = TRUE]
       IN  st' = FoldLeft(LAMBDA y, t : Write(y, s, On(t)), x, cached)
\* The reader of that pipe reports a message read: process_activate_write and
\* xwrite_activated.
WriteActivated(s) ==
    /\ st.link[s].used > 0
    /\ st' = [st EXCEPT !.link[s] = [used |-> @.used - 1, out |-> TRUE, act |-> @.act \/ ~@.out]]

\* Mutant of Unsubscribe: every cancellation is passed on.
EveryCancel(x, s, t) == TRUE
LastCancel(x, s, t) == x.trie[s][t] = 1
xsub_xsend(s, m) ==
    /\ st.ops < MaxOps
    /\ LET x == [st EXCEPT !.ops = @ + 1] IN
       CASE m.kind = "on" -> st' = SendUp([x EXCEPT !.trie[s][m.t] = @ + 1], s, m)
         [] m.kind = "off" ->
              LET y == [x EXCEPT !.trie[s][m.t] = IF @ = 0 THEN 0 ELSE @ - 1] IN
              st' = IF LastCancel(st, s, m.t) THEN SendUp(y, s, m) ELSE y
         [] m.kind = "user" -> st' = SendUp([x EXCEPT !.user = TRUE], s, m)
\* Received by the application, or filtered out by xsub_t::match.
xsub_xrecv(s) ==
    /\ st.cur[s] > 0 /\ st.down[Current(s)] # <<>>
    /\ st' = [st EXCEPT !.down[Current(s)] = Tail(@)]

Next ==
    /\ ~st.freed
    /\ \/ \E s \in Sub : \/ Attach(s) \/ WriteActivated(s) \/ xsub_xrecv(s)
                         \/ \E t \in Topic : xsub_xsend(s, On(t)) \/ xsub_xsend(s, Off(t))
                         \/ xsub_xsend(s, User)
       \/ \E p \in Conn : Arrive(p) \/ ReadActivated(p) \/ PipeTerminated(p)
       \/ \E t \in Topic, on \in BOOLEAN : Answer(t, on)
       \/ \E x \in Subject : xsend(x)
       \/ xrecv

Spec == Init /\ [][Next]_st

-----------------------------------------------------------------------------
\* Only pipes that are attached are in the tries, so that only they are
\* matched (xpipe_terminated); except those the application answers, in manual
\* mode, after they have ended: _last_pipe is not cleared.
TriesHoldLivePipes ==
    /\ \A t \in Topic : st.subs[t] \cup st.man[t] \subseteq st.open \cup st.stale
    /\ st.freed => st.stale # {}

\* Once the subscriptions under way have arrived, the XPUB socket sends to a
\* subscriber what it subscribed to: however often it subscribed, cancelled
\* and reconnected (trie_t and mtrie_t counts, send_subscription).  Excepted
\* is a connection on which a message was dropped at the high water mark
\* (send_subscription, dist_t::send_to_all); what was dropped on an earlier
\* connection is made good by the next.
SubscriptionsAgree ==
    \A s \in Sub :
        /\ st.cur[s] > 0 /\ Current(s) \in st.open /\ st.up[Current(s)] = <<>>
        /\ Current(s) \notin st.dropped
        => LET f == IF Manual THEN st.man ELSE st.subs IN
           \A t \in Topic : st.trie[s][t] > 0 <=> Current(s) \in f[t]

\* The application of an XPUB socket, once it has received all notifications,
\* knows the topics that anybody is subscribed to (notify, send_unsubscription;
\* in mode verboser it has to count); unless a subscription was dropped at the
\* high water mark: its cancellation, not found, is passed on even if others
\* are subscribed ("reconsider what to do if rm_result == not_found").
ApplicationKnows ==
    /\ st.type = "XPUB" /\ st.mode \in {"plain", "verbose"}
    /\ st.pend = <<>> /\ st.dropped = {}
    => \A t \in Topic : st.told[t] <=> st.subs[t] # {}

\* In manual mode a subscription is answered for the pipe it came from, if all
\* messages are subscriptions (_pending_pipes runs along with _pending_data).
AnswersRightPipe ==
    Manual /\ ~st.user /\ st.last # NoPipe /\ st.of # NoPipe => st.last = st.of
=============================================================================
