------------------------------ MODULE IoPoller ------------------------------
(***************************************************************************)
(* The loop of an I/O thread over file descriptors (epoll.cpp, kqueue.cpp, *)
(* poll.cpp, select.cpp, devpoll.cpp, pollset.cpp, io_thread.cpp), outside *)
(* Windows.  The system reports the events of a round at once.  They are   *)
(* delivered one by one, and each handler may remove descriptors that      *)
(* still have events in the round, close them, and register new ones that  *)
(* get the same numbers.  The timers of the same thread are the second     *)
(* part of the module.                                                     *)
(***************************************************************************)
EXTENDS Naturals, Sequences, SequencesExt, FiniteSets

CONSTANTS
    Kinds,     \* the pollers checked
    Fd,        \* the numbers of descriptors but the mailbox's, which is 0
    MaxRegs,   \* bound: registrations in the table at a time, removed ones included
    MaxOps     \* bound: calls of handlers to the poller

VARIABLE st

\* ent: the entries in the order of their registration, dead until they are
\* cleaned away; ker: what the system has been asked to watch; evs: the events
\* of the round still to be handled; ev: the current one, with the callbacks
\* left of it and the entry looked up for it; fresh: pending_list of devpoll_t.
NoEvent == [i |-> 0, fd |-> 0, steps |-> <<>>, pe |-> 0]
Entry(f) == [fd |-> f, want |-> {}, live |-> TRUE, accepted |-> FALSE]
Mailbox == [Entry(0) EXCEPT !.want = {"in"}, !.accepted = TRUE]
Init ==
    \E k \in Kinds :
        st = [kind |-> k, ent |-> <<Mailbox>>, ker |-> [f \in Fd \cup {0} |-> IF f = 0 THEN {"in"} ELSE {}],
              load |-> 1, timer |-> FALSE, pc |-> "loop", back |-> "loop", cur |-> 0, evs |-> {},
              ev |-> NoEvent, ops |-> 0, assert |-> TRUE, strays |-> FALSE]

Live(s) == {i \in DOMAIN s.ent : s.ent[i].live}
At(s, f) == {i \in Live(s) : s.ent[i].fd = f}
Asserting(s, p) == [s EXCEPT !.assert = @ /\ p]

-----------------------------------------------------------------------------
(* The calls of the objects: add_fd and rm_fd keep a table of entries and tell *)
(* the system, set_pollin to reset_pollout replace the interest of entry i.    *)

adjust_load(s, n) == [s EXCEPT !.load = @ + n]
Registered(s, f) == adjust_load([s EXCEPT !.ent = Append(@, Entry(f))], 1)
Retired(s, i) == adjust_load([s EXCEPT !.ent[i].live = FALSE], 0 - 1)
Watch(s, f, want) == [s EXCEPT !.ker[f] = want]

\* EPOLL_CTL_ADD without events, EPOLL_CTL_DEL, EPOLL_CTL_MOD.
epoll_add_fd(s, f) == Watch(Registered(s, f), f, {})
epoll_rm_fd(s, i) == Watch(Retired(Asserting(s, s.ent[i].live), i), s.ent[i].fd, {})
epoll_set(s, i, want) == Watch(s, s.ent[i].fd, want)

\* A filter is added or deleted when its flag changes; rm_fd deletes those
\* whose flags are set.
kevent(s, i, want) ==
    LET old == s.ent[i].want IN
    [s EXCEPT !.ker[s.ent[i].fd] = (@ \cup (want \ old)) \ (old \ want)]
kqueue_add_fd(s, f) == Registered(s, f)
kqueue_rm_fd(s, i) == Retired(kevent(s, i, {}), i)
kqueue_set(s, i, want) == kevent(s, i, want)

\* The pollfd itself is what the system gets, and the table must have no other
\* entry with the number.
poll_add_fd(s, f) == Watch(Registered(Asserting(s, At(s, f) = {}), f), f, {})
poll_rm_fd(s, i) == Watch(Retired(Asserting(s, s.ent[i].live), i), s.ent[i].fd, {})
poll_set(s, i, want) == Watch(s, s.ent[i].fd, want)

\* Bits of the sets of fds_set; the one for errors is set at once.
fds_set(s, i, want) ==
    LET old == s.ent[i].want IN
    [s EXCEPT !.ker[s.ent[i].fd] = (@ \cup (want \ old)) \ (old \ want)]
remove_fd(s, f) == Watch(s, f, {})
select_add_fd(s, f) == Registered(s, f)
select_rm_fd(s, i) == Retired(remove_fd(Asserting(s, s.ent[i].live), s.ent[i].fd), i)
select_set(s, i, want) == fds_set(s, i, want)

\* A write of POLLREMOVE, then one of all the events.
devpoll_ctl(s, f, events) == Watch(s, f, events)
devpoll_add_fd(s, f) == Registered(devpoll_ctl(Asserting(s, At(s, f) = {}), f, {}), f)
devpoll_rm_fd(s, i) == Retired(devpoll_ctl(Asserting(s, s.ent[i].live), s.ent[i].fd, {}), i)
devpoll_set(s, i, want) == devpoll_ctl(devpoll_ctl(s, s.ent[i].fd, {}), s.ent[i].fd, want)

\* PS_MOD adds; to take one away all are deleted and the other added again.
pollset_add_fd(s, f) == Registered(Watch(s, f, {}), f)
pollset_rm_fd(s, i) == Retired(Watch(s, s.ent[i].fd, {}), i)
pollset_set(s, i, want) ==
    LET old == s.ent[i].want IN
    [s EXCEPT !.ker[s.ent[i].fd] =
        IF want = old THEN @ ELSE IF old \subseteq want THEN @ \cup (want \ old) ELSE want]

add_fd(s, f) ==
    CASE s.kind = "epoll" -> epoll_add_fd(s, f)
      [] s.kind = "kqueue" -> kqueue_add_fd(s, f)
      [] s.kind = "poll" -> poll_add_fd(s, f)
      [] s.kind = "select" -> select_add_fd(s, f)
      [] s.kind = "devpoll" -> devpoll_add_fd(s, f)
      [] s.kind = "pollset" -> pollset_add_fd(s, f)
rm_fd(s, i) ==
    CASE s.kind = "epoll" -> epoll_rm_fd(s, i)
      [] s.kind = "kqueue" -> kqueue_rm_fd(s, i)
      [] s.kind = "poll" -> poll_rm_fd(s, i)
      [] s.kind = "select" -> select_rm_fd(s, i)
      [] s.kind = "devpoll" -> devpoll_rm_fd(s, i)
      [] s.kind = "pollset" -> pollset_rm_fd(s, i)
set_poll(s, i, want) ==
    LET t == CASE s.kind = "epoll" -> epoll_set(s, i, want)
               [] s.kind = "kqueue" -> kqueue_set(s, i, want)
               [] s.kind = "poll" -> poll_set(s, i, want)
               [] s.kind = "select" -> select_set(s, i, want)
               [] s.kind = "devpoll" -> devpoll_set(s, i, want)
               [] s.kind = "pollset" -> pollset_set(s, i, want)
    IN  [t EXCEPT !.ent[i].want = want]

-----------------------------------------------------------------------------
(* Whom an event of the round reaches: 0 for nobody *)

\* The entry whose address came with the event.
epoll_found(s, e) == IF s.ent[e.i].live THEN e.i ELSE 0
kqueue_found(s, e) == IF s.ent[e.i].live THEN e.i ELSE 0
\* The entry at this position.
poll_found(s, e) == IF s.ent[e.i].live THEN e.i ELSE 0
select_found(s, e) == IF s.ent[e.i].live THEN e.i ELSE 0
\* Whoever has the number now, if it was there when the round began.
devpoll_found(s, e) ==
    LET who == {i \in At(s, e.fd) : s.ent[i].accepted} IN
    IF who = {} THEN 0 ELSE CHOOSE i \in who : TRUE
\* Whoever has the number when the event's turn comes, unless removed since.
pollset_found(s, e) == IF e.pe # 0 /\ s.ent[e.pe].live THEN e.pe ELSE 0
Found(s, e) ==
    CASE s.kind = "epoll" -> epoll_found(s, e)
      [] s.kind = "kqueue" -> kqueue_found(s, e)
      [] s.kind = "poll" -> poll_found(s, e)
      [] s.kind = "select" -> select_found(s, e)
      [] s.kind = "devpoll" -> devpoll_found(s, e)
      [] s.kind = "pollset" -> pollset_found(s, e)

\* The callbacks of an event: an error is told to in_event.
Callbacks(kind, what) ==
    LET order == IF kind = "select" THEN <<"in", "out", "err">> ELSE <<"err", "out", "in">>
    IN  SelectSeq(order, LAMBDA w : w \in what)

-----------------------------------------------------------------------------
(* The loop *)

Clean(s) == [s EXCEPT !.ent = SelectSeq(@, LAMBDA e : e.live)]
\* execute_timers: a due timer calls its object; then the loop ends, spins,
\* or goes to wait.
Accepted(s) ==
    [s EXCEPT !.ent = [i \in DOMAIN @ |-> [@[i] EXCEPT !.accepted = TRUE]]]
TimerFires ==
    /\ st.pc = "loop" /\ st.timer
    /\ st' = [Accepted(st) EXCEPT !.pc = "handler", !.back = "wait", !.timer = FALSE]
Wait ==
    /\ st.pc = "loop"
    /\ st' = [Accepted(st) EXCEPT !.pc = "wait"]
\* No descriptor is registered, by the count or by the cleaned table.
\* The mailbox is removed together with the setting of stopping.
epoll_done(s) == s.load = 0
kqueue_done(s) == s.load = 0
poll_done(s) == Clean(s).ent = <<>>
select_done(s) == Clean(s).ent = <<>>
devpoll_done(s) == s.load = 0
pollset_done(s) == At(s, 0) = {}
Done(s) ==
    CASE s.kind = "epoll" -> epoll_done(s)
      [] s.kind = "kqueue" -> kqueue_done(s)
      [] s.kind = "poll" -> poll_done(s)
      [] s.kind = "select" -> select_done(s)
      [] s.kind = "devpoll" -> devpoll_done(s)
      [] s.kind = "pollset" -> pollset_done(s)
Ends ==
    /\ st.pc = "wait" /\ ~st.timer /\ Done(st)
    /\ st' = [Asserting(Clean(st), st.load = 0) EXCEPT !.pc = "ended"]
\* What the system may report of an entry: errors in any case, except that
\* kqueue has an event per filter.
Reports(s, i) ==
    LET want == s.ker[s.ent[i].fd] IN
    IF s.kind = "kqueue" THEN {{w} : w \in want} \cup {{w, "err"} : w \in want}
    ELSE SUBSET (want \cup {"err"}) \ {{}}
Event(s, i, what) ==
    [i |-> i, fd |-> s.ent[i].fd, steps |-> Callbacks(s.kind, what), pe |-> 0]
\* Of this many descriptors there are events in a round.
Ready == 2
Round ==
    /\ st.pc = "wait" /\ ~Done(st)
    /\ LET s == IF st.kind \in {"poll", "select"} THEN Clean(st) ELSE st IN
       \E ready \in SUBSET Live(s) :
       \E what \in [ready -> UNION {Reports(s, i) : i \in ready}] :
           /\ Cardinality(ready) \in 1..Ready
           /\ \A i \in ready : what[i] \in Reports(s, i)
           /\ st' = [s EXCEPT !.pc = "events", !.evs = {Event(s, i, what[i]) : i \in ready}]
\* Interrupted, or nothing but a timer.
Nothing == st.pc = "wait" /\ (Done(st) => st.timer) /\ st' = [st EXCEPT !.pc = "loop"]

NextEvent ==
    /\ st.pc = "events" /\ st.ev = NoEvent
    /\ \E e \in st.evs :
           LET now == At(st, e.fd) IN
           st' = [st EXCEPT !.evs = @ \ {e},
                            !.ev = [e EXCEPT !.pe = IF now = {} THEN 0 ELSE CHOOSE i \in now : TRUE]]
\* One callback, or none if the descriptor has been removed.
Deliver ==
    /\ st.pc = "events" /\ st.ev # NoEvent
    /\ LET j == Found(st, st.ev) IN
       st' = IF st.ev.steps = <<>> \/ j = 0 THEN [st EXCEPT !.ev = NoEvent]
             ELSE [st EXCEPT !.pc = "handler", !.back = "events", !.cur = j, !.ev.steps = Tail(@),
                             !.strays = @ \/ j # st.ev.i,
                             !.assert = @ /\ ~(st.ent[j].fd = 0 /\ Head(st.ev.steps) = "out")]
RoundEnds ==
    /\ st.pc = "events" /\ st.evs = {} /\ st.ev = NoEvent
    /\ st' = [Clean(st) EXCEPT !.pc = "loop"]

-----------------------------------------------------------------------------
(* Handlers: engines, listeners, connecters, and the mailbox's commands *)

Handling == st.pc = "handler" /\ st.ops < MaxOps /\ At(st, 0) # {}
Does(s) == st' = [s EXCEPT !.ops = @ + 1]
Registers ==
    /\ Handling /\ Len(st.ent) < MaxRegs
    /\ \E f \in Fd : At(st, f) = {} /\ Does(add_fd(st, f))
Removes == Handling /\ \E i \in Live(st) : st.ent[i].fd # 0 /\ Does(rm_fd(st, i))
Sets ==
    /\ Handling
    /\ \E i \in Live(st), want \in SUBSET {"in", "out"} :
           st.ent[i].fd # 0 /\ want # st.ent[i].want /\ Does(set_poll(st, i, want))
Arms == Handling /\ st' = [st EXCEPT !.timer = ~@, !.ops = @ + 1]
\* The mailbox's last command, when all objects of the thread are gone.
process_stop ==
    /\ Handling /\ ~st.timer /\ st.cur # 0 /\ Live(st) = {st.cur} /\ st.ent[st.cur].fd = 0
    /\ Does(rm_fd(st, st.cur))
Returns == st.pc = "handler" /\ st' = [st EXCEPT !.pc = st.back, !.cur = 0]

Next ==
    \/ TimerFires \/ Wait \/ Ends \/ Round \/ Nothing \/ NextEvent \/ Deliver \/ RoundEnds
    \/ Registers \/ Removes \/ Sets \/ Arms \/ process_stop \/ Returns

Spec == Init /\ [][Next]_st

-----------------------------------------------------------------------------
\* The assertions of add_fd, rm_fd, the loops and io_thread_t::out_event hold.
AssertionsHold == st.assert

\* An event reaches the registration it was reported for and nobody who got
\* the number later in the round (the loops; pollset_t does not promise it).
NoStrayEvents == st.kind # "pollset" => ~st.strays

\* What the system watches is what the entries with a number ask for, and a
\* number that is not registered is not watched.
WatchedAsAsked ==
    \A f \in Fd : st.ker[f] = UNION {st.ent[i].want : i \in At(st, f)}

\* The load that ends the loop and chooses I/O threads counts the registered
\* descriptors, and the thread ends with nothing registered and no timer.
LoadCounts ==
    /\ st.load = Cardinality(Live(st))
    /\ st.pc = "ended" => Live(st) = {} /\ ~st.timer

-----------------------------------------------------------------------------
(***************************************************************************)
(* The timers of an I/O thread (poller_base.cpp) and the engine that uses  *)
(* them most (zmtp_engine.cpp, stream_engine_base.cpp): handshake          *)
(* interval, heartbeat interval, heartbeat timeout and the time to live    *)
(* the peer announced.  The timers are a multimap by expiration;           *)
(* execute_timers walks over the due ones, calls the engine, which adds    *)
(* and cancels timers meanwhile, and erases them afterwards in one go.     *)
(***************************************************************************)

CONSTANTS
    Handshake, Interval, Timeout,  \* handshake_ivl, heartbeat_interval, _heartbeat_timeout
    Ttls, Scale, Width,            \* TTLs of the peer, 100 ms in them, the values of a uint16_t
    MaxTime                        \* bound: the clock


\* now: the clock; timers: _timers; pass: execute_timers is running, with the
\* time it has read and the place of the iterator; lost: begin or the iterator
\* points to an erased entry.  Of the engine: stage (plugged, greeted, ready,
\* dead), fired (the timers executed in this pass), twice (ivl was, and then
\* another, so the engine died with its new ivl timer), has (the flags _has_..._timer), ping: _next_msg is
\* produce_ping_message; assert: the assertion of cancel_timer.  While a ttl timer
\* is set: heard, the time of the last frame, and ttl, announced by the last ping.
EngineEntry(at, after, id) == [due |-> at + after, id |-> id]
EngineInit ==
    st = [now |-> 0, timers |-> <<EngineEntry(0, Handshake, "handshake")>>, pass |-> FALSE, current |-> 0,
          it |-> 1, lost |-> FALSE, fired |-> {}, twice |-> FALSE, stage |-> "plugged", has |-> {"handshake"}, ping |-> FALSE,
          heard |-> 0, ttl |-> 0, assert |-> TRUE]

-----------------------------------------------------------------------------
(* poller_base_t *)

\* The new entry comes after those with the same expiration.
add_timer(s, after, id) ==
    LET e == EngineEntry(s.now, after, id)
        k == Len(SelectSeq(s.timers, LAMBDA x : x.due <= e.due))
    IN  [s EXCEPT !.timers = InsertAt(@, k + 1, e)]
\* The first entry with this id goes, also one that is being executed.
cancel_timer(s, id) ==
    LET hit == {k \in DOMAIN s.timers : s.timers[k].id = id}
        k == CHOOSE i \in hit : \A j \in hit : i <= j
    IN  IF hit = {} THEN [s EXCEPT !.assert = FALSE]
        ELSE [s EXCEPT !.timers = RemoveAt(@, k),
                       !.lost = @ \/ (s.pass /\ k \in {1, s.it} /\ k <= s.it),
                       !.it = IF s.pass /\ k < @ THEN @ - 1 ELSE @]

-----------------------------------------------------------------------------
(* The engine *)

Order == <<"handshake", "ttl", "timeout", "ivl">>
Cancelled(s, ids) ==
    LET Cancel(t, id) ==
            IF id \in ids \cap t.has THEN [cancel_timer(t, id) EXCEPT !.has = @ \ {id}] ELSE t
    IN  FoldLeft(Cancel, s, Order)
\* error and unplug.
error(s) == [Cancelled(s, s.has) EXCEPT !.stage = "dead", !.ping = FALSE, !.heard = 0, !.ttl = 0]
Armed(s, after, id) ==
    IF id \in s.has \/ after = 0 THEN s ELSE [add_timer(s, after, id) EXCEPT !.has = @ \cup {id}]
\* produce_ping_message.
Pinged(s) == [Armed(s, Timeout, "timeout") EXCEPT !.ping = FALSE]

\* timer_event; the ping leaves at once unless earlier output is in the way.
TimerEvent(s, id) ==
    IF id # "ivl" THEN {error([s EXCEPT !.has = @ \ {id}])}
    ELSE {add_timer(t, Interval, "ivl") : t \in {Pinged(s), [s EXCEPT !.ping = TRUE]}}
EngineLive == st.stage # "dead" /\ ~st.pass
out_event == EngineLive /\ st.ping /\ st' = Pinged(st)
\* The greeting has been received; the mechanism is ready.
Greeted ==
    /\ EngineLive /\ st.stage = "plugged"
    /\ st' = [Cancelled(st, {"handshake"}) EXCEPT !.stage = "greeted"]
mechanism_ready ==
    /\ EngineLive /\ st.stage = "greeted"
    /\ st' = [Armed(st, Interval, "ivl") EXCEPT !.stage = "ready"]
\* The time of the last frame matters as long as there is a ttl timer.
Heard(s, ttl) == IF "ttl" \in s.has THEN [s EXCEPT !.heard = s.now, !.ttl = ttl]
                                    ELSE [s EXCEPT !.heard = 0, !.ttl = 0]
\* A decode_and_push that lets the ttl timer run on over a frame without one.
FrameKeepsTtl ==
    /\ EngineLive /\ st.stage = "ready"
    /\ st' = Heard(Cancelled(st, {"timeout"}), st.ttl)
\* decode_and_push, for a PING with process_heartbeat_message, whose product
\* is computed in 16 bits.
decode_and_push ==
    /\ EngineLive /\ st.stage = "ready"
    /\ st' = Heard(Cancelled(st, {"timeout", "ttl"}), 0)
process_heartbeat_message(ttl) ==
    /\ EngineLive /\ st.stage = "ready"
    /\ LET s == Armed(Cancelled(st, {"timeout", "ttl"}), (ttl * Scale) % Width, "ttl")
       IN  st' = Heard([s EXCEPT !.ping = FALSE], ttl)
\* The connection breaks.
Breaks == EngineLive /\ st' = error(st)

-----------------------------------------------------------------------------
(* execute_timers *)

Due(s) == s.timers # <<>> /\ s.timers[1].due <= s.now
Begin ==
    /\ ~st.pass /\ ~st.lost /\ Due(st)
    /\ st' = [st EXCEPT !.pass = TRUE, !.current = st.now, !.it = 1]
Step ==
    /\ st.pass /\ ~st.lost /\ st.it <= Len(st.timers) /\ st.timers[st.it].due <= st.current
    /\ \E s \in TimerEvent(st, st.timers[st.it].id) :
           st' = [s EXCEPT !.it = @ + 1, !.fired = @ \cup {st.timers[st.it].id},
                           !.twice = "ivl" \in st.fired /\ s.stage = "dead"]
End ==
    /\ st.pass /\ ~st.lost
    /\ st.it <= Len(st.timers) => st.timers[st.it].due > st.current
    /\ st' = [st EXCEPT !.pass = FALSE, !.current = 0, !.it = 1, !.fired = {},
                        !.timers = SubSeq(@, st.it, Len(@))]
Tick ==
    /\ st.now < MaxTime /\ ~st.lost
    /\ st' = [st EXCEPT !.now = @ + 1]

EngineNext ==
    /\ ~st.twice
    /\ \/ Begin \/ Step \/ End \/ Tick
       \/ out_event \/ Greeted \/ mechanism_ready \/ Breaks
       \/ decode_and_push \/ \E ttl \in Ttls : process_heartbeat_message(ttl)

EngineSpec == EngineInit /\ [][EngineNext]_st

-----------------------------------------------------------------------------
\* cancel_timer finds the timer whose flag is set, and nothing the walk over
\* the due timers points to is erased under it.  The exception is an engine
\* that dies of a timer executed in the same pass after its ivl timer:
\* cancel_timer then finds the executed entry of ivl, not the new one.
EngineAssertionsHold == ~st.twice => st.assert /\ ~st.lost

\* The timers still to be executed are those of the flags, each once.
AsFlagged ==
    LET pending == SubSeq(st.timers, st.it, Len(st.timers)) IN
    /\ \A i, j \in DOMAIN pending : i # j => pending[i].id # pending[j].id
    /\ {e.id : e \in Range(pending)} \subseteq st.has

\* cancel_timer cancels: the timers still to be executed are those the engine
\* has set and not cancelled, so that none calls an engine that is gone, with
\* the same exception.
CancelledTimersGone == ~st.twice => AsFlagged

\* The same without the exception, as poller_base.hpp states it.
CancelCancels == AsFlagged

\* A peer is given up for its silence only when it has been silent, since the last
\* of its frames, for as long as it announced in its last ping.  The exception is a
\* time that does not fit in 16 bits as milliseconds, of which process_heartbeat_message
\* grants the remainder.
TtlGranted ==
    st.ttl * Scale < Width =>
        \A e \in Range(st.timers) : e.id = "ttl" => e.due >= st.heard + st.ttl * Scale
=============================================================================
