------------------------------- MODULE Timers --------------------------------
(***************************************************************************)
(* timers_t (timers.cpp), the timers of zmq_timers_new.  A cancelled timer  *)
(* stays in the map until timeout or execute meets it; execute puts a timer *)
(* that has fired into the map again before it removes the entry that has   *)
(* fired, and its handlers may call the other functions meanwhile.          *)
(***************************************************************************)
EXTENDS Integers, Sequences, SequencesExt, FiniteSets, FiniteSetsExt

CONSTANTS
    Intervals,  \* of timers, in milliseconds; at 0 execute would not end
    Cases,      \* "fired": a handler may move a timer that has fired in the same execute
    MaxTimers,  \* bound: timers added
    MaxOps,     \* bound: calls beside timeout and execute
    MaxTime     \* bound: the clock

VARIABLE st

\* map: _timers, in its order; cancelled: _cancelled_timers; it: where execute
\* is, 0 outside of it, and start its now; in: a handler is running; res: the
\* result of the last timeout, -2 when it is out of date.  due: when each timer
\* not cancelled should fire next; bad: a handler ran that should not.
Init ==
    st = [map |-> <<>>, cancelled |-> {}, next |-> 0, now |-> 0, it |-> 0, start |-> 0,
          in |-> FALSE, res |-> -2, due |-> [i \in {} |-> 0], bad |-> FALSE, ops |-> 0]

\* multimap::insert: behind the entries with the same key.
Insert(map, at, t) ==
    LET before == SelectSeq(map, LAMBDA e : e.at <= at)
        after == SelectSeq(map, LAMBDA e : e.at > at)
    IN  before \o <<[at |-> at, id |-> t.id, ivl |-> t.ivl]>> \o after
\* match_by_id with find_if.
Positions(id) == {k \in DOMAIN st.map : st.map[k].id = id}
Due(due, id, at) == [i \in DOMAIN due \cup {id} |-> IF i = id THEN at ELSE due[i]]
NotDue(due, id) == [i \in DOMAIN due \ {id} |-> due[i]]
Calls == (st.it > 0 => st.in) /\ st.ops < MaxOps

add(ivl) ==
    /\ Calls /\ st.next < MaxTimers
    /\ LET t == [id |-> st.next + 1, ivl |-> ivl] IN
       st' = [st EXCEPT !.next = @ + 1, !.ops = @ + 1, !.res = -2,
                        !.map = Insert(@, st.now + ivl, t),
                        !.due = Due(@, t.id, st.now + ivl)]
\* It succeeds for a timer in the map that is not cancelled already.
cancel(id) ==
    /\ Calls /\ Positions(id) # {} /\ id \notin st.cancelled
    /\ st' = [st EXCEPT !.cancelled = @ \cup {id}, !.ops = @ + 1, !.res = -2,
                        !.due = NotDue(@, id)]
\* set_interval and reset: the first entry of the timer is moved, even if it is
\* cancelled and only waits to be removed.
Moved(id, ivl) ==
    LET k == Min(Positions(id)) IN
    /\ Calls /\ Positions(id) # {}
    /\ k <= st.it => "fired" \in Cases
    /\ st' = [st EXCEPT !.map = Insert(RemoveAt(@, k), st.now + ivl, [id |-> id, ivl |-> ivl]),
                        !.it = IF k < @ THEN @ - 1 ELSE @, !.ops = @ + 1, !.res = -2,
                        !.due = IF id \in DOMAIN @ THEN Due(@, id, st.now + ivl) ELSE @]
set_interval(id, ivl) == Moved(id, ivl)
reset(id) ==
    /\ Positions(id) # {}
    /\ Moved(id, st.map[Min(Positions(id))].ivl)

\* The cancelled timers before the first live one are removed.
timeout ==
    /\ st.it = 0 /\ st.res = -2
    /\ LET live == {k \in DOMAIN st.map : st.map[k].id \notin st.cancelled}
           k == IF live = {} THEN Len(st.map) + 1 ELSE Min(live)
       IN  st' = [st EXCEPT !.map = SubSeq(@, k, Len(@)),
                            !.cancelled = @ \ {st.map[j].id : j \in 1..(k - 1)},
                            !.res = IF live = {} THEN -1 ELSE Max({st.map[k].at - st.now, 0})]

\* execute, from one entry of the map to the next.
execute == st.it = 0 /\ st' = [st EXCEPT !.it = 1, !.start = st.now, !.res = -2]
AtEntry == st.it > 0 /\ ~st.in /\ st.it <= Len(st.map)
Skips ==
    /\ AtEntry /\ st.map[st.it].id \in st.cancelled
    /\ st' = [st EXCEPT !.cancelled = @ \ {st.map[st.it].id}, !.it = @ + 1]
Fires ==
    /\ AtEntry /\ st.map[st.it].id \notin st.cancelled /\ st.map[st.it].at <= st.start
    /\ LET e == st.map[st.it] IN
       st' = [st EXCEPT !.in = TRUE,
                        !.bad = @ \/ e.id \notin DOMAIN st.due \/ st.due[e.id] > st.start]
HandlerReturns ==
    /\ st.in
    /\ LET e == st.map[st.it] IN
       st' = [st EXCEPT !.in = FALSE, !.it = @ + 1, !.map = Insert(@, st.start + e.ivl, e),
                        !.due = IF e.id \in DOMAIN @ THEN Due(@, e.id, st.start + e.ivl) ELSE @]
Executed ==
    /\ st.it > 0 /\ ~st.in
    /\ st.it <= Len(st.map) => /\ st.map[st.it].id \notin st.cancelled
                               /\ st.map[st.it].at > st.start
    /\ st' = [st EXCEPT !.map = SubSeq(@, st.it, Len(@)), !.it = 0, !.start = 0]

Tick == st.now < MaxTime /\ st' = [st EXCEPT !.now = @ + 1, !.res = -2]

Next ==
    \/ \E ivl \in Intervals : add(ivl) \/ \E id \in 1..st.next : set_interval(id, ivl)
    \/ \E id \in 1..st.next : cancel(id) \/ reset(id)
    \/ timeout \/ execute \/ Skips \/ Fires \/ HandlerReturns \/ Executed \/ Tick

Spec == Init /\ [][Next]_st

-----------------------------------------------------------------------------
\* Between the calls the live part of the map is what the application asked
\* for: one entry for each timer it has not cancelled, at the time this one is
\* due (add, cancel, set_interval, reset, execute).
Live == SelectSeq(st.map, LAMBDA e : e.id \notin st.cancelled)
MapAsAsked ==
    st.it = 0 =>
        /\ {<<e.id, e.at>> : e \in Range(Live)} = {<<i, st.due[i]>> : i \in DOMAIN st.due}
        /\ Len(Live) = Cardinality(DOMAIN st.due)

\* No handler runs for a timer that has been cancelled, or before its time.
OnlyDueFire == ~st.bad

\* timeout returns the time until the first timer is due, or -1 without any,
\* although cancelled timers are before it in the map.
TimeoutRight ==
    st.res # -2 =>
        st.res = IF DOMAIN st.due = {} THEN -1
                 ELSE Max({0, Min({st.due[i] : i \in DOMAIN st.due}) - st.now})
=============================================================================
