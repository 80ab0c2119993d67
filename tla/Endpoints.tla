----------------------------- MODULE Endpoints ------------------------------
(***************************************************************************)
(* bind, connect and term_endpoint of socket_base_t (socket_base.cpp): the *)
(* tables _endpoints and _inprocs, which hold pointers to listeners,       *)
(* sessions and pipes while those may end by themselves.  The registry of  *)
(* inproc names is the subject of Ctx; here it is a set of names.  The     *)
(* socket monitor, which reports on endpoints, is the second part of the   *)
(* module.                                                                 *)
(***************************************************************************)
EXTENDS Naturals, FiniteSetsExt, Sequences

CONSTANTS
    Uri,          \* endpoints
    Proto,        \* [Uri -> {"inproc", "tcp", "tipc", "udp"}]
    Canon,        \* [Uri -> Uri]: a TCP address resolved and printed
    Owned, Ends,  \* addresses of listeners and sessions, and of pipes
    Nil,
    MaxOps        \* bound: calls

VARIABLE st

Type == {"DEALER", "RADIO", "DISH"}
Single(type) == type = "DEALER"     \* is_single_connect

\* endpoints: entries of _endpoints; inprocs: of _inprocs; own: the children,
\* with the key they were made for and their pipe; pipe: the pipes, with the
\* identifier of their endpoint; bound: inproc names this socket has
\* registered; taken: those of others.  History: wrong, a call ended what belongs
\* to another endpoint; orphaned, a session has ended by itself, its entry stays.
Init ==
    \E type \in Type, immediate \in BOOLEAN, taken \in SUBSET {u \in Uri : Proto[u] = "inproc"} :
        st = [type |-> type, immediate |-> immediate, taken |-> taken, bound |-> {},
              endpoints |-> {}, inprocs |-> {},
              own |-> [o \in Owned |-> [st |-> "none", kind |-> "none", key |-> Nil, pipe |-> Nil]],
              pipe |-> [p \in Ends |-> [st |-> "none", id |-> Nil]],
              wrong |-> FALSE, orphaned |-> FALSE, ops |-> 0]

-----------------------------------------------------------------------------
(* What the calls are made of *)

\* A call that fails leaves the socket as it was.
Begins == st.ops < MaxOps
Counted(s) == [s EXCEPT !.ops = @ + 1]
\* The address of an object that is gone may be that of a new one.
FreeOwned == {o \in Owned : st.own[o].st \in {"none", "gone"}}
FreeEnds == {p \in Ends : st.pipe[p].st \in {"none", "gone"}}

\* The type and the transport must match; UDP binds or connects by type.
check_protocol(u) == Proto[u] = "udp" => st.type \in {"DISH", "RADIO"}

\* attach_pipe for a new pipe that belongs to the endpoint with identifier id.
Piped(s, p, id) == [s EXCEPT !.pipe[p] = [st |-> "open", id |-> id]]
\* add_endpoint: the child is launched, the entry made under its key.
add_endpoint(s, kind, key, o, p) ==
    [(IF p = Nil THEN s ELSE Piped(s, p, key)) EXCEPT
        !.own[o] = [st |-> "live", kind |-> kind, key |-> key, pipe |-> p],
        !.endpoints = @ \cup {[key |-> key, own |-> o, pipe |-> p]}]

-----------------------------------------------------------------------------
(* The calls *)

bind_inproc(u) ==
    /\ Begins /\ Proto[u] = "inproc" /\ u \notin st.taken \cup st.bound
    /\ st' = Counted([st EXCEPT !.bound = @ \cup {u}])
\* A listener; its address is resolved, except that TIPC keeps the given one.
bind_listener(u, o) ==
    /\ Begins /\ Proto[u] \in {"tcp", "tipc"} /\ o \in FreeOwned
    /\ st' = Counted(add_endpoint(st, "listener", IF Proto[u] = "tcp" THEN Canon[u] ELSE u, o, Nil))
\* A session with a pipe; a connectionless pair of endpoints has an empty
\* identifier, so this entry has the key "".
bind_udp(u, o, p) ==
    /\ Begins /\ Proto[u] = "udp" /\ st.type = "DISH" /\ o \in FreeOwned /\ p \in FreeEnds
    /\ st' = Counted(add_endpoint(st, "session", "", o, p))

\* The peer's end goes to the registered socket, or waits for one.
connect_inproc(u, p) ==
    /\ Begins /\ Proto[u] = "inproc" /\ p \in FreeEnds
    /\ st' = Counted([Piped(st, p, "") EXCEPT !.inprocs = @ \cup {[uri |-> u, pipe |-> p]}])
\* A session, with a pipe unless that waits for the connection
\* (ZMQ_IMMEDIATE).  Some types return at once if there is an entry.
SubscribesToAll(u) == Proto[u] = "udp"
connect(u, o, p) ==
    /\ Begins /\ Proto[u] # "inproc" /\ o \in FreeOwned /\ p \in FreeEnds
    /\ check_protocol(u) /\ (Proto[u] = "udp" => st.type = "RADIO")
    /\ ~(Single(st.type) /\ \E e \in st.endpoints : e.key = u)
    /\ LET q == IF st.immediate /\ ~SubscribesToAll(u) THEN Nil ELSE p IN
       st' = Counted(add_endpoint(st, "session", u, o, q))

\* pipe_t::terminate; own_t::term_child, for a pointer that is no child nothing.
TerminatePipe(s, p) ==
    IF p # Nil /\ s.pipe[p].st = "open" THEN [s EXCEPT !.pipe[p].st = "ending"] ELSE s
TermChild(s, o, key) ==
    IF s.own[o].st # "live" THEN s
    ELSE [s EXCEPT !.own[o].st = "asked", !.wrong = @ \/ s.own[o].key # key]
\* The key looked for: as given or, if there is none, resolved.
resolve_tcp_addr(s, u) ==
    IF Proto[u] # "tcp" \/ \E e \in s.endpoints : e.key = u THEN u ELSE Canon[u]
term_inproc(u) ==
    /\ Begins /\ Proto[u] = "inproc"
    /\ LET ended == {e.pipe : e \in {x \in st.inprocs : x.uri = u}} IN
       /\ u \in st.bound \/ ended # {}
       /\ st' = IF u \in st.bound THEN Counted([st EXCEPT !.bound = @ \ {u}])
                ELSE Counted([st EXCEPT !.inprocs = {e \in @ : e.uri # u},
                                        !.pipe = [p \in Ends |->
                                            IF p \in ended THEN TerminatePipe(st, p).pipe[p] ELSE @[p]]])
term_endpoint(u) ==
    /\ Begins /\ Proto[u] # "inproc" /\ check_protocol(u)
    /\ LET range == {e \in st.endpoints : e.key = resolve_tcp_addr(st, u)}
           End(e, s) == TermChild(TerminatePipe(s, e.pipe), e.own, e.key)
       IN  /\ range # {}
           /\ st' = Counted([FoldSet(End, st, range) EXCEPT !.endpoints = @ \ range])

-----------------------------------------------------------------------------
(* What happens meanwhile *)

\* The other side ends a pipe: a session that gives up, or an inproc peer.
PeerEndsPipe(p) == st.pipe[p].st = "open" /\ st' = TerminatePipe(st, p)
\* A session ends because the peer broke the protocol, with its pipe.
SessionEnds(o) ==
    /\ st.own[o].st = "live" /\ st.own[o].kind = "session"
    /\ st' = TerminatePipe([st EXCEPT !.own[o].st = "asked", !.orphaned = TRUE], st.own[o].pipe)
ChildGone(o) ==
    /\ st.own[o].st = "asked"
    /\ st.own[o].pipe # Nil => st.pipe[st.own[o].pipe].st # "open"
    /\ st' = [st EXCEPT !.own[o].st = "gone"]
\* Mutant of pipe_terminated: the endpoint keeps its pointer.
PipeKept(p) ==
    /\ st.pipe[p].st = "ending"
    /\ st' = [st EXCEPT !.pipe[p] = [st |-> "gone", id |-> Nil], !.inprocs = {e \in @ : e.pipe # p}]
pipe_terminated(p) ==
    /\ st.pipe[p].st = "ending"
    /\ LET id == st.pipe[p].id
           Cleared(e) == IF e.pipe = p /\ e.key = id /\ id # "" THEN [e EXCEPT !.pipe = Nil] ELSE e
       IN  st' = [st EXCEPT !.pipe[p] = [st |-> "gone", id |-> Nil],
                            !.inprocs = {e \in @ : e.pipe # p},
                            !.endpoints = {Cleared(e) : e \in @}]

Next ==
    \/ \E u \in Uri :
           \/ bind_inproc(u) \/ term_inproc(u) \/ term_endpoint(u)
           \/ \E p \in Ends : connect_inproc(u, p)
           \/ \E o \in Owned : \/ bind_listener(u, o)
                               \/ \E p \in Ends : bind_udp(u, o, p) \/ connect(u, o, p)
    \/ \E p \in Ends : PeerEndsPipe(p) \/ pipe_terminated(p)
    \/ \E o \in Owned : SessionEnds(o) \/ ChildGone(o)

Spec == Init /\ [][Next]_st

-----------------------------------------------------------------------------
\* term_endpoint can only reach pipes that exist: an entry loses its pipe when
\* that has ended (pipe_terminated), except the one of a bound UDP socket,
\* which no call finds.
ReachablePipesExist ==
    /\ \A e \in st.endpoints : e.key # "" /\ e.pipe # Nil => st.pipe[e.pipe].st \in {"open", "ending"}
    /\ \A e \in st.inprocs : st.pipe[e.pipe].st \in {"open", "ending"}

\* term_endpoint ends nothing of another endpoint, unless a session has ended
\* by itself: its entry keeps a pointer that may become that of a new object.
EndsOwnOnly == st.wrong => st.orphaned

\* Every listener and session that lives can be ended: there is an entry for
\* it under its key.  A socket type that connects once has one session for an
\* endpoint.
LiveReachable ==
    /\ \A o \in Owned : st.own[o].st = "live" =>
           \E e \in st.endpoints : e.own = o /\ e.key = st.own[o].key
    /\ Single(st.type) =>
           \A a, b \in {o \in Owned : st.own[o].st = "live" /\ st.own[o].kind = "session"} :
               st.own[a].key = st.own[b].key => a = b

-----------------------------------------------------------------------------
(***************************************************************************)
(* The monitor of a socket (socket_base.cpp): the thread of the socket     *)
(* starts and stops it, several I/O threads report events, each in a few   *)
(* frames sent through the monitor socket under the lock _monitor_sync.    *)
(* The observer may read slowly; a send waits for it.                      *)
(***************************************************************************)

CONSTANTS
    IoThread,
    Frames,       \* [version -> frames of an event]
    Hwm,          \* events that wait unread before a send has to wait
    MaxEvents,    \* bound: events of the I/O threads
    MaxMonitors   \* bound: monitors started


App == "app"
Kind == {"connected", "closed"}
Stopped == "stopped"

\* lock: its holder; on: _monitor_socket is not NULL, with events and version,
\* _monitor_events and options.monitor_event_version; id: monitors started so
\* far.  What a thread is sending: the event, the frames sent of it and, for
\* the thread that stops the monitor, what follows.  got: the frames that went
\* to the current observer; closed, told: its monitor has
\* stopped, and was to say so; unread: whole events it has not read; term: the
\* context has ended, so that sends fail.
MonitorInit ==
    st = [lock |-> "free", on |-> FALSE, events |-> {}, version |-> "v1", id |-> 0,
          what |-> [t \in IoThread \cup {App} |-> <<>>], sent |-> 0, next |-> "none",
          got |-> <<>>, closed |-> FALSE, told |-> FALSE, unread |-> 0, n |-> 0, term |-> FALSE]

Sending(t) == st.what[t] # <<>>

\* event: the calls event_connected to event_handshake_succeeded.
Happens(t, k) ==
    /\ st.n < MaxEvents /\ ~Sending(t)
    /\ st' = [st EXCEPT !.n = @ + 1, !.what[t] = <<k>>]
\* Under the lock: unwanted events are dropped.
Locks(t) ==
    /\ Sending(t) /\ st.lock = "free"
    /\ st' = IF st.on /\ st.what[t][1] \in st.events
             THEN [st EXCEPT !.lock = t, !.sent = 0] ELSE [st EXCEPT !.what[t] = <<>>]
\* monitor_event: the next frame.  The first one waits for room, and is lost
\* when the context has ended, as are the others.
Frame(t) ==
    /\ Sending(t) /\ st.lock = t /\ st.sent < Frames[st.version]
    /\ st.sent = 0 => st.unread < Hwm \/ st.term
    /\ st' = [st EXCEPT !.sent = @ + 1,
                        !.got = IF st.term THEN @ ELSE Append(@, <<st.what[t][1], st.sent + 1>>),
                        !.unread = IF st.sent + 1 = Frames[st.version] /\ ~st.term THEN @ + 1 ELSE @]
Off(s) == [s EXCEPT !.on = FALSE, !.events = {}, !.closed = TRUE, !.told = Stopped \in s.events]
Started(s, ev, v) ==
    [s EXCEPT !.on = TRUE, !.events = ev, !.version = v, !.id = @ + 1,
              !.got = <<>>, !.unread = 0, !.closed = FALSE, !.told = FALSE]
\* The new monitor socket cannot be created or bound.
NotStarted(s) == [s EXCEPT !.id = @ + 1]
After(s, ev, v) == IF v = "stop" THEN {s} ELSE {Started(s, ev, v), NotStarted(s)}
\* The event is complete.  In stop_monitor the monitor socket is then closed,
\* and monitor goes on to start the next one.
Complete(t) ==
    /\ Sending(t) /\ st.lock = t /\ st.sent = Frames[st.version]
    /\ LET s == [st EXCEPT !.what[t] = <<>>, !.sent = 0, !.lock = "free"] IN
       st' \in IF t # App THEN {s}
               ELSE LET o == [Off(s) EXCEPT !.next = "none"] IN
                    IF st.term THEN {o} ELSE After(o, Kind \cup {Stopped}, st.next)

\* monitor, in the thread of the socket: a running monitor is stopped, and told
\* so if it wants to know; then another is started, or none.
monitor(v) ==
    /\ st.lock = "free" /\ ~Sending(App) /\ ~st.term
    /\ v # "stop" => st.id < MaxMonitors
    /\ \E ev \in {Kind, Kind \cup {Stopped}} :
       st' \in IF st.on /\ Stopped \in st.events
               THEN {[st EXCEPT !.lock = App, !.what[App] = <<Stopped>>, !.sent = 0, !.next = v]}
               ELSE After(IF st.on THEN Off(st) ELSE st, ev, v)

ObserverReads == st.unread > 0 /\ st' = [st EXCEPT !.unread = @ - 1]
Term == ~st.term /\ st' = [st EXCEPT !.term = TRUE]

MonitorNext ==
    \/ \E t \in IoThread, k \in Kind : Happens(t, k)
    \/ \E t \in IoThread : Locks(t)
    \/ \E t \in IoThread \cup {App} : Frame(t) \/ Complete(t)
    \/ \E v \in DOMAIN Frames \cup {"stop"} : monitor(v)
    \/ ObserverReads \/ Term

MonitorSpec == MonitorInit /\ [][MonitorNext]_st
-----------------------------------------------------------------------------
\* The observer gets whole events, one after the other, as long as the context
\* lives, and after the event that its monitor has stopped nothing: frames of
\* I/O threads and of the socket's own thread do not mix (_monitor_sync).
EventsWhole ==
    LET last == Frames[st.version] IN
    \A i \in DOMAIN st.got :
        /\ IF st.got[i][2] = 1 THEN i > 1 => st.got[i - 1][2] = last
           ELSE i > 1 /\ st.got[i - 1] = <<st.got[i][1], st.got[i][2] - 1>>
        /\ i < Len(st.got) /\ st.got[i] = <<Stopped, last>> => FALSE

\* A monitor that was asked to tell when it stops has done so before its
\* socket is closed, unless the context ends.
StopIsTold ==
    st.closed /\ st.told /\ ~st.term => st.got # <<>> /\ st.got[Len(st.got)] = <<Stopped, Frames[st.version]>>
=============================================================================
