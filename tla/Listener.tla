------------------------------ MODULE Listener ------------------------------
(* stream_listener_base_t with its tcp, ipc, tipc and ws children, and         *)
(* vmci_listener_t.  The application thread creates the socket in              *)
(* set_local_address (zmq_bind) and deletes the listener if that fails; the    *)
(* I/O thread then polls it, accepts, and gives each connection to an engine   *)
(* and a session that is the listener's child.  Calls that the system may      *)
(* refuse are chosen with \E, and descriptors are numbered lowest first.       *)
EXTENDS Integers, FiniteSets

CONSTANTS
    Kinds,      \* the listeners explored: "tcp", "ipc", "tipc", "ws", "vmci"
    MaxAccepts  \* bound on the connections taken

VARIABLE st

retired_fd == 0
(* An assertion that does not hold ends the process.                           *)
Failing(s, what, p) == IF p THEN s ELSE [s EXCEPT !.failed = @ \cup {what}]
Asserting(s, p) == Failing(s, "other", p)
FreeFd(s) == CHOOSE f \in 1 .. 9 : f \notin s.open /\ \A g \in 1 .. (f - 1) : g \in s.open

(* use_fd: the application gives the listening socket (tcp, ipc and ws read    *)
(* the option), open before the listener exists.  wild: an ipc address "*",    *)
(* for which a directory is made.  filters: some peers are to be refused.      *)
Init == \E kind \in Kinds, use_fd, wild, filters \in BOOLEAN :
    /\ use_fd => kind \in {"tcp", "ipc", "ws"}
    /\ wild => kind = "ipc" /\ ~ use_fd
    /\ filters => kind \in {"tcp", "ipc"}
    /\ st = [kind |-> kind, use_fd |-> use_fd, wild |-> wild, filters |-> filters,
             s |-> retired_fd, handle |-> 0, polled |-> {},
             open |-> IF use_fd THEN {1} ELSE {}, engines |-> {}, leaked |-> {}, unbound |-> FALSE,
             file |-> FALSE, dir |-> FALSE, tmp |-> FALSE, has_file |-> FALSE,
             life |-> "new", accepts |-> 0, failed |-> {}]

-----------------------------------------------------------------------------
Fail(s) == [Asserting(s, s.s = retired_fd /\ (s.kind # "vmci" => s.handle = 0)) EXCEPT !.life = "deleted"]

(* ipc_listener_t::close removes the file and the directory of a wildcard      *)
(* address; a path that the application chose stays.  unlink may fail, when    *)
(* somebody else removed the file.                                             *)
ipc_close(s) ==
    LET t == [Asserting(s, s.s # retired_fd) EXCEPT !.open = @ \ {s.s}, !.s = retired_fd]
    IN  IF t.has_file /\ ~ t.use_fd /\ t.tmp
          THEN [t EXCEPT !.file = FALSE, !.dir = FALSE, !.tmp = FALSE] ELSE t

close(s) ==
    IF s.kind = "ipc" THEN ipc_close(s)
    ELSE [Asserting(s, s.s # retired_fd) EXCEPT !.open = @ \ {s.s}, !.s = retired_fd]

rmdir(s) == [s EXCEPT !.dir = FALSE, !.tmp = FALSE]

Opened(s) == LET fd == FreeFd(s) IN [s EXCEPT !.s = fd, !.open = @ \cup {fd}]
Bound(s) == [s EXCEPT !.life = "bound"]

(* tcp and ws: resolving or opening the socket fails with nothing done, and    *)
(* binding or listening fails after it is open.                                *)
create_socket(s) == {Fail(s), Fail(close(Opened(s))), Bound(Opened(s))}
ws_create_socket(s) == {Fail(s), Fail(close(Opened(s))), Bound(Opened(s))}

tcp_set_local_address(s) ==
    IF s.use_fd THEN {Bound([s EXCEPT !.s = 1])} ELSE create_socket(s)

ws_set_local_address(s) ==
    IF s.use_fd THEN {Bound([s EXCEPT !.s = 1])} ELSE {Fail(s)} \cup ws_create_socket(s)

tipc_set_local_address(s) == {Fail(s), Fail(close(Opened(s))), Bound(Opened(s))}

vmci_set_local_address(s) == {Fail(s), Fail(close(Opened(s))), Bound(Opened(s))}

(* ipc: the directory of a wildcard address is made first and removed when the *)
(* address does not resolve or no socket can be had; a failed bind, or a       *)
(* failed listen, when the file is there, calls close () before _has_file is   *)
(* set.                                                                        *)
ipc_set_local_address(s) ==
    LET made == IF s.wild THEN [s EXCEPT !.dir = TRUE, !.tmp = TRUE] ELSE s
        Named(t) == [t EXCEPT !.has_file = TRUE, !.file = ~ s.use_fd]
    IN  (IF s.wild THEN {Fail(s)} ELSE {})
        \cup {Fail(IF made.tmp THEN rmdir(made) ELSE made)}
        \cup (IF s.use_fd THEN {Bound(Named([made EXCEPT !.s = 1]))}
              ELSE {Bound(Named(Opened(made)))})
        \cup (IF s.use_fd THEN {}
              ELSE {Fail(close([Opened(made) EXCEPT !.file = bound, !.unbound = TRUE])) :
                       bound \in BOOLEAN})

set_local_address ==
    /\ st.life = "new"
    /\ st' \in CASE st.kind = "tcp" -> tcp_set_local_address(st)
                 [] st.kind = "ws" -> ws_set_local_address(st)
                 [] st.kind = "ipc" -> ipc_set_local_address(st)
                 [] st.kind = "tipc" -> tipc_set_local_address(st)
                 [] st.kind = "vmci" -> vmci_set_local_address(st)

process_plug ==
    /\ st.life = "bound"
    /\ st' = [st EXCEPT !.life = "plugged", !.handle = st.s, !.polled = {st.s}]

-----------------------------------------------------------------------------
(* accept: the system may refuse, and errors on the list of the assertion are  *)
(* ignored; a peer that the address or credential filters refuse, or whose     *)
(* socket has lost its connection (set_nosigpipe), is closed at once.          *)
Errors == {"EAGAIN", "ECONNABORTED", "ENFILE", "EMFILE", "ENOMEM"}

Refused(s, tolerated) ==
    {[fd |-> retired_fd, s |-> Failing(Asserting(s, s.s # retired_fd), err, err \in tolerated)] :
        err \in Errors}

Taken(s) == LET fd == FreeFd(s)
            IN  [fd |-> fd, s |-> [Asserting(s, s.s # retired_fd)
                                      EXCEPT !.open = @ \cup {fd}, !.accepts = @ + 1]]
Dropped(taken) == [fd |-> retired_fd, s |-> [taken.s EXCEPT !.open = @ \ {taken.fd}]]

filter(s) == IF s.filters THEN BOOLEAN ELSE {TRUE}

tcp_accept(s) ==
    Refused(s, {"EAGAIN", "EINTR", "ECONNABORTED", "EPROTO", "ENOBUFS", "ENOMEM", "EMFILE", "ENFILE"})
    \cup {IF matched /\ ~ reset THEN Taken(s) ELSE Dropped(Taken(s)) :
             matched \in filter(s), reset \in BOOLEAN}

ws_accept(s) ==
    Refused(s, {"EAGAIN", "EINTR", "ECONNABORTED", "EPROTO", "ENOBUFS", "ENOMEM", "EMFILE", "ENFILE"})
    \cup {Taken(s), Dropped(Taken(s))}

ipc_accept(s) ==
    Refused(s, {"EAGAIN", "EINTR", "ECONNABORTED", "EPROTO", "ENFILE"})
    \cup {IF allowed /\ ~ reset THEN Taken(s) ELSE Dropped(Taken(s)) :
             allowed \in filter(s), reset \in BOOLEAN}

tipc_accept(s) ==
    Refused(s, {"EAGAIN", "ENOBUFS", "EINTR", "ECONNABORTED", "EPROTO", "EMFILE", "ENFILE"})
    \cup {Taken(s)}

vmci_accept(s) ==
    Refused(s, {"EAGAIN", "EINTR", "ECONNABORTED", "EPROTO", "ENOBUFS", "ENOMEM", "EMFILE", "ENFILE"})
    \cup {Taken(s)}

(* The session owns the engine and is a child of the listener.                 *)
create_engine(s, fd) == [s EXCEPT !.engines = @ \cup {fd}]
ws_create_engine(s, fd) == [s EXCEPT !.engines = @ \cup {fd}]

(* tcp and ws set options of the new socket, which may fail when the peer has  *)
(* gone: the connection is reported as failed, and its descriptor left open.   *)
Untuned(outcomes) ==
    {[o.s EXCEPT !.leaked = @ \cup {o.fd}] : o \in {o \in outcomes : o.fd # retired_fd}}

tcp_in_event(s) ==
    {IF o.fd = retired_fd THEN o.s ELSE create_engine(o.s, o.fd) : o \in tcp_accept(s)}
    \cup Untuned(tcp_accept(s))

ws_in_event(s) ==
    {IF o.fd = retired_fd THEN o.s ELSE ws_create_engine(o.s, o.fd) : o \in ws_accept(s)}
    \cup Untuned(ws_accept(s))

ipc_in_event(s) ==
    {IF o.fd = retired_fd THEN o.s ELSE create_engine(o.s, o.fd) : o \in ipc_accept(s)}

tipc_in_event(s) ==
    {IF o.fd = retired_fd THEN o.s ELSE create_engine(o.s, o.fd) : o \in tipc_accept(s)}

vmci_in_event(s) ==
    {IF o.fd = retired_fd THEN o.s ELSE [o.s EXCEPT !.engines = @ \cup {o.fd}] : o \in vmci_accept(s)}

in_event ==
    /\ st.polled # {} /\ st.accepts < MaxAccepts
    /\ st' \in CASE st.kind = "tcp" -> tcp_in_event(st)
                 [] st.kind = "ws" -> ws_in_event(st)
                 [] st.kind = "ipc" -> ipc_in_event(st)
                 [] st.kind = "tipc" -> tipc_in_event(st)
                 [] st.kind = "vmci" -> vmci_in_event(st)

(* rm_fd, close, then own_t ends the children and deletes the listener.        *)
process_term ==
    /\ st.life = "plugged"
    /\ LET s == [Asserting(st, st.handle \in st.polled) EXCEPT !.polled = {},
                                       !.handle = IF st.kind = "vmci" THEN @ ELSE 0]
       IN  st' = [close(s) EXCEPT !.life = "ending"]

(* Each session ends with its engine, which closes the descriptor.             *)
engine_ends(fd) ==
    /\ fd \in st.engines
    /\ st' = [st EXCEPT !.engines = @ \ {fd}, !.open = @ \ {fd}]

deleted ==
    /\ st.life = "ending" /\ st.engines = {}
    /\ st' = Fail(st)

Gone == st.life = "deleted" /\ UNCHANGED st

Next ==
    /\ st.failed = {}
    /\ \/ set_local_address \/ process_plug \/ in_event
       \/ process_term \/ (\E fd \in st.engines : engine_ends(fd)) \/ deleted \/ Gone

Spec == Init /\ [][Next]_st

-----------------------------------------------------------------------------
TypeOK ==
    /\ st.kind \in Kinds /\ st.life \in {"new", "bound", "plugged", "ending", "deleted"}
    /\ st.s \in 0 .. 9 /\ st.handle \in 0 .. 9 /\ st.engines \subseteq st.open
    /\ st.accepts \in 0 .. MaxAccepts

(* The listeners' own assertions: the socket is open when it is accepted from  *)
(* and closed, closed and out of the poller when the destructor runs, and      *)
(* accept () fails with an error on the tolerated list.  The exceptions are a  *)
(* process without descriptors, which ipc_listener_t::accept does not expect,  *)
(* and a system without memory, which that and tipc_listener_t's do not.       *)
AssertionsHold ==
    /\ st.failed \subseteq {"EMFILE", "ENOMEM"}
    /\ "EMFILE" \in st.failed => st.kind = "ipc"
    /\ "ENOMEM" \in st.failed => st.kind \in {"ipc", "tipc"}

(* Nothing outlives its use: each open descriptor is the listening socket or   *)
(* an engine's, the listening socket is polled exactly between plug and term,  *)
(* and a deleted listener leaves neither a descriptor nor the temporary        *)
(* directory of a wildcard address (the application's own descriptor only if   *)
(* it was never used).  The exceptions are a tcp or ws connection that cannot  *)
(* be tuned, which nobody closes, and an ipc address whose bind or listen      *)
(* failed, which leaves what was made for it.                                  *)
NothingForgotten ==
    /\ st.life \in {"bound", "plugged"} => st.s \in st.open \ (st.engines \cup st.leaked)
    /\ st.life \notin {"new", "deleted"} =>
         st.open = st.engines \cup st.leaked \cup ({st.s} \ {retired_fd})
    /\ st.life = "deleted" => st.open \subseteq st.leaked \cup (IF st.use_fd THEN {1} ELSE {})
    /\ st.leaked # {} => st.kind \in {"tcp", "ws"}
    /\ st.life = "plugged" <=> st.polled # {}
    /\ st.polled \subseteq {st.s}
    /\ st.life \in {"ending", "deleted"} /\ ~ st.unbound => ~ st.dir /\ (st.wild => ~ st.file)
    /\ st.unbound => st.life = "deleted" /\ st.kind = "ipc"
    /\ st.file => st.dir = st.wild
=============================================================================
