----------------------------- MODULE Connecter ------------------------------
(***************************************************************************)
(* stream_connecter_base_t with its tcp, ipc, tipc and ws children, and    *)
(* vmci_connecter_t, which repeats the base class.  A connecter lives in   *)
(* an I/O thread: it opens a socket, polls it until the connection is      *)
(* made, gives the descriptor to a new engine and asks to be terminated,   *)
(* or retries after a growing interval.  Every handler is one step; what   *)
(* the operating system answers is chosen with \E.  Descriptors are        *)
(* numbered as the system does, the lowest free number first.  The         *)
(* connecter through a SOCKS proxy is the second part of the module.       *)
(***************************************************************************)
EXTENDS Integers, FiniteSets, TLC

CONSTANTS
    Kinds,      \* the connecters explored, among "tcp", "ipc", "tipc", "ws", "vmci"
    Ivls,       \* values of options.reconnect_ivl (-1: never reconnect)
    IvlMaxes,   \* values of options.reconnect_ivl_max
    MaxInt,     \* std::numeric_limits<int>::max ()
    MaxTries    \* bound on the calls of start_connecting

VARIABLE st

retired_fd == 0
(* An assertion that does not hold ends the process.                           *)
Failing(s, what, p) == IF p THEN s ELSE [s EXCEPT !.failed = @ \cup {what}]
Asserting(s, p) == Failing(s, "other", p)
FreeFd(s) == CHOOSE f \in 1 .. 9 : f \notin s.open /\ \A g \in 1 .. (f - 1) : g \in s.open

State(kind, ivl, max, timeout, delayed) ==
    [kind |-> kind, ivl |-> ivl, max |-> max, timeout |-> timeout,
     delayed |-> delayed, current |-> ivl, s |-> retired_fd, handle |-> 0,
     reconnect |-> FALSE, connect |-> FALSE, timers |-> {}, polled |-> {},
     open |-> {}, engines |-> {}, leaked |-> {}, life |-> "new", interval |-> ivl,
     tries |-> 0, erred |-> FALSE, failed |-> {}]

Init == \E kind \in Kinds, ivl \in Ivls, max \in IvlMaxes, timeout, delayed \in BOOLEAN :
            st = State(kind, ivl, max, timeout, delayed)

-----------------------------------------------------------------------------
(* Timers and the poller: io_object_t forwards to the poller of the thread.    *)
rm_fd(s) == [Failing(s, "handle", s.handle \in s.polled) EXCEPT !.polled = @ \ {s.handle}]
rm_handle(s) == [rm_fd(s) EXCEPT !.handle = 0]
add_fd(s) == [s EXCEPT !.handle = s.s, !.polled = @ \cup {s.s}, !.erred = FALSE]
Cancel(s, id) == [Asserting(s, id \in s.timers) EXCEPT !.timers = @ \ {id}]

close(s) ==
    IF s.kind # "vmci" /\ s.s = retired_fd THEN s
    ELSE [Asserting(s, s.s # retired_fd) EXCEPT !.open = @ \ {s.s}, !.s = retired_fd]

(* The interval used now and the one kept for the next attempt.                *)
Doubled(s) ==
    IF s.max > 0 /\ s.max > s.ivl
      THEN IF s.current < MaxInt \div 2
             THEN IF 2 * s.current < s.max THEN 2 * s.current ELSE s.max
             ELSE s.max
      ELSE s.current

get_new_reconnect_ivl(s, jitter) ==
    [s EXCEPT !.interval = IF s.current < MaxInt - jitter THEN s.current + jitter ELSE MaxInt,
              !.current = Doubled(s)]

vmci_get_new_reconnect_ivl(s, jitter) ==
    LET Wrap(i) == ((i + MaxInt + 1) % (2 * MaxInt + 2)) - MaxInt - 1
        twice == Wrap(2 * s.current)
    IN  [s EXCEPT !.interval = Wrap(s.current + jitter),
                  !.current = IF ~ (s.max > 0 /\ s.max > s.ivl) THEN @
                              ELSE IF twice >= s.max THEN s.max ELSE twice]

(* generate_random () % reconnect_ivl is some number below it.                 *)
add_reconnect_timer(s) ==
    IF s.ivl = -1 THEN {s}
    ELSE {[(IF s.kind = "vmci" THEN vmci_get_new_reconnect_ivl(s, jitter)
                               ELSE get_new_reconnect_ivl(s, jitter))
              EXCEPT !.timers = @ \cup {"reconnect"}, !.reconnect = TRUE] :
            jitter \in 0 .. (s.ivl - 1)}

-----------------------------------------------------------------------------
(* The engine owns the descriptor; the connecter asks its owner to end it.     *)
create_engine(s, fd) == [s EXCEPT !.engines = @ \cup {fd}, !.life = "asked"]

(* connect () asks for SO_ERROR, asserts that it is a problem of the network,  *)
(* and gives up the descriptor when there is none.                             *)
Given(s) == [s EXCEPT !.s = retired_fd]

tcp_connect(s, err) ==
    IF err = "none" THEN Given(s)
    ELSE Asserting(s, err \notin {"EBADF", "ENOPROTOOPT", "ENOTSOCK", "ENOBUFS"})

ws_connect(s, err) == tcp_connect(s, err)

ipc_connect(s, err) ==
    IF err = "none" THEN Given(s)
    ELSE Asserting(s, err \in {"ECONNREFUSED", "ECONNRESET", "ETIMEDOUT", "EHOSTUNREACH",
                               "ENETUNREACH", "ENETDOWN"})

tipc_connect(s, err) == ipc_connect(s, err)

vmci_connect(s, err) ==
    IF err = "none" THEN Given(s)
    ELSE Asserting(s, err \in {"ECONNREFUSED", "ECONNRESET", "ETIMEDOUT", "EHOSTUNREACH",
                               "ENETUNREACH", "ENETDOWN", "EINVAL"})

Failures == {"ECONNREFUSED", "ETIMEDOUT", "EHOSTUNREACH"}
Retry(s) == add_reconnect_timer(close(s))

(* A connection that is made and then cannot be tuned is reported as failed:   *)
(* connect () has given up the descriptor, so that close () does not close it. *)
Untuned(s, fd) == Retry([s EXCEPT !.leaked = @ \cup {fd}])

(* tcp and ws: the connect timer goes first, then the handle, then connect (). *)
(* Mutant of NoConnectTimer: the timer goes on when the connection is made.    *)
KeepsConnectTimer(s) == s
NoConnectTimer(s) == IF s.connect THEN [Cancel(s, "connect") EXCEPT !.connect = FALSE] ELSE s

tcp_out_event(s) ==
    LET idle == rm_handle(NoConnectTimer(s))
    IN  UNION {Retry(tcp_connect(idle, err)) : err \in Failures}
        \cup {create_engine(tcp_connect(idle, "none"), s.s)}
        \cup Untuned(tcp_connect(idle, "none"), s.s)

ws_out_event(s) ==
    LET idle == rm_handle(NoConnectTimer(s))
    IN  UNION {Retry(ws_connect(idle, err)) : err \in Failures}
        \cup {create_engine(ws_connect(idle, "none"), s.s)}
        \cup Untuned(ws_connect(idle, "none"), s.s)

(* ipc, tipc and vmci: connect () first, then the handle.                      *)
ipc_out_event(s) ==
    UNION {Retry(rm_handle(ipc_connect(s, err))) : err \in Failures}
    \cup {create_engine(rm_handle(ipc_connect(s, "none")), s.s)}

tipc_out_event(s) ==
    UNION {Retry(rm_handle(tipc_connect(s, err))) : err \in Failures}
    \cup {create_engine(rm_handle(tipc_connect(s, "none")), s.s)}

vmci_out_event(s) ==
    UNION {Retry(rm_handle(vmci_connect(s, err))) : err \in Failures}
    \cup {create_engine(rm_handle(vmci_connect(s, "none")), s.s)}

Out(s) ==
    CASE s.kind = "tcp" -> tcp_out_event(s)
      [] s.kind = "ws" -> ws_out_event(s)
      [] s.kind = "ipc" -> ipc_out_event(s)
      [] s.kind = "tipc" -> tipc_out_event(s)
      [] s.kind = "vmci" -> vmci_out_event(s)

(* open () yields a result (0, EINPROGRESS or another error) and the connecter *)
(* with or without a socket.  tcp may also fail to bind its source address,    *)
(* tipc refuses random addresses, vmci's connect () blocks.                    *)
Made(s) == LET fd == FreeFd(s)
           IN  [Asserting(s, s.s = retired_fd) EXCEPT !.s = fd, !.open = @ \cup {fd}]
NoSocket(s) == [rc |-> "error", s |-> Asserting(s, s.s = retired_fd)]

tcp_open(s) == {NoSocket(s)} \cup [rc : {"error", "EINPROGRESS", "0"}, s : {Made(s)}]
ws_open(s) == {NoSocket(s)} \cup [rc : {"error", "EINPROGRESS", "0"}, s : {Made(s)}]
ipc_open(s) == {NoSocket(s)} \cup [rc : {"error", "EINPROGRESS", "0"}, s : {Made(s)}]
tipc_open(s) == {NoSocket(s)} \cup [rc : {"error", "EINPROGRESS", "0"}, s : {Made(s)}]
vmci_open(s) == {NoSocket(s)} \cup [rc : {"error", "0"}, s : {Made(s)}]

add_connect_timer(s) ==
    IF s.timeout THEN [s EXCEPT !.timers = @ \cup {"connect"}, !.connect = TRUE] ELSE s

Failed(s) == IF s.s # retired_fd THEN Retry(s) ELSE add_reconnect_timer(s)

tcp_start_connecting(s) ==
    UNION {CASE o.rc = "0" -> tcp_out_event(add_fd(o.s))
             [] o.rc = "EINPROGRESS" -> {add_connect_timer(add_fd(o.s))}
             [] OTHER -> Failed(o.s) : o \in tcp_open(s)}

ws_start_connecting(s) ==
    UNION {CASE o.rc = "0" -> ws_out_event(add_fd(o.s))
             [] o.rc = "EINPROGRESS" -> {add_connect_timer(add_fd(o.s))}
             [] OTHER -> Failed(o.s) : o \in ws_open(s)}

ipc_start_connecting(s) ==
    UNION {CASE o.rc = "0" -> ipc_out_event(add_fd(o.s))
             [] o.rc = "EINPROGRESS" -> {add_fd(o.s)}
             [] OTHER -> Failed(o.s) : o \in ipc_open(s)}

tipc_start_connecting(s) ==
    UNION {CASE o.rc = "0" -> tipc_out_event(add_fd(o.s))
             [] o.rc = "EINPROGRESS" -> {add_fd(o.s)}
             [] OTHER -> Failed(o.s) : o \in tipc_open(s)}

vmci_start_connecting(s) ==
    UNION {IF o.rc = "0" THEN vmci_out_event(add_fd(o.s)) ELSE Failed(o.s) : o \in vmci_open(s)}

start_connecting(s) ==
    LET t == [s EXCEPT !.tries = @ + 1]
    IN  CASE s.kind = "tcp" -> tcp_start_connecting(t)
          [] s.kind = "ws" -> ws_start_connecting(t)
          [] s.kind = "ipc" -> ipc_start_connecting(t)
          [] s.kind = "tipc" -> tipc_start_connecting(t)
          [] s.kind = "vmci" -> vmci_start_connecting(t)

-----------------------------------------------------------------------------
(* The handlers: commands from the session, descriptors and timers.            *)
process_plug ==
    /\ st.life = "new"
    /\ LET s == [st EXCEPT !.life = "running"]
       IN  st' \in (IF st.delayed THEN add_reconnect_timer(s) ELSE start_connecting(s))

out_event ==
    /\ st.polled # {}
    /\ st' \in Out(Asserting(st, st.polled = {st.handle}))

timer_event(id) ==
    /\ id \in st.timers
    /\ LET s == [st EXCEPT !.timers = @ \ {id}]
       IN  \/ /\ id = "reconnect"
              /\ st.tries < MaxTries
              /\ st' \in start_connecting([s EXCEPT !.reconnect = FALSE])
           \/ /\ id = "connect"
              /\ st' \in Retry(rm_handle([s EXCEPT !.connect = FALSE]))

Quiet(s) ==
    LET t == NoConnectTimer(s)
    IN  IF t.reconnect THEN [Cancel(t, "reconnect") EXCEPT !.reconnect = FALSE] ELSE t

(* The command term, from the session or after create_engine; own_t deletes    *)
(* the connecter, which has no children, and the destructors assert.           *)
Terminated(s) ==
    LET u == IF s.handle # 0 THEN rm_handle(s) ELSE s
        v == IF u.s # retired_fd THEN close(u) ELSE u
    IN  [Asserting(v, v.handle = 0 /\ v.s = retired_fd /\ ~ v.reconnect /\ ~ v.connect)
            EXCEPT !.life = "deleted"]

process_term ==
    /\ st.life \in {"running", "asked"}
    /\ st' = Terminated(Quiet(st))

Gone == st.life = "deleted" /\ UNCHANGED st

Next ==
    /\ st.failed = {}
    /\ \/ process_plug
       \/ out_event
       \/ \E id \in {"reconnect", "connect"} : timer_event(id)
       \/ process_term
       \/ Gone

Spec == Init /\ [][Next]_st

-----------------------------------------------------------------------------
TypeOK ==
    /\ st.kind \in Kinds /\ st.life \in {"new", "running", "asked", "deleted"}
    /\ st.s \in 0 .. 9 /\ st.handle \in 0 .. 9 /\ st.open \subseteq 1 .. 9
    /\ st.engines \subseteq 1 .. 9 /\ st.tries \in 0 .. MaxTries

(* The connecters' own assertions, those of their destructors among them, and  *)
(* the pollers': rm_fd and cancel_timer are asked for what is registered.      *)
AssertionsHold == st.failed = {}

(* No descriptor is forgotten: each one open is the socket being connected or  *)
(* belongs to an engine, never to both, and a deleted connecter leaves neither *)
(* a timer nor a polled descriptor behind.  The exception is a tcp or ws       *)
(* connection that is made and cannot be tuned: nobody closes it.              *)
NothingForgotten ==
    /\ st.open = st.engines \cup st.leaked \cup ({st.s} \ {retired_fd})
    /\ st.engines \cap st.leaked = {} /\ st.s \notin st.engines \cup st.leaked
    /\ st.leaked # {} => st.kind \in {"tcp", "ws"}
    /\ st.polled \subseteq {st.s}
    /\ st.failed = {} /\ st.life = "deleted" => st.timers = {} /\ st.polled = {} /\ st.s = retired_fd

(* A running connecter that may reconnect always has something to wait for: a  *)
(* polled descriptor or its reconnect timer, never both, and a connect timer   *)
(* only while a descriptor is polled.                                          *)
NeverIdle ==
    st.life = "running" =>
        /\ st.ivl # -1 => (st.polled # {}) # ("reconnect" \in st.timers)
        /\ "connect" \in st.timers => st.polled # {}

(* Waiting times: never below the configured interval, never wrapped past the  *)
(* largest int; the base backs off without passing reconnect_ivl_max, unless   *)
(* that is not above reconnect_ivl (vmci_connecter_t computes without guards). *)
BacksOff ==
    st.kind # "vmci" =>
        /\ st.interval \in st.ivl .. MaxInt
        /\ st.current \in st.ivl .. (IF st.max > st.ivl THEN st.max ELSE st.ivl)

-----------------------------------------------------------------------------
(* socks_connecter_t: a connecter that first talks SOCKS5 to a proxy (socks.cpp *)
(* holds the encoders and decoders).  It keeps the base class's socket, handle  *)
(* and reconnect timer, and steps through a status; each message is a number of *)
(* bytes still to write, or read so far, because a socket may take or give any  *)
(* part of it.  Behind the proxy's reply come the first bytes of the peer.      *)

CONSTANTS
    User, Password,  \* bytes of the credentials
    Hosts,           \* how the target is written, and how the proxy's reply writes
                     \* an address: "ipv4", "ipv6", or a name
    NameSize,        \* bytes of a name
    ExtraSize        \* bytes the peer may have sent behind the reply

Sending == {"sending_greeting", "sending_basic_auth_request", "sending_request"}
Waiting == {"waiting_for_choice", "waiting_for_auth_response", "waiting_for_response"}

(* left and got belong to the encoder and the decoder of the current status;    *)
(* host is how the target is written, atyp the kind of address in the reply.    *)
SocksInit ==
    \E ivl \in Ivls, delayed, valid \in BOOLEAN, host \in Hosts :
        st = State("socks", ivl, 0, FALSE, delayed) @@
             [status |-> "unplugged", valid |-> valid, host |-> host, atyp |-> host,
              left |-> 0, got |-> 0, pollin |-> FALSE, pollout |-> FALSE,
              atOnce |-> FALSE, split |-> FALSE]

(* error () leaves _handle as it is, unlike rm_handle ().                       *)
error(s) ==
    add_reconnect_timer([close(rm_fd(s)) EXCEPT !.left = 0, !.got = 0, !.erred = TRUE,
                            !.split = FALSE, !.atOnce = FALSE,
                            !.status = "unplugged", !.pollin = FALSE, !.pollout = FALSE])

(* The bytes of the three messages: one method; the credentials; the target.     *)
greeting_encode == 2 + 1
auth_request_encode == 2 + User + 1 + Password
request_encode(s) ==
    4 + (CASE s.host = "ipv4" -> 4 [] s.host = "ipv6" -> 16 [] OTHER -> 1 + NameSize) + 2
encode(s, status) ==
    [s EXCEPT !.status = status, !.pollin = FALSE, !.pollout = TRUE, !.left =
        CASE status = "sending_greeting" -> greeting_encode
          [] status = "sending_basic_auth_request" -> auth_request_encode
          [] status = "sending_request" -> request_encode(s)]

(* connect_to_proxy: no socket or refused, under way, or connected at once,     *)
(* when no greeting is encoded.                                                 *)
connect_to_proxy(s) ==
    LET t == [Asserting(s, s.status = "unplugged") EXCEPT !.tries = @ + 1]
        Polled(status) == [add_fd(Made(t)) EXCEPT !.pollout = TRUE, !.pollin = FALSE, !.status = status]
    IN  add_reconnect_timer(t)
        \cup Retry(Made(t))
        \cup {Polled("waiting_for_proxy_connection")}
        \cup {[Polled("sending_greeting") EXCEPT !.atOnce = TRUE]}

check_proxy_connection(s) == error(s) \cup {encode(s, "sending_greeting")}

Reply(status) == CASE status = "sending_greeting" -> "waiting_for_choice"
                   [] status = "sending_basic_auth_request" -> "waiting_for_auth_response"
                   [] status = "sending_request" -> "waiting_for_response"

(* output: an error, or some of the bytes; after the last one the reply is      *)
(* polled for.                                                                  *)
output(s) ==
    LET t == Failing(s, "greeting", s.left > 0)
        Wrote(n, atyp) == IF n < t.left THEN [t EXCEPT !.left = @ - n]
                          ELSE [t EXCEPT !.left = 0, !.got = 0, !.pollout = FALSE, !.pollin = TRUE,
                                         !.status = Reply(s.status), !.atyp = atyp]
    IN  IF s.left = 0 THEN {t}
        ELSE error(t) \cup {Wrote(n, atyp) : n \in 1 .. t.left, atyp \in Hosts}

(* What input () asks the socket for, and what a complete message measures.     *)
(* Once 5 bytes of a reply are there its rest is asked for, however much of     *)
(* that has come already.                                                       *)
choice_input(s) == 2 - s.got
auth_response_input(s) == 2 - s.got
response_input(s) ==
    IF s.got < 5 THEN 5 - s.got
    ELSE CASE s.atyp = "ipv4" -> 3 + 2 [] s.atyp = "ipv6" -> 15 + 2 [] OTHER -> NameSize + 2
response_size(s) ==
    CASE s.atyp = "ipv4" -> 10 [] s.atyp = "ipv6" -> 22 [] OTHER -> 4 + 1 + NameSize + 2
Wanted(s) ==
    CASE s.status = "waiting_for_choice" -> choice_input(s)
      [] s.status = "waiting_for_auth_response" -> auth_response_input(s)
      [] s.status = "waiting_for_response" -> response_input(s)
Whole(s) == IF s.status = "waiting_for_response" THEN response_size(s) ELSE 2

Arrived(s) ==
    LET there == Whole(s) + (IF s.status = "waiting_for_response" THEN ExtraSize ELSE 0) - s.got
        most == IF there < Wanted(s) THEN there ELSE Wanted(s)
    IN  1 .. most

(* A complete answer: refused, or on to the next status; the proxy may ask for  *)
(* basic authentication whatever was offered.                                   *)
process_server_response(s) ==
    LET Request == IF s.valid THEN {encode(s, "sending_request")} ELSE error(s)
    IN  error(s) \cup
        CASE s.status = "waiting_for_choice" ->
                Request \cup {encode(s, "sending_basic_auth_request")}
          [] s.status = "waiting_for_auth_response" -> Request
          [] s.status = "waiting_for_response" ->
                {[create_engine(rm_handle(s), s.s) EXCEPT !.s = retired_fd, !.status = "unplugged",
                                                          !.pollin = FALSE, !.got = 0,
                                                          !.split = FALSE]}

input(s) ==
    error(s) \cup
    UNION {LET t == [s EXCEPT !.got = @ + n,
                               !.split = s.status = "waiting_for_response" /\ s.got >= 5]
           IN  IF t.got = Whole(t) THEN process_server_response(t) ELSE {t} : n \in Arrived(s)}

-----------------------------------------------------------------------------
SocksPlug ==
    /\ st.life = "new"
    /\ LET s == [st EXCEPT !.life = "running"]
       IN  st' \in (IF st.delayed THEN add_reconnect_timer(s) ELSE connect_to_proxy(s))

SocksTimer ==
    /\ "reconnect" \in st.timers
    /\ st.tries < MaxTries
    /\ st' \in connect_to_proxy([st EXCEPT !.timers = {}, !.reconnect = FALSE])

(* in_event is called for bytes while they are polled for, else for an error.   *)
in_event ==
    /\ st.polled # {}
    /\ LET s == Asserting(st, st.status # "unplugged")
       IN  st' \in (IF s.status \in Waiting THEN input(s) ELSE error(s))

socks_out_event ==
    /\ st.polled # {} /\ st.pollout
    /\ LET s == Asserting(st, st.status \in Sending \cup {"waiting_for_proxy_connection"})
       IN  st' \in (IF s.status \in Sending THEN output(s) ELSE check_proxy_connection(s))

SocksTerm ==
    /\ st.life \in {"running", "asked"}
    /\ st' = Terminated(Quiet(st))

SocksNext ==
    /\ st.failed = {}
    /\ SocksPlug \/ SocksTimer \/ in_event \/ socks_out_event \/ SocksTerm \/ Gone

SocksSpec == SocksInit /\ [][SocksNext]_st

-----------------------------------------------------------------------------
(* The same of the SOCKS connecter, with two exceptions.  A connecter ordered   *)
(* to end while it waits for the next attempt after error () removes the handle *)
(* of the last one again, which the poller has freed.  A connection to the      *)
(* proxy that is made at once has no greeting to send, which out_event asserts. *)
SocksAssertionsHold ==
    /\ "other" \notin st.failed
    /\ "handle" \in st.failed => st.erred
    /\ "greeting" \in st.failed => st.atOnce

(* While the proxy is talked to, exactly the side that can go on is polled: for *)
(* writing with bytes left to write, for reading with bytes missing, and what   *)
(* has been read never exceeds the message: the bytes of the peer behind the    *)
(* reply stay in the socket for the engine.  Two exceptions: the connection     *)
(* that was made at once, and a reply whose tail comes in pieces, for which too *)
(* many bytes are asked.                                                        *)
TalksToProxy ==
    st.life # "deleted" =>
        /\ st.status \in Sending => st.pollout /\ ~ st.pollin /\ (st.left > 0 \/ st.atOnce)
        /\ st.status \in Waiting => st.pollin /\ ~ st.pollout /\ (st.got < Whole(st) \/ st.split)
        /\ st.status = "unplugged" <=> st.polled = {}
=============================================================================
