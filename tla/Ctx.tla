-------------------------------- MODULE Ctx ---------------------------------
(***************************************************************************)
(* ctx_t and reaper_t (ctx.cpp, reaper.cpp) with the part of socket_base_t *)
(* they govern: creating and closing sockets, inproc bind and connect with *)
(* their pending connections, zmq_ctx_shutdown, and zmq_ctx_term with its  *)
(* interruption by a signal.  One thread uses each socket until it is      *)
(* closed, then the reaper does; one more thread terminates the context.   *)
(* A step is a critical section of _slot_sync or _endpoints_sync, or the   *)
(* handling of a command.  Every socket uses the one inproc address.       *)
(***************************************************************************)
EXTENDS Naturals, Sequences, FiniteSets, SequencesExt

CONSTANTS
    Socket,       \* sockets the application creates
    Temp,         \* the ZMQ_PAIR sockets terminate creates
    MaxSockets,   \* ZMQ_MAX_SOCKETS
    None,         \* no socket
    MaxConnects,  \* bound: calls of connect per socket
    MaxSignals    \* bound: signals that interrupt terminate

ASSUME ConstantsAssumption ==
    /\ None \notin Socket \cup Temp /\ Socket \cap Temp = {}
    /\ MaxSockets \in Nat \ {0} /\ MaxConnects \in Nat /\ MaxSignals \in Nat

VARIABLES
    starting, terminating,   \* ctx_t: _starting, _terminating
    status,      \* per socket: "none", "open", "closed", "reaping", "dead"
    api,         \* per socket, where its thread is: "idle", or inside bind or
                 \* connect between two critical sections
    peer,        \* the peer find_endpoint returned, while api is "found"
    stop,        \* a stop command is under way to the socket
    etermed,     \* socket_base_t::_ctx_terminated
    owed,        \* _sent_seqnum - _processed_seqnum
    seqcmds,     \* commands under way to the socket that redeem a seqnum
    pipes,       \* connected pairs whose pipe has not ended
    endpoint,    \* _endpoints at the address: the bound socket or None
    pending,     \* _pending_connections: the connecting sockets
    mailbox,     \* the reaper's commands, in order
    reaped,      \* reaper_t: _sockets and _terminating
    reaperStops,
    dones,       \* done commands in _term_mailbox
    term,        \* terminate's caller: "no", "waiting", "interrupted", "ended"
    aborted,     \* terminate's create_socket returned NULL
    signals, connects     \* counters behind the bounds

ctx    == <<starting, terminating>>
sock   == <<api, peer, stop, etermed, owed, seqcmds, pipes>>
inproc == <<endpoint, pending>>
reaper == <<mailbox, reaped, reaperStops, dones>>
caller == <<term, aborted, signals>>
vars == <<ctx, status, sock, inproc, reaper, caller, connects>>

Id == Socket \cup Temp
Sockets == {s \in Id : status[s] \notin {"none", "dead"}}    \* _sockets
Free == MaxSockets - Cardinality(Sockets)                    \* _empty_slots
Set(f, S, v) == [x \in DOMAIN f |-> IF x \in S THEN v ELSE f[x]]

Init ==
    /\ starting = TRUE /\ terminating = FALSE
    /\ status = [s \in Id |-> "none"] /\ api = [s \in Id |-> "idle"]
    /\ peer = [s \in Id |-> None]
    /\ stop = [s \in Id |-> FALSE] /\ etermed = [s \in Id |-> FALSE]
    /\ owed = [s \in Id |-> 0] /\ seqcmds = [s \in Id |-> 0]
    /\ pipes = {} /\ endpoint = None /\ pending = {}
    /\ mailbox = <<>> /\ reaped = 0 /\ reaperStops = FALSE /\ dones = 0
    /\ term = "no" /\ aborted = FALSE /\ signals = 0
    /\ connects = [s \in Id |-> 0]

-----------------------------------------------------------------------------
\* create_socket, with start on the first one.
create_socket(s) ==
    /\ s \in Socket /\ status[s] = "none" /\ term # "ended"
    /\ ~terminating /\ Free > 0
    /\ starting' = FALSE /\ status' = [status EXCEPT ![s] = "open"]
    /\ UNCHANGED <<terminating, sock, inproc, reaper, caller, connects>>

\* process_commands by the thread that owns the socket.
process_commands(s) ==
    /\ \/ status[s] = "open" /\ api[s] = "idle"
       \/ status[s] = "reaping"
    /\ stop[s] \/ seqcmds[s] > 0
    /\ stop' = [stop EXCEPT ![s] = FALSE]
    /\ etermed' = [etermed EXCEPT ![s] = @ \/ stop[s]]
    /\ owed' = [owed EXCEPT ![s] = @ - seqcmds[s]]
    /\ seqcmds' = [seqcmds EXCEPT ![s] = 0]
    /\ UNCHANGED <<ctx, status, api, peer, pipes, inproc, reaper, caller, connects>>

\* bind and connect begin: with all commands handled and no ETERM seen.
Enter(s, where) ==
    /\ s \in Socket /\ status[s] = "open" /\ api[s] = "idle"
    /\ ~stop[s] /\ seqcmds[s] = 0 /\ ~etermed[s]
    /\ api' = [api EXCEPT ![s] = where]
    /\ where = "connect" => connects[s] < MaxConnects
    /\ connects' = [connects EXCEPT ![s] = @ + IF where = "connect" THEN 1 ELSE 0]
    /\ UNCHANGED <<ctx, status, peer, stop, etermed, owed, seqcmds, pipes,
                   inproc, reaper, caller>>

\* bind: register_endpoint, which fails if the address is in use ...
register_endpoint(s) ==
    /\ api[s] = "bind"
    /\ IF endpoint = None
       THEN endpoint' = s /\ api' = [api EXCEPT ![s] = "registered"]
       ELSE UNCHANGED endpoint /\ api' = [api EXCEPT ![s] = "idle"]
    /\ UNCHANGED <<ctx, status, peer, stop, etermed, owed, seqcmds, pipes,
                   pending, reaper, caller, connects>>

\* Mutant of ConnectPending: inproc_connected is not sent.
ConnectSilently(b) ==
    /\ pipes' = pipes \cup {{s, b} : s \in pending}
    /\ pending' = {} /\ UNCHANGED seqcmds
\* ... and connect_pending: every waiting connection is connected to b and its
\* socket is sent inproc_connected.
ConnectPending(b) ==
    /\ pipes' = pipes \cup {{s, b} : s \in pending}
    /\ seqcmds' = [s \in Id |-> seqcmds[s] + IF s \in pending THEN 1 ELSE 0]
    /\ pending' = {}
connect_pending(s) ==
    /\ api[s] = "registered" /\ ConnectPending(s)
    /\ api' = [api EXCEPT ![s] = "idle"]
    /\ UNCHANGED <<ctx, status, peer, stop, etermed, owed, endpoint, reaper,
                   caller, connects>>

\* connect: find_endpoint announces the coming bind command to the peer ...
find_endpoint(s) ==
    /\ api[s] = "connect" /\ peer' = [peer EXCEPT ![s] = endpoint]
    /\ api' = [api EXCEPT ![s] = IF endpoint = None THEN "unfound" ELSE "found"]
    /\ owed' = IF endpoint = None THEN owed ELSE [owed EXCEPT ![endpoint] = @ + 1]
    /\ UNCHANGED <<ctx, status, stop, etermed, seqcmds, pipes, inproc, reaper,
                   caller, connects>>
\* ... which is then sent,
send_bind(s) ==
    /\ api[s] = "found"
    /\ seqcmds' = [seqcmds EXCEPT ![peer[s]] = @ + 1]
    /\ pipes' = pipes \cup {{s, peer[s]}}
    /\ api' = [api EXCEPT ![s] = "idle"] /\ peer' = [peer EXCEPT ![s] = None]
    /\ UNCHANGED <<ctx, status, stop, etermed, owed, inproc, reaper, caller, connects>>
\* Mutant of pend_connection: it does not look for the endpoint again.
PendBlindly(s) ==
    /\ api[s] = "unfound" /\ api' = [api EXCEPT ![s] = "idle"]
    /\ pending' = pending \cup {s} /\ owed' = [owed EXCEPT ![s] = @ + 1]
    /\ UNCHANGED <<ctx, status, peer, stop, etermed, seqcmds, pipes, endpoint,
                   reaper, caller, connects>>
\* ... or, with no peer found, pend_connection: a bind may have happened in the
\* meantime, else the connection waits and the socket owes a command.
pend_connection(s) ==
    /\ api[s] = "unfound" /\ api' = [api EXCEPT ![s] = "idle"]
    /\ IF endpoint = None
       THEN /\ pending' = pending \cup {s}
            /\ owed' = [owed EXCEPT ![s] = @ + 1]
            /\ UNCHANGED <<seqcmds, pipes>>
       ELSE /\ owed' = [owed EXCEPT ![endpoint] = @ + 1]
            /\ seqcmds' = [seqcmds EXCEPT ![endpoint] = @ + 1]
            /\ pipes' = pipes \cup {{s, endpoint}}
            /\ UNCHANGED pending
    /\ UNCHANGED <<ctx, status, peer, stop, etermed, endpoint, reaper, caller, connects>>

\* close: the socket goes to the reaper.
close(s) ==
    /\ s \in Socket /\ status[s] = "open" /\ api[s] = "idle"
    /\ status' = [status EXCEPT ![s] = "closed"]
    /\ mailbox' = Append(mailbox, s)
    /\ UNCHANGED <<ctx, sock, inproc, reaped, reaperStops, dones, caller, connects>>

-----------------------------------------------------------------------------
\* The reaper: process_reap runs start_reaping, whose process_term
\* unregisters the socket's endpoint.
process_reap ==
    /\ mailbox # <<>> /\ Head(mailbox) \in Id
    /\ mailbox' = Tail(mailbox) /\ reaped' = reaped + 1
    /\ status' = [status EXCEPT ![Head(mailbox)] = "reaping"]
    /\ endpoint' = IF endpoint = Head(mailbox) THEN None ELSE endpoint
    /\ UNCHANGED <<ctx, sock, pending, reaperStops, dones, caller, connects>>

\* The pipe of two sockets ends once one of them terminates.
PipeEnds(p) ==
    /\ p \in pipes /\ \E s \in p : status[s] = "reaping"
    /\ pipes' = pipes \ {p}
    /\ UNCHANGED <<ctx, status, api, peer, stop, etermed, owed, seqcmds, inproc,
                   reaper, caller, connects>>

\* Mutant of MayDestroy: commands announced to the socket are not awaited.
DestroyOwing(s) == status[s] = "reaping" /\ \A p \in pipes : s \notin p
MayDestroy(s) ==
    status[s] = "reaping" /\ owed[s] = 0 /\ \A p \in pipes : s \notin p

\* check_destroy: destroy_socket (which stops the reaper after the last
\* socket of a terminating context) and send_reaped.
check_destroy(s) ==
    /\ MayDestroy(s)
    /\ status' = [status EXCEPT ![s] = "dead"]
    /\ mailbox' = mailbox \o (IF terminating /\ Sockets = {s}
                              THEN <<"stop", "reaped">> ELSE <<"reaped">>)
    /\ UNCHANGED <<ctx, sock, inproc, reaped, reaperStops, dones, caller, connects>>

\* Mutant of Finishes: done is sent while sockets are still being reaped.
FinishesAtOnce(n, stopping) == stopping
Finishes(n, stopping) == stopping /\ n = 0
process_stop ==
    /\ mailbox # <<>> /\ Head(mailbox) = "stop"
    /\ mailbox' = Tail(mailbox) /\ reaperStops' = TRUE
    /\ dones' = IF Finishes(reaped, TRUE) THEN dones + 1 ELSE dones
    /\ UNCHANGED <<ctx, status, sock, inproc, reaped, caller, connects>>
process_reaped ==
    /\ mailbox # <<>> /\ Head(mailbox) = "reaped"
    /\ mailbox' = Tail(mailbox) /\ reaped' = reaped - 1
    /\ dones' = IF Finishes(reaped - 1, reaperStops) THEN dones + 1 ELSE dones
    /\ UNCHANGED <<ctx, status, sock, inproc, reaperStops, caller, connects>>

-----------------------------------------------------------------------------
\* Stop every socket; with none, stop the reaper.
StopAll(S, m) ==
    /\ stop' = [s \in Id |-> stop[s] \/ s \in S]
    /\ mailbox' = IF S = {} THEN Append(m, "stop") ELSE m

\* zmq_ctx_shutdown.
shutdown ==
    /\ term # "ended" /\ ~terminating /\ terminating' = TRUE
    /\ IF starting THEN UNCHANGED <<stop, mailbox>> ELSE StopAll(Sockets, mailbox)
    /\ UNCHANGED <<starting, status, api, peer, etermed, owed, seqcmds, pipes,
                   inproc, reaped, reaperStops, dones, caller, connects>>

\* zmq_ctx_term, up to the wait for done.  Each pending connection makes it
\* create a socket, bind it (the first one takes the address and connects
\* them all) and close it.
Unused == {t \in Temp : status[t] = "none"}
NewTemps ==
    CHOOSE T \in SUBSET Unused : Cardinality(T) = Cardinality(pending)
terminate ==
    /\ term \in {"no", "interrupted"} /\ ~aborted
    /\ Cardinality(pending) <= Cardinality(Unused)    \* bound: Temp
    /\ IF Cardinality(pending) > Free
       THEN aborted' = TRUE
            /\ UNCHANGED <<ctx, status, sock, inproc, reaper, term, signals,
                           connects>>
       ELSE
       LET T == NewTemps
           first == CHOOSE t \in T : TRUE
           all == Sockets \cup T
       IN
       /\ terminating' = (terminating \/ ~starting)
       /\ term' = IF starting THEN "ended" ELSE "waiting"
       /\ status' = Set(status, T, "closed")
       /\ IF T # {} /\ endpoint = None
          THEN ConnectPending(first) /\ endpoint' = first
          ELSE UNCHANGED <<pipes, seqcmds, pending, endpoint>>
       /\ IF terminating \/ starting
          THEN UNCHANGED stop /\ mailbox' = mailbox \o SetToSeq(T)
          ELSE StopAll(all, mailbox \o SetToSeq(T))
       /\ UNCHANGED <<starting, api, peer, etermed, owed, reaped, reaperStops,
                      dones, aborted, signals, connects>>

\* The wait is interrupted by a signal (EINTR), or receives done.
Interrupt ==
    /\ term = "waiting" /\ signals < MaxSignals
    /\ term' = "interrupted" /\ signals' = signals + 1
    /\ UNCHANGED <<ctx, status, sock, inproc, reaper, aborted, connects>>
ReceiveDone ==
    /\ term = "waiting" /\ dones > 0
    /\ term' = "ended" /\ dones' = dones - 1
    /\ UNCHANGED <<ctx, status, sock, inproc, mailbox, reaped, reaperStops,
                   aborted, signals, connects>>

InApi(s) ==
    \/ register_endpoint(s) \/ connect_pending(s)
    \/ find_endpoint(s) \/ send_bind(s) \/ pend_connection(s)
Reap == process_reap \/ process_stop \/ process_reaped
Next ==
    \/ \E s \in Id :
         \/ create_socket(s) \/ process_commands(s) \/ InApi(s) \/ close(s)
         \/ Enter(s, "bind")
         \/ Enter(s, "connect")
         \/ check_destroy(s)
    \/ \E p \in pipes : PipeEnds(p)
    \/ Reap \/ shutdown \/ terminate \/ Interrupt \/ ReceiveDone

Spec == Init /\ [][Next]_vars

\* Threads run: calls that began return, the reaper handles its commands and
\* the sockets', pipes end.  The application closes its sockets and restarts
\* an interrupted termination, as the documentation asks.
Fairness ==
    /\ \A s \in Id :
         /\ WF_vars(InApi(s)) /\ WF_vars(close(s)) /\ WF_vars(check_destroy(s))
         /\ WF_vars(status[s] = "reaping" /\ process_commands(s))
    /\ WF_vars(\E p \in pipes : PipeEnds(p))
    /\ WF_vars(Reap) /\ WF_vars(ReceiveDone)
    /\ WF_vars(term = "interrupted" /\ terminate)
FairSpec == Spec /\ Fairness

-----------------------------------------------------------------------------
\* Every variable keeps its type.
TypeOK ==
    /\ status \in [Id -> {"none", "open", "closed", "reaping", "dead"}]
    /\ peer \in [Id -> Id \cup {None}] /\ endpoint \in Id \cup {None}
    /\ pending \subseteq Socket /\ pipes \subseteq SUBSET Id
    /\ \A s \in Id : owed[s] \in Nat /\ seqcmds[s] \in 0..owed[s]
    /\ reaped \in Nat /\ dones \in Nat /\ Free \in Nat

\* Nobody reaches a deallocated socket: it is not registered at the address,
\* no connect in progress found it, and no connection waits in its name
\* (find_endpoint's and pend_connection's inc_seqnum).
NoDeadSocketReached ==
    \A d \in Id : status[d] = "dead" =>
        /\ endpoint # d /\ d \notin pending /\ seqcmds[d] = 0
        /\ \A s \in Id : peer[s] # d

\* The variables keep their types; terminate's zmq_assert (_sockets.empty ()):
\* done arrives once, and only when every socket, also the temporary ones, is
\* gone.
DoneMeansEmpty ==
    /\ TypeOK /\ dones <= 1
    /\ dones = 1 \/ (term = "ended" /\ ~starting) => Sockets = {} /\ pipes = {}

\* The handshake of bind and connect leaves no connection waiting for an
\* address that is bound, once the binder has returned.
BoundMeansConnected ==
    endpoint \in Id /\ api[endpoint] # "registered" => pending = {}

\* zmq_ctx_term returns once all sockets are closed, unless a connect that was
\* under way when it began left a connection waiting.
TermReturns == term = "waiting" ~> (term = "ended" \/ pending # {} \/ aborted)

\* terminate: "Connect up any pending inproc connections, otherwise we will
\* hang": once all sockets are closed, zmq_ctx_term returns.
TermNeverHangs == term = "waiting" ~> (term = "ended" \/ aborted)

\* terminate: zmq_assert (s) after create_socket.
SocketForPending == ~aborted
=============================================================================
