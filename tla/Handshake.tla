----------------------------- MODULE Handshake ------------------------------
(**************************************************************************)
(* The ZMTP 3 handshakes of the mechanisms NULL, PLAIN and CURVE          *)
(* (null_mechanism.cpp, plain_client.cpp, plain_server.cpp,               *)
(* curve_client.cpp, curve_server.cpp), between the engines of two peers  *)
(* ("c", the client of PLAIN and CURVE, and "s", the server), with the    *)
(* requests to a ZAP handler (zap_client.cpp).  Commands are their names: *)
(* a well-formed command fails where the peers do not fit, that is where  *)
(* their socket types differ or the keys of CURVE do not match.  The      *)
(* greeting that precedes them is the second part of the module.          *)
(**************************************************************************)
EXTENDS Sequences, FiniteSets, Integers

CONSTANTS Types   \* socket types the peers may have

VARIABLE st

Party == {"c", "s"}
Other(p) == IF p = "c" THEN "s" ELSE "c"

Kind == {"NULL", "PLAIN", "CURVE"}
Client == {"send_hello", "expect_welcome", "send_initiate", "expect_ready"}
Server == {"waiting_hello", "zap", "sending_welcome", "waiting_initiate", "sending_ready",
           "sending_error", "error_sent"}
Ended == {"ready", "error"}

TypeOK ==
    st \in [kind : Kind, type : [Party -> Types], keys : BOOLEAN, handler : BOOLEAN,
            domain : [Party -> BOOLEAN], enforce : BOOLEAN,
            state : [Party -> Client \cup Server \cup Ended \cup {"none"}],
            sent : [Party -> {"none", "READY", "ERROR"}], rcvd : [Party -> {"none", "READY", "ERROR"}],
            zap : [Party -> {"none", "asked", "lost", "200", "300", "400"}], alive : [Party -> BOOLEAN],
            link : [Party -> Seq({"HELLO", "WELCOME", "INITIATE", "READY", "ERROR"})]]

\* check_socket_type: which peers a socket type talks to.
Peers(t) ==
    CASE t = "REQ" -> {"REP", "ROUTER"}            [] t = "REP" -> {"REQ", "DEALER"}
      [] t = "DEALER" -> {"REP", "DEALER", "ROUTER"} [] t = "ROUTER" -> {"REQ", "DEALER", "ROUTER"}
      [] t = "PUSH" -> {"PULL"}                    [] t = "PULL" -> {"PUSH"}
      [] t \in {"PUB", "XPUB"} -> {"SUB", "XSUB"}  [] t \in {"SUB", "XSUB"} -> {"PUB", "XPUB"}
      [] t = "PAIR" -> {"PAIR"}                    [] t = "DGRAM" -> {"DGRAM"}
      [] t = "SERVER" -> {"CLIENT"}                [] t = "CLIENT" -> {"SERVER"}
      [] t = "RADIO" -> {"DISH"}                   [] t = "DISH" -> {"RADIO"}
      [] t = "GATHER" -> {"SCATTER"}               [] t = "SCATTER" -> {"GATHER"}

Init ==
    \E kind \in Kind, type \in [Party -> Types], keys, handler, enforce \in BOOLEAN,
       domain \in [Party -> BOOLEAN] :
      /\ kind # "CURVE" => keys
      /\ kind # "NULL" => ~domain["c"]
      \* plain_server_t asserts that a domain is set where it is enforced.
      /\ kind = "PLAIN" /\ enforce => domain["s"]
      /\ st = [kind |-> kind, type |-> type, keys |-> keys, handler |-> handler,
               domain |-> domain, enforce |-> enforce,
               state |-> IF kind = "NULL" THEN [p \in Party |-> "none"]
                           ELSE [p \in Party |-> IF p = "c" THEN "send_hello" ELSE "waiting_hello"],
               sent |-> [p \in Party |-> "none"], rcvd |-> [p \in Party |-> "none"],
               zap |-> [p \in Party |-> "none"], alive |-> [p \in Party |-> TRUE],
               link |-> [p \in Party |-> <<>>]]

\*---------------------------------------------------------------------------

\* mechanism_t::status.
NullStatus(s, p) ==
    CASE s.sent[p] = "READY" /\ s.rcvd[p] = "READY" -> "ready"
      [] s.sent[p] # "none" /\ s.rcvd[p] # "none" -> "error"
      [] OTHER -> "handshaking"

Status(s, p) ==
    CASE s.kind = "NULL" -> NullStatus(s, p)
      [] s.state[p] = "ready" -> "ready"
      [] s.state[p] \in {"error", "error_sent"} -> "error"
      [] OTHER -> "handshaking"

Dies(s, p) == [s EXCEPT !.alive[p] = FALSE]
Goes(s, p, state) == [s EXCEPT !.state[p] = state]
Sends(s, p, cmd) == [s EXCEPT !.link[Other(p)] = Append(@, cmd)]

\* A parse_metadata that does not look at it.
FitsAny(p) == TRUE

\* parse_metadata: the peer's socket type must fit.
Fits(p) == st.type[Other(p)] \in Peers(st.type[p])

\* What receive_and_process_zap_reply finds: nothing yet, a reply that is refused, or a status code
\* (400 stands for 500 too).
Reply == {"later", "bad", "200", "300", "400"}

\* handle_zap_status_code, of the servers; ok is the state they go to when the code is 200.
handle_zap_status_code(s, code, ok) ==
    [s EXCEPT !.zap["s"] = code,
              !.state["s"] = CASE code = "200" -> ok [] code = "300" -> "error_sent"
                               [] OTHER -> "sending_error"]

OkState == IF st.kind = "PLAIN" THEN "sending_welcome" ELSE "sending_ready"

\* A server sends its request to the ZAP handler and looks for a reply at once.
AskZap(s, reply) ==
    LET asked == [s EXCEPT !.state["s"] = "zap", !.zap["s"] = "asked"]
    IN CASE reply = "later" -> asked
         [] reply = "bad" -> Dies(asked, "s")
         [] OTHER -> handle_zap_status_code(asked, reply, OkState)

\*---------------------------------------------------------------------------
\* next_handshake_command.  The engine calls it when it writes: from process_handshake_command and
\* zap_msg_available if the output had stopped (restart_output), otherwise when the poller says
\* that the connection takes more.

\* null_mechanism_t, with the answer of the ZAP handler if it was asked.
NullCommand(s, p) ==
    CASE s.zap[p] \in {"none", "200"} -> [Sends(s, p, "READY") EXCEPT !.sent[p] = "READY"]
      [] s.zap[p] = "300" -> [s EXCEPT !.sent[p] = "ERROR"]
      [] OTHER -> [Sends(s, p, "ERROR") EXCEPT !.sent[p] = "ERROR"]

\* A domain is enforced and there is no handler for it.
Unhandled(p) == st.kind = "NULL" /\ st.domain[p] /\ st.enforce /\ ~st.handler

\* The ZAP handler is asked before anything is sent.  An engine whose mechanism fails here stops its
\* output and nothing else.
NullNext(p, reply) ==
    /\ st.sent[p] = "none" /\ st.zap[p] \notin {"asked", "lost"} /\ ~Unhandled(p)
    /\ st' = IF ~st.domain[p] \/ st.zap[p] # "none" \/ ~st.handler THEN NullCommand(st, p)
             ELSE CASE reply = "later" -> [st EXCEPT !.zap[p] = "asked"]
                    [] reply = "bad" -> [st EXCEPT !.zap[p] = "lost"]
                    [] OTHER -> NullCommand([st EXCEPT !.zap[p] = reply], p)

\* What the clients and the servers of PLAIN and CURVE send, and the state they go to.
ClientNext ==
    CASE st.state["c"] = "send_hello" -> <<"HELLO", "expect_welcome">>
      [] st.state["c"] = "send_initiate" -> <<"INITIATE", "expect_ready">>
      [] OTHER -> <<>>

ServerNext ==
    CASE st.state["s"] = "sending_welcome" -> <<"WELCOME", "waiting_initiate">>
      [] st.state["s"] = "sending_ready" -> <<"READY", "ready">>
      [] st.state["s"] = "sending_error" -> <<"ERROR", "error_sent">>
      [] OTHER -> <<>>

Produced(p) == IF p = "c" THEN ClientNext ELSE ServerNext

next_handshake_command(p) ==
    /\ st.alive[p] /\ Status(st, p) = "handshaking"
    /\ IF st.kind = "NULL" THEN \E reply \in Reply : NullNext(p, reply)
       ELSE /\ Produced(p) # <<>>
            /\ st' = Goes(Sends(st, p, Produced(p)[1]), p, Produced(p)[2])

\*---------------------------------------------------------------------------
\* process_handshake_command

\* An engine that looks only at what the mechanism returns.
SettledNot(s, p) == s

\* An engine that cannot go on: what the mechanism refuses ends the connection, and so does a
\* mechanism that has ended in error.
Settled(s, p) == IF Status(s, p) = "error" THEN Dies(s, p) ELSE s

NullProcess(s, p, cmd) ==
    IF s.rcvd[p] # "none" \/ (cmd = "READY" /\ ~Fits(p)) THEN Dies(s, p)
    ELSE [s EXCEPT !.rcvd[p] = cmd]

ClientReady(s) == IF Fits("c") THEN Goes(s, "c", "ready") ELSE Dies(s, "c")

PlainClient(s, cmd) ==
    CASE cmd = "WELCOME" /\ s.state["c"] = "expect_welcome" -> Goes(s, "c", "send_initiate")
      [] cmd = "READY" /\ s.state["c"] = "expect_ready" -> ClientReady(s)
      [] cmd = "ERROR" /\ s.state["c"] \in {"expect_welcome", "expect_ready"} -> Goes(s, "c", "error")
      [] OTHER -> Dies(s, "c")

\* CURVE relies on the boxes, which open only in the state they are meant for.
CurveClient(s, cmd) ==
    CASE cmd = "WELCOME" -> Goes(s, "c", "send_initiate")
      [] cmd = "READY" -> ClientReady(s)
      [] cmd = "ERROR" /\ s.state["c"] \in {"expect_welcome", "expect_ready"} -> Goes(s, "c", "error")
      [] OTHER -> Dies(s, "c")

\* PLAIN asks the ZAP handler about the name and password of HELLO, and needs one.
PlainServer(s, cmd, reply) ==
    CASE cmd = "HELLO" /\ s.state["s"] = "waiting_hello" ->
           IF s.handler THEN AskZap(s, reply) ELSE Dies(s, "s")
      [] cmd = "INITIATE" /\ s.state["s"] = "waiting_initiate" ->
           IF Fits("s") THEN Goes(s, "s", "sending_ready") ELSE Dies(s, "s")
      [] OTHER -> Dies(s, "s")

\* CURVE asks it about the client's key, which comes with INITIATE, and then reads the metadata.
process_initiate(s, reply) ==
    LET asks == s.domain["s"] \/ ~s.enforce
        next == CASE asks /\ s.handler -> AskZap(s, reply)
                  [] asks /\ ~s.handler /\ s.enforce -> Dies(s, "s")
                  [] OTHER -> Goes(s, "s", "sending_ready")
    IN IF Fits("s") THEN next ELSE Dies(next, "s")

CurveServer(s, cmd, reply) ==
    CASE cmd = "HELLO" /\ s.state["s"] = "waiting_hello" ->
           IF s.keys THEN Goes(s, "s", "sending_welcome") ELSE Dies(s, "s")
      [] cmd = "INITIATE" /\ s.state["s"] = "waiting_initiate" -> process_initiate(s, reply)
      [] OTHER -> Dies(s, "s")

process_handshake_command(p) ==
    /\ st.alive[p] /\ st.link[p] # <<>> /\ Status(st, p) # "ready"
    /\ \E reply \in Reply :
         LET cmd == Head(st.link[p])
             s == [st EXCEPT !.link[p] = Tail(@)]
             done == CASE st.kind = "NULL" -> NullProcess(s, p, cmd)
                       [] p = "c" /\ st.kind = "PLAIN" -> PlainClient(s, cmd)
                       [] p = "c" /\ st.kind = "CURVE" -> CurveClient(s, cmd)
                       [] p = "s" /\ st.kind = "PLAIN" -> PlainServer(s, cmd, reply)
                       [] p = "s" /\ st.kind = "CURVE" -> CurveServer(s, cmd, reply)
         IN st' = Settled(done, p)

\* A reply comes that was not there at once.
zap_msg_available(p) ==
    /\ st.alive[p] /\ st.zap[p] = "asked"
    /\ \E reply \in Reply \ {"later"} :
         st' = CASE reply = "bad" -> Dies(st, p)
                 [] st.kind = "NULL" -> [st EXCEPT !.zap[p] = reply]
                 [] OTHER -> handle_zap_status_code(st, reply, OkState)

\* The engine reads the end of the connection.
Disconnected(p) ==
    /\ st.alive[p] /\ ~st.alive[Other(p)] /\ st.link[p] = <<>>
    /\ st' = Dies(st, p)

Next ==
    \E p \in Party :
      \/ next_handshake_command(p) \/ process_handshake_command(p)
      \/ zap_msg_available(p) \/ Disconnected(p)

Spec == Init /\ [][Next]_st

\*---------------------------------------------------------------------------

\* A peer is ready only with another that fits and that gave its part: the socket types talk to each
\* other, both ways; the client holds the key of the server; and each side whose ZAP handler has a
\* say approved, so that a refusal can never cross a READY that was on its way.
ReadyMeansAgreed ==
    \A p \in Party : Status(st, p) = "ready" =>
      /\ st.keys /\ \A q \in Party : st.type[Other(q)] \in Peers(st.type[q])
      /\ \A q \in Party : st.zap[q] \in {"none", "200"}
      /\ \A q \in Party : st.domain[q] /\ st.handler => st.zap[q] = "200"
      /\ st.kind = "PLAIN" => st.zap["s"] = "200"

\* A peer that says nothing more and does not disconnect either: its ZAP handler answered with the
\* code for a temporary failure, or NULL found no handler for a domain it enforces, or a reply
\* already there that it refuses.
Mute(p) == st.zap[p] \in {"300", "lost"} \/ Unhandled(p)

\* Nobody can make a step.
Quiescent ==
    \A p \in Party :
      /\ st.alive[p] => st.link[p] = <<>> \/ Status(st, p) = "ready"
      /\ st.alive[p] => st.zap[p] # "asked" /\ st.alive[Other(p)]
      /\ st.alive[p] /\ Status(st, p) = "handshaking" =>
           IF st.kind = "NULL" THEN st.sent[p] # "none" \/ Mute(p) ELSE Produced(p) = <<>>

\* When a handshake between two of these peers comes to rest, both of them are ready and no command
\* is left over, or both of them are gone, or a mute peer keeps the other waiting, neither of them
\* ready.  Nothing ends the third: zap_client.cpp means the client of the first such case to be
\* silently disconnected, and the handshake timer is gone by then.
HandshakeEnds ==
    Quiescent =>
      \/ \A p \in Party : st.alive[p] /\ Status(st, p) = "ready" /\ st.link[p] = <<>>
      \/ \A p \in Party : ~st.alive[p]
      \/ /\ \E p \in Party : Mute(p)
         /\ \A p \in Party : st.alive[p] /\ Status(st, p) # "ready"

-----------------------------------------------------------------------------
(***************************************************************************)
(* The ZMTP greeting (zmtp_engine.cpp): the signature, which a peer of an   *)
(* old version takes for the header of its first message, the version, and  *)
(* what depends on the version of the peer.  Side 1 runs this code, side 2  *)
(* too or it is an older peer.  Bytes are counted; how many are read and    *)
(* written at a time is open.                                               *)
(***************************************************************************)

CONSTANTS
    SignatureSize, V2Size, V3Size,  \* 10, 12 and 64 bytes
    Kinds,       \* of side 2: "new", "v2", "v1", "old" and "oldlong"
    Mechanisms,  \* of the sides that run this code
    IdSizes,     \* of the routing id of side 1
    UcharMax     \* the size that needs the long format of a message


Side == {1, 2}
GreetingOther(i) == 3 - i
New(s, i) == s.kind[i] = "new"
\* What the bytes of side i say: the first and the last of the signature and
\* the revision that follows it.
FirstIsFF(s, i) == s.kind[i] # "old"
FlagSet(s, i) == s.kind[i] \notin {"old", "oldlong"}
Revision(s, i) == CASE s.kind[i] = "v1" -> 0 [] s.kind[i] = "v2" -> 1 [] OTHER -> 3
\* The bytes an older peer sends: its greeting, or its routing id message.
Script(kind) ==
    CASE kind = "new" -> 0
      [] kind = "old" -> 3
      [] kind = "oldlong" -> SignatureSize + 2
      [] OTHER -> V2Size + 2

-----------------------------------------------------------------------------
\* plug_internal: put: the bytes written into the buffer; sent: those on the
\* wire; read: those received by the other side's engine; size: _greeting_size;
\* done: the protocol chosen; given: where the decoder's input starts.
GreetingInit ==
    \E kind \in Kinds, mech \in [Side -> Mechanisms], zap \in [Side -> BOOLEAN], id \in IdSizes :
        /\ kind # "new" => mech[2] = mech[1] /\ zap[2] = zap[1]
        /\ \A i \in Side : mech[i] # "NULL" => zap[i]
        /\ st = [kind |-> <<"new", kind>>, mech |-> mech, zap |-> zap, id |-> id,
                 put |-> <<SignatureSize, IF kind = "new" THEN SignatureSize ELSE Script(kind)>>,
                 sent |-> <<0, 0>>, read |-> <<0, 0>>, size |-> <<V2Size, V2Size>>,
                 pollout |-> <<TRUE, TRUE>>, done |-> <<"no", "no">>, given |-> <<0, 0>>,
                 header |-> 0, closed |-> <<FALSE, FALSE>>]

Outsize(s, i) == s.put[i] - s.sent[i]
\* n bytes go into the output buffer, which is polled for when it was empty.
Put(s, i, n) == [s EXCEPT !.put[i] = @ + n, !.pollout[i] = @ \/ Outsize(s, i) = 0]
error(s, i) == [s EXCEPT !.closed[i] = TRUE]

\* The version, and when that of the peer is known, what suits it.
receive_greeting_versioned(s, i) ==
    LET t == IF s.put[i] = SignatureSize THEN Put(s, i, 1) ELSE s
        older == Revision(s, GreetingOther(i)) \in {0, 1}
    IN  IF t.read[i] <= SignatureSize \/ t.put[i] # SignatureSize + 1 THEN t
        ELSE IF older THEN Put(t, i, 1)
        ELSE [Put(t, i, V3Size - SignatureSize - 1) EXCEPT !.size[i] = V3Size]

\* The decoder's input starts at the first byte that was not part of the
\* greeting, or with the message that was taken for it.
Chosen(s, i, protocol, from) == [s EXCEPT !.done[i] = protocol, !.given[i] = from,
                                          !.pollout[i] = @ \/ Outsize(s, i) = 0]
v1_header(size) == IF size + 1 < UcharMax THEN 2 ELSE 10
handshake_v1_0_unversioned(s, i) ==
    IF s.zap[i] THEN error(s, i)
    ELSE [Chosen(s, i, "unversioned", 0) EXCEPT
            !.header = IF s.id + 1 >= UcharMax THEN 10 ELSE 2]
handshake_v1_0(s, i) == IF s.zap[i] THEN error(s, i) ELSE Chosen(s, i, "v1", s.read[i])
handshake_v2_0(s, i) == IF s.zap[i] THEN error(s, i) ELSE Chosen(s, i, "v2", s.read[i])
handshake_v3_0(s, i) ==
    IF s.mech[i] = s.mech[GreetingOther(i)] THEN Chosen(s, i, s.mech[i], s.read[i]) ELSE error(s, i)
select_handshake_fun(s, i, unversioned) ==
    IF unversioned THEN handshake_v1_0_unversioned(s, i)
    ELSE CASE Revision(s, GreetingOther(i)) = 0 -> handshake_v1_0(s, i)
           [] Revision(s, GreetingOther(i)) = 1 -> handshake_v2_0(s, i)
           [] OTHER -> handshake_v3_0(s, i)

\* One turn of the loop of receive_greeting, and the handshake at its end.
Greeting(s, i, n) ==
    LET p == GreetingOther(i)
        t == [s EXCEPT !.read[i] = @ + n]
        v == receive_greeting_versioned(t, i)
    IN  IF ~FirstIsFF(s, p) THEN select_handshake_fun(t, i, TRUE)
        ELSE IF t.read[i] < SignatureSize THEN t
        ELSE IF ~FlagSet(s, p) THEN select_handshake_fun(t, i, TRUE)
        ELSE IF v.read[i] < v.size[i] THEN v ELSE select_handshake_fun(v, i, FALSE)

Cuts(n) == {k \in {1, n} : k <= n}
Waiting(i) == st.sent[GreetingOther(i)] - st.read[i]
receive_greeting(i) ==
    /\ New(st, i) /\ ~st.closed[i] /\ st.done[i] = "no"
    /\ LET room == st.size[i] - st.read[i]
           n == IF Waiting(i) < room THEN Waiting(i) ELSE room
       IN  \E k \in Cuts(n) : k > 0 /\ st' = Greeting(st, i, k)
\* The peer is gone, and all it sent is read.
ReadFails(i) ==
    /\ New(st, i) /\ ~st.closed[i] /\ st.done[i] = "no" /\ st.closed[GreetingOther(i)] /\ Waiting(i) = 0
    /\ st' = error(st, i)
\* out_event while there is no encoder: polling stops when all is sent.
out_event(i) ==
    /\ New(st, i) /\ ~st.closed[i] /\ st.pollout[i] /\ Outsize(st, i) > 0
    /\ \E k \in Cuts(Outsize(st, i)) :
          st' = [st EXCEPT !.sent[i] = @ + k,
                           !.pollout[i] = k < Outsize(st, i) \/ st.done[i] # "no"]
\* An older peer sends what it has to, in whatever pieces.
PeerSends ==
    /\ ~New(st, 2) /\ Outsize(st, 2) > 0
    /\ \E k \in Cuts(Outsize(st, 2)) : st' = [st EXCEPT !.sent[2] = @ + k]

GreetingNext == \/ \E i \in Side : receive_greeting(i) \/ ReadFails(i) \/ out_event(i)
        \/ PeerSends

GreetingSpec == GreetingInit /\ [][GreetingNext]_st

-----------------------------------------------------------------------------
\* Two engines of this version come to the same mechanism, or neither goes on;
\* an older peer gets its own version; who authenticates its peers goes on with
\* a mechanism only (the handshake functions).
VersionsAgree ==
    /\ st.done[1] # "no" /\ st.done[2] # "no" => st.done[1] = st.done[2]
    /\ st.kind[2] = "new" /\ st.mech[1] # st.mech[2] => \A i \in Side : st.done[i] = "no"
    /\ \A i \in Side : st.zap[i] => st.done[i] \notin {"unversioned", "v1", "v2"}
    /\ st.done[1] # "no" /\ ~New(st, 2) =>
          st.done[1] = IF st.kind[2] \in {"v1", "v2"} THEN st.kind[2] ELSE "unversioned"

\* The decoder starts where the peer's messages do: behind the greeting, or at
\* its first byte when it was a message; the header of our routing id message
\* that the encoder skips is the one the encoder makes (receive_greeting,
\* handshake_v1_0_unversioned).
DecoderPlaced ==
    \A i \in Side :
        /\ st.done[i] \in Mechanisms => st.given[i] = V3Size
        /\ st.done[i] \in {"v1", "v2"} => st.given[i] = V2Size
        /\ st.done[i] = "unversioned" => st.given[i] = 0 /\ st.header = v1_header(st.id)

\* The greetings are not held back: what is in the buffer is polled for, and
\* while a side has not come to an end something is to be sent or to be read, or
\* the peer has still to speak (set_pollout in receive_greeting_versioned).
GreetingMoves ==
    \A i \in Side :
        New(st, i) /\ ~st.closed[i] =>
            /\ Outsize(st, i) > 0 => st.pollout[i]
            /\ st.done[i] = "no" =>
                  \/ Waiting(i) > 0 \/ st.closed[GreetingOther(i)]
                  \/ \E j \in Side : Outsize(st, j) > 0 \/ Waiting(j) > 0
=============================================================================
