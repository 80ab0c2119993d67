--------------------------------- MODULE Ws ---------------------------------
(* ws_engine_t and wss_engine_t: the HTTP upgrade that opens a WebSocket, the   *)
(* TLS handshake that wss puts in front of it, and the control frames once it   *)
(* is open.  The peer's bytes are tokens: one per character of the fixed lines, *)
(* one per run of characters in a header's name or value ("long" stands for     *)
(* more of them than the buffers hold), "CR", "LF" and "SP".  The system hands  *)
(* them over in pieces of any size; engine timers are in module IoPoller.       *)
EXTENDS Integers, Sequences, SequencesExt, TLC

CONSTANTS
    Secure,     \* wss_engine_t is explored beside ws_engine_t
    Buffer      \* most tokens one read returns

VARIABLE st

-----------------------------------------------------------------------------
(* What a peer may send: a first line, good or wrong at one place, and headers. *)
Get == <<"G", "E", "T", "SP">>
Version == <<"H", "T", "T", "P", "/", "1", ".", "1">>
Status == Version \o <<"SP", "1", "0", "1", "SP", "S", "w", "i", "t", "c", "h", "i", "n", "g",
                       "SP", "P", "r", "o", "t", "o", "c", "o", "l", "s">>
Line(role) == IF role = "server" THEN Get \o <<"path", "SP">> \o Version ELSE Status

Header(name, value) == [name |-> name, value |-> value]
Key(role) == IF role = "server" THEN "key" ELSE "accept"
Offer(role, mech) == IF mech = "PLAIN" THEN "ZWS2.0/PLAIN"
                     ELSE IF role = "server" THEN "ZWS2.0/NULL,ZWS2.0" ELSE "ZWS2.0/NULL"
Good(role, mech) ==
    <<Header("upgrade", <<"websocket">>), Header("connection", <<"upgrade">>),
      Header(Key(role), <<"text">>), Header("protocol", <<Offer(role, mech)>>)>>

(* One header missing, moved to the front or given another value; a client may  *)
(* repeat the protocol header.                                                  *)
Headers(role, mech) ==
    LET g == Good(role, mech)
        Without(i) == SubSeq(g, 1, i - 1) \o SubSeq(g, i + 1, 4)
        Value(i, v) == [g EXCEPT ![i].value = v]
    IN  {g, Reverse(g), g \o <<Header("other", <<"text">>)>>, g \o <<Header("other", <<"text", "long">>)>>}
        \cup {Without(i) : i \in 1 .. 4} \cup {<<g[i]>> \o Without(i) : i \in 2 .. 4}
        \cup {Value(i, v) : i \in 1 .. 4, v \in {<<>>, <<"SP", "text">>, <<"text", "text">>}}
        \cup (IF role = "server" THEN {g \o <<g[4]>>} ELSE {})
        \cup {Value(4, <<p>>) : p \in {"ZWS2.0", "ZWS2.0/PLAIN", "text,ZWS2.0"}}

Text(h) == <<h.name, ":", "SP">> \o h.value \o <<"CR", "LF">>
Tokens(role, wrong, hs) ==
    LET line == Line(role)
    IN  (IF wrong = 0 THEN line ELSE [line EXCEPT ![wrong] = "x"]) \o <<"CR", "LF">>
        \o FlattenSeq([i \in DOMAIN hs |-> Text(hs[i])]) \o <<"CR", "LF">>

Tail_ == <<"frame", "frame">>

Init ==
    \E role \in {"client", "server"}, mech \in {"NULL", "PLAIN"}, tls \in BOOLEAN :
    \E hs \in Headers(role, mech), wrong \in 0 .. 6 :
        /\ tls => Secure /\ hs = Good(role, mech) /\ wrong = 0
        /\ wrong = 0 \/ hs = Good(role, mech)
        /\ st = [role |-> role, mech |-> mech, tls |-> tls, established |-> FALSE,
                 wrong |-> wrong, hs |-> hs,
                 wire |-> Tokens(role, wrong, hs) \o Tail_, inp |-> <<>>,
                 state |-> "initial", pos |-> 0, name |-> "", value |-> "",
                 upgrade |-> FALSE, connection |-> FALSE, key |-> "", protocol |-> "",
                 mechanisms |-> 0, next |-> "handshake", outsize |-> 0, pollout |-> FALSE,
                 plugged |-> FALSE, handshaking |-> TRUE, life |-> "open", closed |-> FALSE, after |-> FALSE, broken |-> FALSE,
                 beaten |-> FALSE, stalled |-> FALSE]

-----------------------------------------------------------------------------
(* The parsers: one token at a time.  The two first lines differ; the headers   *)
(* are read alike.                                                              *)
Fixed(s, literal, c, then) ==
    IF c # literal[s.pos + 1] THEN [s EXCEPT !.state = "error"]
    ELSE IF s.pos + 1 = Len(literal) THEN [s EXCEPT !.state = then, !.pos = 0]
    ELSE [s EXCEPT !.pos = @ + 1]

Ending == <<"CR", "LF">>

request_line(s, c) ==
    CASE s.state = "initial" -> Fixed(s, Get, c, "GET_space")
      [] s.state = "GET_space" ->
            [s EXCEPT !.state = IF c # "SP" THEN "resource" ELSE "GET_space"]
      [] s.state = "resource" ->
            [s EXCEPT !.state = IF c \in {"CR", "LF"} THEN "error"
                                ELSE IF c = "SP" THEN "version" ELSE "resource"]
      [] s.state = "version" -> Fixed(s, Version \o Ending, c, "begin_name")

response_status(s, c) == Fixed(s, SubSeq(Status, 1, 13), c, "reason")
response_reason(s, c) == Fixed(s, SubSeq(Status, 14, Len(Status)) \o Ending, c, "begin_name")
response_line(s, c) ==
    IF s.state = "initial" THEN response_status(s, c) ELSE response_reason(s, c)

header_name(s, c) ==
    IF s.state = "begin_name"
      THEN CASE c = "CR" -> [s EXCEPT !.state = "end_line_cr"]
             [] c = "LF" -> [s EXCEPT !.state = "error"]
             [] OTHER -> [s EXCEPT !.state = "name", !.name = c]
      ELSE CASE c \in {"CR", "LF", "long"} -> [s EXCEPT !.state = "error"]
             [] c = ":" -> [s EXCEPT !.state = "colon"]
             [] OTHER -> [s EXCEPT !.name = "other"]

(* select_protocol: ZWS2.0 alone goes without a mechanism, and only for NULL.   *)
Known(mech) == IF mech = "NULL" THEN {"ZWS2.0", "ZWS2.0/NULL"} ELSE {"ZWS2.0/PLAIN"}
select_protocol(s, p) ==
    [s EXCEPT !.protocol = p, !.mechanisms = IF p = "ZWS2.0" THEN @ ELSE @ + 1,
              !.next = IF p = "ZWS2.0" THEN "routing_id" ELSE @]

(* The server takes the first of a comma separated list that it knows.          *)
Listed(v) == CASE v = "ZWS2.0/NULL,ZWS2.0" -> <<"ZWS2.0/NULL", "ZWS2.0">>
               [] v = "text,ZWS2.0" -> <<"text", "ZWS2.0">>
               [] OTHER -> <<v>>
server_protocol(s) ==
    LET known == SelectSeq(Listed(s.value), LAMBDA p : p \in Known(s.mech))
    IN  IF s.protocol # "" \/ known = <<>> THEN s ELSE select_protocol(s, known[1])
client_protocol(s) ==
    IF s.value \in Known(s.mech) THEN select_protocol(s, s.value) ELSE s

header_read(s) ==
    LET t == [s EXCEPT !.state = "cr"]
    IN  CASE s.name = "upgrade" -> [t EXCEPT !.upgrade = (s.value = "websocket")]
          [] s.name = "connection" -> [t EXCEPT !.connection = (s.value = "upgrade")]
          [] s.name = Key(s.role) -> [t EXCEPT !.key = s.value]
          [] s.name = "protocol" -> IF s.role = "server" THEN server_protocol(t) ELSE client_protocol(t)
          [] OTHER -> t

header_value(s, c) ==
    CASE c = "LF" -> [s EXCEPT !.state = "error"]
      [] s.state = "colon" ->
            CASE c = "CR" -> [s EXCEPT !.state = "cr"]
              [] c = "SP" -> s
              [] OTHER -> [s EXCEPT !.state = "value", !.value = c]
      [] s.state = "value" ->
            CASE c = "CR" -> header_read(s)
              [] c = "long" -> [s EXCEPT !.state = "error"]
              [] OTHER -> [s EXCEPT !.value = "text"]
      [] s.state = "cr" -> [s EXCEPT !.state = "error"]

(* The empty line: everything must have been there; the server's answer is      *)
(* ready to be written.                                                         *)
end_line(s, c) ==
    IF c = "LF" /\ s.upgrade /\ s.connection /\ s.protocol # "" /\ s.key # ""
      THEN [s EXCEPT !.state = "complete", !.outsize = IF s.role = "server" THEN 1 ELSE @]
      ELSE [s EXCEPT !.state = "error"]

Parsed(s, c) ==
    CASE s.state \in {"begin_name", "name"} -> header_name(s, c)
      [] s.state = "cr" /\ c = "LF" -> [s EXCEPT !.state = "begin_name"]
      [] s.state \in {"colon", "value", "cr"} -> header_value(s, c)
      [] s.state = "end_line_cr" -> end_line(s, c)
      [] s.role = "server" -> request_line(s, c)
      [] OTHER -> response_line(s, c)

(* The loop over the bytes of one read, which stops at an error or the end.     *)
RECURSIVE Loop(_)
Loop(s) ==
    IF s.inp = <<>> \/ s.state \in {"error", "complete"} THEN s
    ELSE Loop([Parsed(s, Head(s.inp)) EXCEPT !.inp = Tail(s.inp)])

-----------------------------------------------------------------------------
(* error (): the engine is unplugged and deleted.                               *)
Error(s) == {[s EXCEPT !.life = "deleted", !.pollout = FALSE]}

start_ws_handshake(s) ==
    IF s.role = "client" THEN [s EXCEPT !.outsize = 1, !.pollout = TRUE] ELSE s

(* gnutls_handshake: done, wants to read or to write, or failed; outputs stop   *)
(* being polled for first when it was called from out_event.                    *)
tls_handshake(s) ==
    {[start_ws_handshake(s) EXCEPT !.established = TRUE], s, [s EXCEPT !.pollout = TRUE]}
    \cup Error(s)

(* read (): nothing yet, some tokens, or the connection is lost.                *)
Reads(s) == {[s EXCEPT !.inp = SubSeq(s.wire, 1, n), !.wire = SubSeq(s.wire, n + 1, Len(s.wire))] :
                n \in 1 .. (IF Len(s.wire) < Buffer THEN Len(s.wire) ELSE Buffer)}

(* The upgrade is complete: encoder and decoder exist, output is polled for,    *)
(* and what is left of the read is decoded.                                     *)
Handshaken(s) ==
    IF s.state = "error" THEN Error(s)
    ELSE IF s.state = "complete"
      THEN {[s EXCEPT !.handshaking = FALSE, !.pollout = TRUE]} ELSE {s}
handshake(s) == {s} \cup Error(s) \cup UNION {Handshaken(Loop(t)) : t \in Reads(s)}

(* What next_msg gives: pong, ping and close frames are made once, anything     *)
(* else comes from the session, which may have nothing.  After the close frame  *)
(* there is nothing until the next call, which ends the connection.             *)
Made(s) == [s EXCEPT !.outsize = 1, !.after = @ \/ s.closed]
Pulled(s) == {[s EXCEPT !.next = "pull"], [Made(s) EXCEPT !.next = "pull"]}
Produced(s) ==
    CASE s.next \in {"ping", "pong"} ->
            Pulled(Made(s))
      [] s.next = "close" ->
            {[Made(s) EXCEPT !.closed = TRUE, !.next = "closing"]}
      [] s.next = "closing" -> Error(s)
      [] OTHER -> Pulled(s)

(* write (): -1 stops polling for output until the input fails too; else any    *)
(* part is written.  wss_engine_t::write also answers -1 when it would block.   *)
Written(s) ==
    IF s.life = "deleted" THEN {s}
    ELSE IF s.outsize = 0 THEN {[s EXCEPT !.pollout = FALSE]}
    ELSE {[s EXCEPT !.pollout = FALSE, !.broken = TRUE]}
         \cup (IF s.tls THEN {[s EXCEPT !.pollout = FALSE, !.stalled = TRUE]} ELSE {})
         \cup {[s EXCEPT !.outsize = @ - n, !.stalled = FALSE,
                         !.pollout = @ /\ ~ (s.handshaking /\ n = s.outsize)] : n \in 0 .. s.outsize}

OutEvent(s) ==
    IF s.outsize = 0 /\ s.handshaking THEN {s}
    ELSE IF s.outsize = 0 THEN UNION {Written(t) : t \in Produced(s)}
    ELSE Written(s)

(* Frames: a ping is answered and a close frame echoed at once if the output    *)
(* buffer is free; whatever next_msg was to do is replaced.  A peer sends       *)
(* nothing behind a close frame.                                                *)
process_command_message(s, frame) ==
    CASE frame = "ping" -> OutEvent([s EXCEPT !.next = "pong"])
      [] frame = "close" -> OutEvent([s EXCEPT !.next = "close"])
      [] OTHER -> {s}

decode_and_push(s) ==
    LET t == [s EXCEPT !.inp = Tail(@)]
        last == Len(s.inp) = 1 /\ s.wire = <<>>
    IN  UNION {process_command_message(t, frame) :
                  frame \in {"data", "ping", "pong"} \cup (IF last THEN {"close"} ELSE {})}

InEvent(s) ==
    IF s.tls /\ ~ s.established THEN tls_handshake(s)
    ELSE IF s.handshaking THEN handshake(s)
    ELSE IF s.inp # <<>> THEN decode_and_push(s)
    ELSE {s} \cup Error(s) \cup UNION {decode_and_push(t) : t \in Reads(s)}

-----------------------------------------------------------------------------
plug ==
    /\ ~ st.plugged
    /\ LET s == [st EXCEPT !.plugged = TRUE]
       IN  st' \in InEvent(IF s.tls THEN s ELSE start_ws_handshake(s))

in_event ==
    /\ st.plugged /\ st.life = "open" /\ (st.wire # <<>> \/ st.inp # <<>>)
    /\ st' \in InEvent(st)

out_event ==
    /\ st.plugged /\ st.life = "open" /\ st.pollout
    /\ st' \in (IF st.tls /\ ~ st.established
                   THEN tls_handshake([st EXCEPT !.pollout = FALSE]) ELSE OutEvent(st))

(* The session has something to send: restart_output.                           *)
restart_output ==
    /\ st.plugged /\ st.life = "open" /\ ~ st.handshaking
    /\ st' \in OutEvent([st EXCEPT !.pollout = TRUE])

(* The heartbeat timer asks for a ping.                                         *)
heartbeat ==
    /\ st.plugged /\ st.life = "open" /\ ~ st.handshaking
    /\ st' \in OutEvent([st EXCEPT !.next = "ping",
                                   !.beaten = @ \/ st.next \in {"close", "closing"}])

Idle == st.plugged /\ UNCHANGED st

Next == plug \/ in_event \/ out_event \/ restart_output \/ heartbeat \/ Idle

Spec == Init /\ [][Next]_st

-----------------------------------------------------------------------------
TypeOK ==
    /\ st.life \in {"open", "deleted"} /\ st.outsize \in 0 .. 1
    /\ st.mechanisms \in 0 .. 2

(* The reference: what an upgrade must contain, read off the headers as a list. *)
Values(name) == SelectSeq(st.hs, LAMBDA h : h.name = name /\ h.value # <<>>)
LastOf(name) == LET vs == Values(name) IN IF vs = <<>> THEN <<>> ELSE vs[Len(vs)].value
Upgrades ==
    /\ st.wrong = 0 \/ (st.role = "server" /\ st.wrong = 5)
    /\ LastOf("upgrade") = <<"websocket">> /\ LastOf("connection") = <<"upgrade">>
    /\ LastOf(Key(st.role)) # <<>>
    /\ \E i \in DOMAIN st.hs : /\ st.hs[i].name = "protocol" /\ Len(st.hs[i].value) = 1
                              /\ \E p \in Range(IF st.role = "server" THEN Listed(st.hs[i].value[1])
                                                  ELSE st.hs[i].value) : p \in Known(st.mech)
    /\ \A i \in DOMAIN st.hs : "long" \notin Range(st.hs[i].value)

(* However the bytes were cut, the upgrade succeeds exactly for what a peer may *)
(* send, with a protocol of the configured mechanism and at most one mechanism  *)
(* object, and never starts frames before it.                                   *)
UpgradeAgreed ==
    /\ ~ st.handshaking => Upgrades /\ st.protocol \in Known(st.mech) /\ st.mechanisms <= 1
    /\ st.state = "error" => ~ Upgrades
    /\ st.handshaking => ~ st.closed /\ st.next \notin {"pull", "closing"}

(* No byte behind the upgrade is lost or taken for a header: when it completes, *)
(* the frames that follow are still to be decoded.                              *)
FramesKept ==
    st.state = "complete" => \E n \in 0 .. 2 : st.inp \o st.wire = SubSeq(Tail_, n + 1, 2)

(* During the handshake everything still to be written is polled for, except    *)
(* over TLS when the last write would have blocked: wss_engine_t::write answers *)
(* as if the connection were lost, and out_event stops polling.                 *)
OutputPolled ==
    st.life = "open" /\ st.handshaking /\ st.outsize > 0 =>
        st.pollout \/ st.broken \/ (st.tls /\ st.stalled)

(* After a close frame was sent no other frame follows on this connection,      *)
(* unless the heartbeat timer fired between the close frame of the peer and the *)
(* end of the connection: timer_event puts a ping in the place of next_msg.     *)
NothingAfterClose ==
    st.after => st.beaten
=============================================================================
