------------------------------ MODULE Options --------------------------------
(***************************************************************************)
(* options_t (options.cpp) with the options of a context (ctx.cpp): what    *)
(* zmq_setsockopt and zmq_ctx_set accept, convert and keep, and what        *)
(* zmq_getsockopt and zmq_ctx_get return.  Options are named without ZMQ_,  *)
(* those of a context that share a name with CTX_.  A value is the bytes    *)
(* the caller passes: their size, whether the pointer is NULL, the integer  *)
(* and the text they hold.                                                  *)
(***************************************************************************)
EXTENDS Integers, Sequences, FiniteSets

CONSTANTS
    Settable,  \* the options that are set
    Ints,      \* the integers tried
    Texts,     \* the texts tried, <<size, text>>; sizes 4 and 8 are integers
    MaxFds,    \* of the poller, -1 without limit
    MaxCalls   \* bound: calls that succeeded

VARIABLE st

UcharMax == 255
Uint16Max == 65535
Deciseconds == 100
BindDevSize == 16

Bytes(size, null, int, text) == [size |-> size, null |-> null, int |-> int, text |-> text]
Empty == [size |-> 0, text |-> ""]
Stored(a) == [size |-> a.size, text |-> a.text]
is_int(a) == a.size = 4
Ok(o) == [rc |-> 0, o |-> o]
sockopt_invalid(o) == [rc |-> -1, o |-> o]
Accept(o, opt, p, v) == IF p THEN Ok([o EXCEPT ![opt] = v]) ELSE sockopt_invalid(o)

-----------------------------------------------------------------------------
(* The converting helpers.                                                   *)

do_setsockopt(o, opt, a, size) == Accept(o, opt, a.size = size, a.int)
do_setsockopt_int_as_bool_strict(o, opt, a) == Accept(o, opt, is_int(a) /\ a.int \in {0, 1}, a.int)
Bool(v) == IF v # 0 THEN 1 ELSE 0
do_setsockopt_int_as_bool_relaxed(o, opt, a) == Accept(o, opt, is_int(a), Bool(a.int))
do_setsockopt_string_allow_empty_strict(o, opt, a, max) ==
    Accept(o, opt, (a.size = 0 /\ a.null) \/ (a.size \in 1..max /\ ~a.null), Stored(a))
do_setsockopt_string_allow_empty_relaxed(o, opt, a, max) ==
    Accept(o, opt, a.size \in 1..max, Stored(a))
do_setsockopt_set(o, opt, a) ==
    IF a.size = 0 /\ a.null THEN Ok([o EXCEPT ![opt] = {}])
    ELSE Accept(o, opt, is_int(a) /\ ~a.null, o[opt] \cup {a.int})
\* At least min, where the code has is_int && value >= min.
AtLeast(o, opt, a, min) == Accept(o, opt, is_int(a) /\ a.int >= min, a.int)
\* A text that does not decode has overwritten the key as far as it did.
set_curve_key(o, opt, a) ==
    IF a.size = 32 \/ (a.size \in {40, 41} /\ a.text # "bad")
    THEN Ok([o EXCEPT ![opt] = a.text, !.mechanism = "CURVE"])
    ELSE [rc |-> -1, o |-> [o EXCEPT ![opt] = IF a.size \in {40, 41} THEN "torn" ELSE @]]
\* C++ divides towards 0.
Truncated(v, d) == IF v < 0 THEN -((-v) \div d) ELSE v \div d

-----------------------------------------------------------------------------
(* setsockopt, in the order of its cases.                                    *)

Least == [SNDHWM |-> 0, RCVHWM |-> 0, RATE |-> 1, RECOVERY_IVL |-> 0, SNDBUF |-> -1,
          RCVBUF |-> -1, TOS |-> 0, LINGER |-> -1, CONNECT_TIMEOUT |-> 0, TCP_MAXRT |-> 0,
          RECONNECT_IVL |-> -1, RECONNECT_IVL_MAX |-> 0, BACKLOG |-> 0, MULTICAST_HOPS |-> 1,
          MULTICAST_MAXTPDU |-> 1, RCVTIMEO |-> -1, SNDTIMEO |-> -1]
SocketOptions == DOMAIN Least \cup {"AFFINITY", "MAXMSGSIZE", "ROUTING_ID"}
set_socket(o, opt, a) ==
    CASE opt \in DOMAIN Least -> AtLeast(o, opt, a, Least[opt])
      [] opt \in {"AFFINITY", "MAXMSGSIZE"} -> do_setsockopt(o, opt, a, 8)
      [] opt = "ROUTING_ID" -> Accept(o, opt, a.size \in 1..UcharMax, Stored(a))

KeepAlive == {"TCP_KEEPALIVE_CNT", "TCP_KEEPALIVE_IDLE", "TCP_KEEPALIVE_INTVL"}
Socks == {"SOCKS_USERNAME", "SOCKS_PASSWORD"}
IpOptions == KeepAlive \cup Socks \cup
             {"IPV4ONLY", "IPV6", "SOCKS_PROXY", "TCP_KEEPALIVE", "IMMEDIATE"}
set_ip(o, opt, a) ==
    CASE opt = "IPV4ONLY" -> Accept(o, "IPV6", is_int(a) /\ a.int \in {0, 1}, 1 - a.int)
      [] opt = "IPV6" -> do_setsockopt_int_as_bool_strict(o, opt, a)
      [] opt = "SOCKS_PROXY" -> do_setsockopt_string_allow_empty_strict(o, opt, a, a.size)
      [] opt \in Socks -> IF a.null \/ a.size = 0 THEN Ok([o EXCEPT ![opt] = Empty])
                          ELSE do_setsockopt_string_allow_empty_strict(o, opt, a, UcharMax)
      [] opt = "TCP_KEEPALIVE" -> Accept(o, opt, is_int(a) /\ a.int \in -1..1, a.int)
      [] opt \in KeepAlive -> AtLeast(o, opt, a, -1)
      [] opt = "IMMEDIATE" -> Accept(o, opt, is_int(a) /\ a.int \in {0, 1}, a.int)

IpcFilters == {"IPC_FILTER_UID", "IPC_FILTER_GID", "IPC_FILTER_PID"}
FilterOptions == IpcFilters \cup {"TCP_ACCEPT_FILTER"}
\* tcp_address_mask_t::resolve
Resolves(text, ipv6) == text = "mask4" \/ (text = "mask6" /\ ipv6 = 1)
set_filter(o, opt, a) ==
    IF opt \in IpcFilters THEN do_setsockopt_set(o, opt, a)
    ELSE IF a.size = 0 /\ a.null THEN Ok([o EXCEPT ![opt] = <<>>])
    ELSE Accept(o, opt, /\ a.size \in 1..UcharMax /\ ~a.null
                        /\ Resolves(a.text, o["IPV6"]), Append(o[opt], a.text))

Secrets == {"PLAIN_USERNAME", "PLAIN_PASSWORD"}
PlainOptions == Secrets \cup {"PLAIN_SERVER", "ZAP_DOMAIN"}
set_plain(o, opt, a) ==
    CASE opt = "PLAIN_SERVER" ->
           IF is_int(a) /\ a.int \in {0, 1}
           THEN Ok([o EXCEPT !.as_server = a.int,
                             !.mechanism = IF a.int = 1 THEN "PLAIN" ELSE "NULL"])
           ELSE sockopt_invalid(o)
      [] opt \in Secrets ->
           IF a.size = 0 /\ a.null THEN Ok([o EXCEPT !.mechanism = "NULL"])
           ELSE IF a.size \in 1..UcharMax /\ ~a.null
           THEN Ok([o EXCEPT ![opt] = Stored(a), !.as_server = 0, !.mechanism = "PLAIN"])
           ELSE sockopt_invalid(o)
      [] opt = "ZAP_DOMAIN" -> do_setsockopt_string_allow_empty_relaxed(o, opt, a, UcharMax)

CurveKeys == {"CURVE_PUBLICKEY", "CURVE_SECRETKEY", "CURVE_SERVERKEY"}
CurveOptions == CurveKeys \cup {"CURVE_SERVER"}
set_curve(o, opt, a) ==
    IF opt = "CURVE_SERVER"
    THEN IF is_int(a) /\ a.int \in {0, 1}
         THEN Ok([o EXCEPT !.as_server = a.int,
                           !.mechanism = IF a.int = 1 THEN "CURVE" ELSE "NULL"])
         ELSE sockopt_invalid(o)
    ELSE LET r == set_curve_key(o, opt, a) IN
         IF r.rc = 0 /\ opt = "CURVE_SERVERKEY" THEN Ok([r.o EXCEPT !.as_server = 0]) ELSE r

Principals == {"GSSAPI_PRINCIPAL", "GSSAPI_SERVICE_PRINCIPAL"}
NameTypes == {"GSSAPI_PRINCIPAL_NAMETYPE", "GSSAPI_SERVICE_PRINCIPAL_NAMETYPE"}
GssapiOptions == Principals \cup NameTypes \cup
                 {"CONFLATE", "GSSAPI_SERVER", "GSSAPI_PLAINTEXT"}
set_gssapi(o, opt, a) ==
    CASE opt \in {"CONFLATE", "GSSAPI_PLAINTEXT"} -> do_setsockopt_int_as_bool_strict(o, opt, a)
      [] opt = "GSSAPI_SERVER" ->
           IF is_int(a) /\ a.int \in {0, 1}
           THEN Ok([o EXCEPT !.as_server = a.int, !.mechanism = "GSSAPI"])
           ELSE sockopt_invalid(o)
      [] opt \in Principals ->
           IF a.size \in 1..UcharMax /\ ~a.null
           THEN Ok([o EXCEPT ![opt] = Stored(a), !.mechanism = "GSSAPI",
                             !.as_server = IF opt = "GSSAPI_SERVICE_PRINCIPAL" THEN 0 ELSE @])
           ELSE sockopt_invalid(o)
      [] opt \in NameTypes -> Accept(o, opt, is_int(a) /\ a.int \in 0..2, a.int)

LeastTime == [HANDSHAKE_IVL |-> 0, HEARTBEAT_IVL |-> 0, HEARTBEAT_TIMEOUT |-> 0, USE_FD |-> -1]
Vmci == [VMCI_BUFFER_SIZE |-> 8, VMCI_BUFFER_MIN_SIZE |-> 8, VMCI_BUFFER_MAX_SIZE |-> 8,
         VMCI_CONNECT_TIMEOUT |-> 4]
Relaxed == {"INVERT_MATCHING", "ZAP_ENFORCE_DOMAIN", "LOOPBACK_FASTPATH"}
TimeOptions == DOMAIN LeastTime \cup DOMAIN Vmci \cup Relaxed \cup {"HEARTBEAT_TTL", "BINDTODEVICE"}
set_time(o, opt, a) ==
    CASE opt \in DOMAIN LeastTime -> AtLeast(o, opt, a, LeastTime[opt])
      [] opt \in DOMAIN Vmci -> do_setsockopt(o, opt, a, Vmci[opt])
      [] opt \in Relaxed -> do_setsockopt_int_as_bool_relaxed(o, opt, a)
      [] opt = "HEARTBEAT_TTL" -> LET v == Truncated(a.int, Deciseconds) IN
                                  Accept(o, opt, is_int(a) /\ v \in 0..Uint16Max, v)
      [] opt = "BINDTODEVICE" -> do_setsockopt_string_allow_empty_strict(o, opt, a, BindDevSize)

Wss == {"WSS_KEY_PEM", "WSS_CERT_PEM", "WSS_TRUST_PEM", "WSS_HOSTNAME"}
LastOptions == Wss \cup {"METADATA", "MULTICAST_LOOP", "IN_BATCH_SIZE", "OUT_BATCH_SIZE",
                         "WSS_TRUST_SYSTEM"}
\* std::map::insert keeps the value a key has.
set_last(o, opt, a) ==
    CASE opt = "METADATA" ->
           IF a.size > 0 /\ ~is_int(a) /\ a.text \in {"X-a:1", "X-a:2"}
           THEN Ok([o EXCEPT ![opt] = IF @ = {} THEN {a.text} ELSE @])
           ELSE sockopt_invalid(o)
      [] opt = "MULTICAST_LOOP" -> do_setsockopt_int_as_bool_relaxed(o, opt, a)
      [] opt \in {"IN_BATCH_SIZE", "OUT_BATCH_SIZE"} -> AtLeast(o, opt, a, 1)
      [] opt \in Wss -> Ok([o EXCEPT ![opt] = Stored(a)])
      [] opt = "WSS_TRUST_SYSTEM" -> do_setsockopt_int_as_bool_strict(o, opt, a)

-----------------------------------------------------------------------------
(* The options of a context.                                                 *)

clipped_maxsocket(v) == IF v >= MaxFds /\ MaxFds # -1 THEN MaxFds - 1 ELSE v
CtxBools == {"CTX_IPV6", "BLOCKY", "ZERO_COPY_RECV"}
CtxOptions == CtxBools \cup {"MAX_SOCKETS", "IO_THREADS", "MAX_MSGSZ"}
ctx_set(o, opt, a) ==
    CASE opt = "MAX_SOCKETS" ->
           Accept(o, opt, is_int(a) /\ a.int >= 1 /\ a.int = clipped_maxsocket(a.int), a.int)
      [] opt \in {"IO_THREADS", "MAX_MSGSZ"} -> AtLeast(o, opt, a, 0)
      [] opt \in CtxBools -> Accept(o, opt, is_int(a) /\ a.int >= 0, Bool(a.int))
ThreadOptions == {"THREAD_SCHED_POLICY", "THREAD_PRIORITY", "THREAD_AFFINITY_CPU_ADD",
                  "THREAD_AFFINITY_CPU_REMOVE", "THREAD_NAME_PREFIX"}
\* An integer is kept as its digits.
thread_set(o, opt, a) ==
    CASE opt \in {"THREAD_SCHED_POLICY", "THREAD_PRIORITY"} -> AtLeast(o, opt, a, 0)
      [] opt = "THREAD_AFFINITY_CPU_ADD" ->
           Accept(o, "cpus", is_int(a) /\ a.int >= 0, o.cpus \cup {a.int})
      [] opt = "THREAD_AFFINITY_CPU_REMOVE" ->
           Accept(o, "cpus", is_int(a) /\ a.int \in o.cpus, o.cpus \ {a.int})
      [] opt = "THREAD_NAME_PREFIX" ->
           IF is_int(a) THEN Ok([o EXCEPT ![opt] = [size |-> 1, text |-> "", int |-> a.int]])
           ELSE Accept(o, opt, a.size \in 1..16, [size |-> a.size, text |-> a.text, int |-> 0])

setsockopt(o, opt, a) ==
    CASE opt \in SocketOptions -> set_socket(o, opt, a)
      [] opt \in IpOptions -> set_ip(o, opt, a)
      [] opt \in FilterOptions -> set_filter(o, opt, a)
      [] opt \in PlainOptions -> set_plain(o, opt, a)
      [] opt \in CurveOptions -> set_curve(o, opt, a)
      [] opt \in GssapiOptions -> set_gssapi(o, opt, a)
      [] opt \in TimeOptions -> set_time(o, opt, a)
      [] opt \in LastOptions -> set_last(o, opt, a)
      [] opt \in CtxOptions -> ctx_set(o, opt, a)
      [] opt \in ThreadOptions -> thread_set(o, opt, a)
      [] OTHER -> sockopt_invalid(o)

-----------------------------------------------------------------------------
(* getsockopt into n bytes: the size and the integer or text returned.       *)

Got(size, int, text) == [rc |-> 0, size |-> size, int |-> int, text |-> text]
NotGot == [rc |-> -1, size |-> 0, int |-> 0, text |-> ""]
get_int(v, n) == IF n = 4 THEN Got(4, v, "") ELSE NotGot
do_getsockopt(v, n) == IF n < v.size THEN NotGot ELSE Got(v.size, 0, v.text)
\* A string is returned with its terminating 0.
get_string(v, n) == do_getsockopt([v EXCEPT !.size = @ + 1], n)
do_getsockopt_curve_key(k, n) == IF n \in {32, 41} THEN Got(n, 0, k) ELSE NotGot
get_server(o, mechanism, n) == get_int(IF o.as_server = 1 /\ o.mechanism = mechanism THEN 1 ELSE 0, n)

get_socket(o, opt, n) ==
    CASE opt \in {"AFFINITY", "MAXMSGSIZE"} -> IF n = 8 THEN Got(8, o[opt], "") ELSE NotGot
      [] opt = "ROUTING_ID" -> do_getsockopt(o[opt], n)
      [] OTHER -> get_int(o[opt], n)
get_ip(o, opt, n) ==
    CASE opt = "IPV4ONLY" -> get_int(1 - o["IPV6"], n)
      [] opt \in Socks \cup {"SOCKS_PROXY"} -> get_string(o[opt], n)
      [] OTHER -> get_int(o[opt], n)
get_security(o, opt, n) ==
    CASE opt = "PLAIN_SERVER" -> get_server(o, "PLAIN", n)
      [] opt \in Secrets \cup {"ZAP_DOMAIN"} -> get_string(o[opt], n)
      [] opt = "CURVE_SERVER" -> get_server(o, "CURVE", n)
      [] opt \in CurveKeys -> do_getsockopt_curve_key(o[opt], n)
get_gssapi(o, opt, n) ==
    CASE opt = "GSSAPI_SERVER" -> get_server(o, "GSSAPI", n)
      [] opt \in Principals -> get_string(o[opt], n)
      [] OTHER -> get_int(o[opt], n)
get_time(o, opt, n) ==
    CASE opt = "HEARTBEAT_TTL" -> get_int(o[opt] * Deciseconds, n)
      [] opt = "BINDTODEVICE" -> get_string(o[opt], n)
      [] OTHER -> get_int(o[opt], n)
ctx_get(o, opt, n) == get_int(o[opt], n)
\* atoi of a text is 0.  A name is returned without its size.
thread_get(o, opt, n) ==
    IF opt = "THREAD_NAME_PREFIX" /\ n # 4
    THEN IF n >= o[opt].size THEN Got(o[opt].size, 0, o[opt].text) ELSE NotGot
    ELSE get_int(IF opt = "THREAD_NAME_PREFIX" THEN o[opt].int ELSE o[opt], n)

Unreadable == FilterOptions \cup DOMAIN Vmci \cup Wss \cup
              {"METADATA", "WSS_TRUST_SYSTEM", "THREAD_PRIORITY", "THREAD_AFFINITY_CPU_ADD",
               "THREAD_AFFINITY_CPU_REMOVE"}
getsockopt(o, opt, n) ==
    CASE opt \in Unreadable -> NotGot
      [] opt \in SocketOptions -> get_socket(o, opt, n)
      [] opt \in IpOptions -> get_ip(o, opt, n)
      [] opt \in PlainOptions \cup CurveOptions -> get_security(o, opt, n)
      [] opt \in GssapiOptions -> get_gssapi(o, opt, n)
      [] opt \in TimeOptions \cup LastOptions -> get_time(o, opt, n)
      [] opt \in CtxOptions -> ctx_get(o, opt, n)
      [] opt \in ThreadOptions -> thread_get(o, opt, n)

-----------------------------------------------------------------------------
Strings == Socks \cup Secrets \cup Principals \cup Wss \cup
           {"ROUTING_ID", "SOCKS_PROXY", "ZAP_DOMAIN", "BINDTODEVICE"}
Minus1 == {"SNDBUF", "RCVBUF", "LINGER", "MAXMSGSIZE", "RCVTIMEO", "SNDTIMEO", "TCP_KEEPALIVE",
           "HEARTBEAT_TIMEOUT", "USE_FD", "VMCI_CONNECT_TIMEOUT", "THREAD_SCHED_POLICY",
           "THREAD_PRIORITY"} \cup KeepAlive
Numbers == [SNDHWM |-> 1000, RCVHWM |-> 1000, RATE |-> 100, RECOVERY_IVL |-> 10000,
            MULTICAST_HOPS |-> 1, MULTICAST_MAXTPDU |-> 1500, RECONNECT_IVL |-> 100,
            BACKLOG |-> 100, HANDSHAKE_IVL |-> 30000, MULTICAST_LOOP |-> 1,
            IN_BATCH_SIZE |-> 8192, OUT_BATCH_SIZE |-> 8192]
\* ctx_t::ctx_t
CtxNumbers == [MAX_SOCKETS |-> clipped_maxsocket(1023), IO_THREADS |-> 1, BLOCKY |-> 1,
               MAX_MSGSZ |-> 2147483647, ZERO_COPY_RECV |-> 1]
Options == UNION {SocketOptions, IpOptions, FilterOptions, PlainOptions, CurveOptions,
                  GssapiOptions, TimeOptions, LastOptions, CtxOptions, ThreadOptions}
options_t ==
    [f \in Options \cup {"mechanism", "as_server", "cpus"} |->
       CASE f \in Strings -> Empty
         [] f \in Minus1 -> -1
         [] f \in DOMAIN Numbers -> Numbers[f]
         [] f \in DOMAIN CtxNumbers -> CtxNumbers[f]
         [] f \in CurveKeys -> "zero"
         [] f \in IpcFilters \cup {"METADATA", "cpus"} -> {}
         [] f = "TCP_ACCEPT_FILTER" -> <<>>
         [] f = "mechanism" -> "NULL"
         [] f = "THREAD_NAME_PREFIX" -> [size |-> 0, text |-> "", int |-> 0]
         [] OTHER -> 0]

Values == {Bytes(4, FALSE, v, "") : v \in Ints} \cup {Bytes(8, FALSE, v, "") : v \in {-1, 1}}
          \cup {Bytes(0, TRUE, 0, ""), Bytes(0, FALSE, 0, "")}
          \cup {Bytes(t[1], FALSE, 0, t[2]) : t \in Texts}

\* The role in a mechanism that setting an option asks for.
Role(opt, a) ==
    LET side(v) == IF v = 1 THEN "server" ELSE "client" IN
    CASE opt \in {"PLAIN_SERVER", "CURVE_SERVER"} /\ a.int = 0 -> {}
      [] opt = "PLAIN_SERVER" -> {<<"PLAIN", "server">>}
      [] opt = "CURVE_SERVER" -> {<<"CURVE", "server">>}
      [] opt = "GSSAPI_SERVER" -> {<<"GSSAPI", side(a.int)>>}
      [] opt \in Secrets -> IF a.null THEN {} ELSE {<<"PLAIN", "client">>}
      [] opt = "CURVE_SERVERKEY" -> {<<"CURVE", "client">>}
      [] opt \in CurveKeys -> {<<"CURVE", "any">>}
      [] opt = "GSSAPI_SERVICE_PRINCIPAL" -> {<<"GSSAPI", "client">>}
      [] opt = "GSSAPI_PRINCIPAL" -> {<<"GSSAPI", "any">>}
Roles == Secrets \cup CurveOptions \cup Principals \cup {"PLAIN_SERVER", "GSSAPI_SERVER"}

\* asked: the roles asked for since security was reset to NULL.
Init == st = [o |-> options_t, asked |-> {}, calls |-> 0]

Set(opt, a) ==
    LET r == setsockopt(st.o, opt, a) IN
    /\ st.calls < MaxCalls /\ r.rc = 0
    /\ st' = [o |-> r.o, calls |-> st.calls + 1,
              asked |-> IF opt \notin Roles THEN st.asked
                        ELSE IF Role(opt, a) = {} THEN {} ELSE st.asked \cup Role(opt, a)]
\* A refused call, which may have spoilt a key.
SetFails(opt, a) ==
    LET r == setsockopt(st.o, opt, a) IN
    /\ st.calls < MaxCalls /\ r.rc = -1 /\ r.o # st.o
    /\ st' = [st EXCEPT !.o = r.o, !.calls = @ + 1]

Next == \E opt \in Settable, a \in Values : Set(opt, a) \/ SetFails(opt, a)

Spec == Init /\ [][Next]_st

-----------------------------------------------------------------------------
\* What getsockopt should return after opt was set to a.
Meant(opt, a) ==
    CASE opt = "HEARTBEAT_TTL" -> [int |-> Deciseconds * Truncated(a.int, Deciseconds), text |-> ""]
      [] opt \in Relaxed \cup CtxBools \cup {"MULTICAST_LOOP"} ->
           [int |-> IF a.int = 0 THEN 0 ELSE 1, text |-> ""]
      [] opt \in Strings \/ (opt = "THREAD_NAME_PREFIX" /\ ~is_int(a)) ->
           [int |-> 0, text |-> a.text]
      [] OTHER -> [int |-> a.int, text |-> a.text]
\* The sizes of buffers in which the value may be returned.
Sizes(opt, a) ==
    CASE opt \in CurveKeys -> {32, 41}
      [] opt = "THREAD_NAME_PREFIX" /\ is_int(a) -> {4}
      [] opt \in Strings -> {UcharMax + 2}
      [] OTHER -> {a.size}

\* An option that was set is read as it was set, converted to what it means: a
\* truth value, whole deciseconds, a key that was given as text or as bytes.  A
\* refused call changes nothing, except that a malformed key overwrites part of
\* the key (options_t::setsockopt and getsockopt, ctx_t::set and get).
ReadAsSet ==
    \A opt \in Settable, a \in Values :
        LET r == setsockopt(st.o, opt, a) IN
        IF r.rc = 0
        THEN \/ opt \in Unreadable \/ (opt \in Secrets /\ a.null)
             \/ \A n \in Sizes(opt, a) :
                    LET g == getsockopt(r.o, opt, n) IN
                    g.rc = 0 /\ [int |-> g.int, text |-> g.text] = Meant(opt, a)
        ELSE r.o = st.o \/ (opt \in CurveKeys /\ r.o = [st.o EXCEPT ![opt] = "torn"])

\* The security mechanism and the role are those asked for, in whatever order
\* their options are set, when all that was asked since the last reset agrees;
\* without any, security is NULL (set_plain, set_curve, set_gssapi).
RolesAsAsked ==
    /\ st.asked = {} => st.o.mechanism = "NULL"
    /\ \A m \in {"PLAIN", "CURVE", "GSSAPI"}, r \in {"client", "server"} :
        <<m, r>> \in st.asked /\ st.asked \subseteq {<<m, r>>, <<m, "any">>} =>
            st.o.mechanism = m /\ st.o.as_server = (IF r = "server" THEN 1 ELSE 0)
=============================================================================
