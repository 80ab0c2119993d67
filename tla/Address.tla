------------------------------- MODULE Address -------------------------------
(***************************************************************************)
(* How the text of an endpoint becomes an address: ip_resolver.cpp, and     *)
(* its users tcp_address.cpp, udp_address.cpp and ws_address.cpp; and the   *)
(* masks of tcp_address_mask_t.  A text is a sequence of tokens.  The       *)
(* delimiters are tokens of their own, also those inside of an IPv6         *)
(* address; the other tokens stand for runs of characters without any.     *)
(***************************************************************************)
EXTENDS Integers, Sequences, SequencesExt, TLC

CONSTANTS
    Ports,      \* the texts for a port: numbers, "*" and what is none
    MaxPort,    \* 2^16
    Bits,       \* of a byte of an address under a mask
    Ask         \* what is asked: "tcp", "udp", "ws", "mask"

VARIABLE st

None == <<>>
Numeric4 == {<<"v4">>, <<"m4">>, <<"any4">>, <<"nic4">>}
Mapped(h) == <<"mapped", ":">> \o h
Numeric6 == {<<"v6", ":", "1">>, <<"m6", ":", "1">>, <<":", ":">>, <<"nic6", ":", "1">>}
            \cup {Mapped(h) : h \in Numeric4}
Multicast == {<<"m4">>, <<"m6", ":", "1">>}     \* ip_addr_t::is_multicast
AnyAddr(six) == IF six THEN <<":", ":">> ELSE <<"any4">>
Family(ip) == IF ip \in Numeric4 THEN 4 ELSE 6
Error(e) == [ok |-> FALSE, errno |-> e]
Addr(ip, port, zone) == [ok |-> TRUE, ip |-> ip, port |-> port, zone |-> zone]

\* atoi of a text, of which only a leading number counts; the interfaces.
atoi(t) ==
    IF t = <<>> THEN 0
    ELSE CASE t[1] = "1" -> 1 [] t[1] = "2" -> 2 [] t[1] = "max" -> MaxPort - 1
           [] t[1] = "over" -> MaxPort [] t[1] = "wrap" -> MaxPort + 2 [] OTHER -> 0
\* A build for Windows asks the system for the index of an interface; in the
\* others the macros compared are both undefined, and there is none.
if_nametoindex(t, win) == IF win /\ t = <<"eth">> THEN 1 ELSE 0

-----------------------------------------------------------------------------
(* ip_resolver_t *)

LastOf(s, c) == SelectLastInSeq(s, LAMBDA t : t = c)
FirstOf(s, c) == SelectInSeq(s, LAMBDA t : t = c)
To(s, k) == SubSeq(s, 1, k)
From(s, k) == SubSeq(s, k, Len(s))

\* getaddrinfo as resolve_getaddrinfo calls it: numeric addresses, names when
\* allow_dns is set, and IPv4 addresses in the IPv6 form when IPv6 is wanted.
resolve_getaddrinfo(t, o) ==
    CASE t \in Numeric4 -> Addr(IF o.six THEN Mapped(t) ELSE t, 0, 0)
      [] t \in Numeric6 /\ o.six -> Addr(t, 0, 0)
      [] t = <<"name">> /\ o.dns -> Addr(IF o.six THEN <<"v6", ":", "1">> ELSE <<"v4">>, 0, 0)
      [] OTHER -> Error(IF o.bind THEN "ENODEV" ELSE "EINVAL")
resolve_nic_name(t, o) ==
    IF t = <<"eth">> THEN Addr(IF o.six THEN <<"nic6", ":", "1">> ELSE <<"nic4">>, 0, 0)
    ELSE Error("ENODEV")

\* The port after the last colon; -1: EINVAL.
Port(t, bind) ==
    IF t = <<"*">> THEN IF bind THEN 0 ELSE -1
    ELSE IF t = <<"0">> THEN 0
    ELSE LET port == atoi(t) % MaxPort IN IF port = 0 THEN -1 ELSE port
Truncated(t) == IF FirstOf(t, "/") = 0 THEN t ELSE To(t, FirstOf(t, "/") - 1)
Trimmed(t) == IF Len(t) >= 2 /\ t[1] = "[" /\ Last(t) = "]" THEN SubSeq(t, 2, Len(t) - 1) ELSE t
\* The interface or zone after a percent sign: 0 without one, -1: EINVAL.
Zone(t, win) ==
    LET k == LastOf(t, "%")
        name == From(t, k + 1)
        zone == IF name[1] \in {"eth", "nodev"} THEN if_nametoindex(name, win) ELSE atoi(name)
    IN  IF k = 0 THEN 0 ELSE IF zone = 0 THEN -1 ELSE zone
Unzoned(t) == IF LastOf(t, "%") = 0 THEN t ELSE To(t, LastOf(t, "%") - 1)
Host(t, o) ==
    LET nic == resolve_nic_name(t, o) IN
    CASE o.bind /\ t = <<"*">> -> Addr(AnyAddr(o.six), 0, 0)
      [] o.nic /\ nic.ok -> nic
      [] OTHER -> resolve_getaddrinfo(t, o)

Text(addr, o) == Trimmed(IF o.path THEN Truncated(addr) ELSE addr)
Completed(host, port, zone) ==
    IF port = -1 \/ zone = -1 THEN Error("EINVAL")
    ELSE IF ~host.ok THEN host
    ELSE Addr(host.ip, port, IF Family(host.ip) = 6 THEN zone ELSE 0)
Resolve(text, port, o) == Completed(Host(Unzoned(text), o), port, Zone(text, o.win))
At(name, delim, o) ==
    IF o.port /\ delim = 0 THEN Error("EINVAL")
    ELSE Resolve(Text(IF o.port THEN To(name, delim - 1) ELSE name, o),
                 IF o.port THEN Port(From(name, delim + 1), o.bind) ELSE 0, o)
ip_resolve(name, o) == At(name, LastOf(name, ":"), o)

-----------------------------------------------------------------------------
(* The addresses of the transports *)

Options(bind, six, win) ==
    [win |-> win, bind |-> bind, dns |-> ~bind, nic |-> bind, six |-> six, port |-> TRUE, path |-> FALSE]
Source(six, port, win) ==
    [win |-> win, bind |-> TRUE, dns |-> FALSE, nic |-> TRUE, six |-> six, port |-> port, path |-> FALSE]

WithSource(src, main) ==
    IF src # None /\ ~src.ok THEN src ELSE IF ~main.ok THEN main ELSE main @@ [src |-> src]
tcp_resolve(name, local, six, win) ==
    LET d == LastOf(name, ";") IN
    WithSource(IF d = 0 THEN None ELSE ip_resolve(To(name, d - 1), Source(six, TRUE, win)),
               ip_resolve(From(name, d + 1), Options(local, six, win)))
to_string(a) ==
    LET zone == IF a.zone = 0 THEN <<>> ELSE <<"%", IF a.zone = 1 THEN "eth" ELSE "2">>
        port == CASE a.port = 0 -> "0" [] a.port = 1 -> "1" [] a.port = 2 -> "2" [] OTHER -> "max"
    IN  IF Family(a.ip) = 6 THEN <<"[">> \o a.ip \o zone \o <<"]", ":", port>> ELSE a.ip \o <<":", port>>

\* The address to bind to and the one to send to; index: of the interface, -1 when
\* it is not known.
BindAddress(src, target, bind) ==
    IF src # None THEN [src EXCEPT !.port = target.port]
    ELSE IF target.ip \in Multicast \/ ~bind THEN Addr(AnyAddr(Family(target.ip) = 6), target.port, 0)
    ELSE target
Index(from, target, bind, win) ==
    IF from = None THEN IF target.ip \in Multicast \/ ~bind THEN 0 ELSE -1
    ELSE IF from = <<"*">> THEN 0
    ELSE IF if_nametoindex(from, win) = 0 THEN -1 ELSE if_nametoindex(from, win)
Bound(here, target, index, six) ==
    IF Family(here.ip) # Family(target.ip) THEN Error("EINVAL")
    ELSE IF six /\ target.ip \in Multicast /\ index < 0 THEN Error("ENODEV")
    ELSE [ok |-> TRUE, bind |-> here, target |-> target, mcast |-> target.ip \in Multicast,
          index |-> index]
Udp(from, src, target, bind, six, win) ==
    IF src # None /\ ~src.ok THEN src
    ELSE IF src # None /\ src.ip \in Multicast THEN Error("EINVAL")
    ELSE IF ~target.ok THEN target
    ELSE IF src # None /\ target.ip \notin Multicast THEN Error("EINVAL")
    ELSE Bound(BindAddress(src, target, bind), target, Index(from, target, bind, win), six)
udp_resolve(name, bind, six, win) ==
    LET d == LastOf(name, ";") IN
    Udp(To(name, d - 1), IF d = 0 THEN None ELSE ip_resolve(To(name, d - 1), Source(six, FALSE, win)),
        ip_resolve(From(name, d + 1), Options(bind, six, win)), bind, six, win)

\* The path is the text from the last slash.
WithPath(a, path) == IF a.ok THEN a @@ [path |-> path] ELSE a
ws_resolve(name, local, six, win) ==
    LET d == LastOf(name, "/") IN
    IF LastOf(name, ":") = 0 THEN Error("EINVAL")
    ELSE WithPath(ip_resolve(IF d = 0 THEN name ELSE To(name, d - 1),
                             [Options(local, six, win) EXCEPT !.path = TRUE]),
                  IF d = 0 THEN <<"/">> ELSE From(name, d))

\* tcp_address_mask_t: the network, and the number of its bits, all without one.
FullMask(a) == IF Family(a.ip) = 6 THEN 4 * Bits ELSE 2 * Bits
WithMask(a, d, text) ==
    IF ~a.ok THEN a
    ELSE IF d = 0 THEN a @@ [mask |-> FullMask(a)]
    ELSE IF text = <<"0">> THEN a @@ [mask |-> 0]
    ELSE IF atoi(text) < 1 \/ atoi(text) > FullMask(a) THEN Error("EINVAL")
    ELSE a @@ [mask |-> atoi(text)]
mask_resolve(name, six, win) ==
    LET d == LastOf(name, "/") IN
    IF d = Len(name) /\ d # 0 THEN Error("EINVAL")
    ELSE WithMask(ip_resolve(IF d = 0 THEN name ELSE To(name, d - 1),
                             [Options(FALSE, six, win) EXCEPT !.dns = FALSE, !.port = FALSE]),
                  d, From(name, d + 1))
\* The whole bytes under the mask, then the bits of the next one.
match_address(ours, theirs, mask) ==
    LET full == mask \div Bits
        rest == mask % Bits
        last == ((2 ^ Bits - 1) * 2 ^ (Bits - rest)) % (2 ^ Bits)
        And(b) == b - (b % (2 ^ (Bits - rest)))
    IN  \/ mask = 0
        \/ /\ \A k \in 1..full : ours[k] = theirs[k]
           /\ last # 0 => And(ours[full + 1]) = And(theirs[full + 1])

-----------------------------------------------------------------------------
\* What the user writes: a host, in brackets when it has colons, a zone, a port, a
\* source or interface before a semicolon, a path.
Hosts == {<<"v4">>, <<"m4">>, <<"v6", ":", "1">>, <<"m6", ":", "1">>, <<"eth">>, <<"name">>,
          <<"*">>, None}
Zones == {None, <<"%", "eth">>, <<"%", "2">>, <<"%", "nodev">>}
Sources == {None, <<"*">>, <<"eth">>, <<"v4">>, <<"[", "v6", ":", "1", "]">>}
Paths == {None, <<"/", "a">>}
Bracketed(h, z) == IF LastOf(h, ":") = 0 THEN h \o z ELSE <<"[">> \o h \o z \o <<"]">>
Written(a) ==
    LET host == Bracketed(a.host, a.zone)
        src == IF a.src = None THEN <<>>
               ELSE IF a.kind = "tcp" THEN a.src \o <<":", "0", ";">> ELSE a.src \o <<";">>
    IN  IF a.kind = "mask" THEN host \o (IF a.port = "" THEN <<>> ELSE <<"/", a.port>>)
        ELSE src \o host \o (IF a.port = "" THEN <<>> ELSE <<":", a.port>>) \o a.path

Asked ==
    {a \in [kind : Ask, win : BOOLEAN, local : BOOLEAN, six : BOOLEAN, host : Hosts, zone : Zones,
            port : Ports \cup {""}, src : Sources, path : Paths] :
        /\ a.src # None => a.kind \in {"tcp", "udp"} /\ a.zone = None /\ a.port # ""
        /\ a.path # None => a.kind = "ws"
        /\ a.kind = "mask" => ~a.local}
Init == st \in {[ask |-> a, out |-> None] : a \in Asked}
Resolved(a) ==
    CASE a.kind = "tcp" -> tcp_resolve(Written(a), a.local, a.six, a.win)
      [] a.kind = "udp" -> udp_resolve(Written(a), a.local, a.six, a.win)
      [] a.kind = "ws" -> ws_resolve(Written(a), a.local, a.six, a.win)
      [] a.kind = "mask" -> mask_resolve(Written(a), a.six, a.win)
resolve == st.out = None /\ st' = [st EXCEPT !.out = Resolved(st.ask)]

Next == resolve

-----------------------------------------------------------------------------
\* The number a port text stands for: -1 for none.  (What is above 16 bits the
\* code takes modulo 2^16.)
Number(p, local) == CASE p = "0" -> 0 [] p = "*" -> IF local THEN 0 ELSE -1
                      [] p \in {"1", "2", "max"} -> atoi(<<p>>)
                      [] OTHER -> -1
\* The address a host stands for in the family that is wanted.
Meant(a) ==
    CASE a.host = <<"*">> -> IF a.local THEN AnyAddr(a.six) ELSE None
      [] a.host = <<"eth">> -> IF ~a.local THEN None ELSE IF a.six THEN <<"nic6", ":", "1">> ELSE <<"nic4">>
      [] a.host = <<"name">> -> IF a.local THEN None ELSE IF a.six THEN <<"v6", ":", "1">> ELSE <<"v4">>
      [] a.host \in Numeric4 -> IF a.six THEN Mapped(a.host) ELSE a.host
      [] a.host \in Numeric6 -> IF a.six THEN a.host ELSE None
      [] OTHER -> None

\* A text resolves to what its parts mean, whichever delimiters they contain, or
\* not at all (ip_resolver_t::resolve and its callers); a WebSocket keeps its path.
\* Only a build for Windows knows a zone by its name.
ResolvedAsMeant ==
    st.out # None /\ st.ask.kind \in {"tcp", "ws"} /\ st.ask.src = None /\ st.ask.port # "wrap" =>
        LET a == st.ask
            good == /\ Meant(a) # None /\ Number(a.port, a.local) >= 0
                    /\ a.zone \in {None, <<"%", "2">>} \/ (a.win /\ a.zone = <<"%", "eth">>)
        IN  /\ st.out.ok <=> good
            /\ good => /\ st.out.ip = Meant(a) /\ st.out.port = Number(a.port, a.local)
                       /\ a.six /\ a.zone # None => st.out.zone = IF a.zone[2] = "eth" THEN 1 ELSE 2
                       /\ a.kind = "ws" => st.out.path = IF a.path = None THEN <<"/">> ELSE a.path

SameAddress(a, b) == a.ok /\ a.ip = b.ip /\ a.port = b.port /\ a.zone = b.zone

\* What to_string writes of an address resolves to the same address again, to bind
\* to it or to connect to it (tcp_address_t, ZMQ_LAST_ENDPOINT).
RoundTrip ==
    st.out # None /\ st.ask.kind = "tcp" /\ st.out.ok =>
        \A local \in BOOLEAN :
            SameAddress(tcp_resolve(to_string(st.out), local, st.ask.six, st.ask.win), st.out)

\* A UDP engine binds to an address of one interface or of all, never to a group;
\* it binds and sends in the same family and to the same port; an IPv6 group has
\* its interface (udp_address_t::resolve).
UdpBindsToHost ==
    st.out # None /\ st.ask.kind = "udp" /\ st.out.ok =>
        LET o == st.out IN
        /\ o.bind.ip \notin Multicast /\ o.mcast = (o.target.ip \in Multicast)
        /\ o.bind.port = o.target.port /\ Family(o.bind.ip) = Family(o.target.ip)
        /\ o.mcast /\ st.ask.six => o.index >= 0
        /\ ~o.mcast /\ st.ask.local => o.bind = o.target

\* An address matches a mask when its first bits are those of the network.
Bit(bytes, k) == (bytes[1 + k \div Bits] \div 2 ^ ((Bits - 1) - (k % Bits))) % 2
MaskMatches ==
    st.out # None /\ st.ask.kind = "mask" /\ st.out.ok =>
        LET n == IF Family(st.out.ip) = 6 THEN 4 ELSE 2
            ours == [k \in 1..n |-> IF k = 2 THEN 2 ^ Bits - 1 ELSE 1]
        IN  /\ st.out.mask \in 0..(n * Bits)
            /\ \A d \in 0..(n * Bits - 1) :
                  LET b == 1 + d \div Bits
                      bit == 2 ^ ((Bits - 1) - (d % Bits))
                      flipped == [ours EXCEPT ![b] = IF Bit(ours, d) = 1 THEN @ - bit ELSE @ + bit]
                  IN  match_address(ours, flipped, st.out.mask) <=> d >= st.out.mask
=============================================================================
