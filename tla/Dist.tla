-------------------------------- MODULE Dist --------------------------------
(***************************************************************************)
(* dist_t (dist.cpp), which sends each message of an XPUB or RADIO socket  *)
(* to the matching pipes, and each subscription of an XSUB socket to all.  *)
(* The array holds the matching pipes, then the other active ones, then    *)
(* the other eligible ones, then the passive ones.                         *)
(***************************************************************************)
EXTENDS PipeArray, FiniteSets

CONSTANTS
    Pipe,
    MaxParts,  \* bounds: MaxParts[i] is the parts of the i-th message sent
    Hiccups    \* TRUE: the pipes are an XSUB socket's and may hiccup

VARIABLES
    d, more,   \* dist_t: [ps, mat, act, eli] is _pipes, _matching, _active,
               \* _eligible
    status, outActive, full, fresh, peer,  \* the pipes, as in Lb
    msg, part, \* the message and the part the socket sends next
    targets,   \* the pipes that were to get the current or last message
    torn       \* history: the pipes that refused a later part of a message while
               \* open, and keep its first parts (write does not roll back), or
               \* lost these by a hiccup and are sent the rest

vars == <<d, more, status, outActive, full, fresh, peer, msg, part, targets, torn>>

Init ==
    /\ d = [ps |-> <<>>, mat |-> 0, act |-> 0, eli |-> 0] /\ more = FALSE
    /\ status = [p \in Pipe |-> "new"] /\ outActive = [p \in Pipe |-> TRUE]
    /\ full = [p \in Pipe |-> FALSE]
    /\ fresh = [p \in Pipe |-> <<>>] /\ peer = [p \in Pipe |-> <<>>]
    /\ msg = 1 /\ part = 1 /\ targets = {} /\ torn = {}

First(e, n) == {At(e.ps, i) : i \in 0..n - 1}
Accepting == {p \in Pipe : status[p] = "open" /\ outActive[p] /\ ~full[p]}

-----------------------------------------------------------------------------
\* Mutant of Midway: a pipe joins at once, in mid-message too.
NeverMidway == FALSE
Midway == more

attach(p) ==
    LET e == [d EXCEPT !.ps = Append(@, p), !.eli = @ + 1]
        n == Len(d.ps)
    IN
    /\ status[p] = "new" /\ status' = [status EXCEPT ![p] = "open"]
    /\ d' = IF Midway THEN [e EXCEPT !.ps = Swap(@, d.eli, n)]
                      ELSE [e EXCEPT !.ps = Swap(@, d.act, n), !.act = @ + 1]
    /\ UNCHANGED <<more, outActive, full, fresh, peer, msg, part, targets, torn>>

\* activated: from passive to eligible, and to active between messages.
Eligible(e, p) ==
    IF e.eli < Len(e.ps)
    THEN [e EXCEPT !.ps = Swap(@, Index(@, p), e.eli), !.eli = @ + 1] ELSE e
ActivatedIn(e, p) ==
    LET f == Eligible(e, p) IN
    IF ~Midway /\ f.act < Len(f.ps)
    THEN [f EXCEPT !.ps = Swap(@, f.eli - 1, f.act), !.act = @ + 1] ELSE f

\* The peer reads: pipe_t::process_activate_write calls activated, if the
\* pipe was not writable.
activate_write(p) ==
    /\ status[p] = "open" /\ full[p]
    /\ full' = [full EXCEPT ![p] = FALSE]
    /\ outActive' = [outActive EXCEPT ![p] = TRUE]
    /\ d' = IF outActive[p] THEN d ELSE ActivatedIn(d, p)
    /\ UNCHANGED <<more, status, fresh, peer, msg, part, targets, torn>>

\* pipe_t::process_hiccup drops what the peer has not read and makes the pipe
\* writable, without calling activated.
process_hiccup(p) ==
    /\ Hiccups /\ status[p] = "open"
    /\ outActive' = [outActive EXCEPT ![p] = TRUE]
    /\ full' = [full EXCEPT ![p] = FALSE]
    /\ fresh' = [fresh EXCEPT ![p] = <<>>]
    /\ torn' = torn \cup (IF fresh[p] = <<>> THEN {} ELSE {p})
    /\ UNCHANGED <<d, more, status, peer, msg, part, targets>>

\* The pipe reaches its high water mark (in mid-message: set_hwms lowers it).
Fill(p) ==
    /\ status[p] = "open" /\ ~full[p]
    /\ full' = [full EXCEPT ![p] = TRUE]
    /\ UNCHANGED <<d, more, status, outActive, fresh, peer, msg, part, targets, torn>>

\* The pipe's termination begins: an unfinished message is dropped with it.
Closing(p) ==
    /\ status[p] = "open" /\ status' = [status EXCEPT ![p] = "closing"]
    /\ fresh' = [fresh EXCEPT ![p] = <<>>]
    /\ UNCHANGED <<d, more, outActive, full, peer, msg, part, targets, torn>>

\* p leaves the first n pipes.
Demoted(ps, p, n) == IF Index(ps, p) < n THEN Swap(ps, Index(ps, p), n - 1) ELSE ps
Less(ps, p, n) == IF Index(ps, p) < n THEN n - 1 ELSE n
pipe_terminated(p) ==
    LET ps1 == Demoted(d.ps, p, d.mat)
        ps2 == Demoted(ps1, p, d.act)
        ps3 == Demoted(ps2, p, d.eli)
    IN
    /\ status[p] = "closing" /\ status' = [status EXCEPT ![p] = "gone"]
    /\ d' = [ps |-> Erase(ps3, p), mat |-> Less(d.ps, p, d.mat),
             act |-> Less(ps1, p, d.act), eli |-> Less(ps2, p, d.eli)]
    /\ UNCHANGED <<more, outActive, full, fresh, peer, msg, part, targets, torn>>

-----------------------------------------------------------------------------
\* match, for each pipe of S; a pipe that is not eligible is ignored.
Matched(e, S) ==
    LET after[n \in 0..Len(e.ps)] ==
            LET f == after[n - 1]
                p == e.ps[n]
            IN  IF n = 0 THEN [e EXCEPT !.mat = 0]
                ELSE IF p \in S /\ Index(f.ps, p) >= f.mat /\ Index(f.ps, p) < f.eli
                THEN [f EXCEPT !.ps = Swap(@, Index(@, p), f.mat), !.mat = @ + 1]
                ELSE f
    IN  after[Len(e.ps)]

\* reverse_match: the eligible pipes that did not match move to the front.
Reversed(e) ==
    LET after[i \in e.mat..e.eli] ==
            IF i = e.mat THEN e.ps
            ELSE Swap(after[i - 1], i - 1, i - 1 - e.mat)
    IN  [e EXCEPT !.ps = after[e.eli], !.mat = e.eli - e.mat]

\* write, when the pipe refuses: it is matching, active, eligible no more.
Refusing(e, p) ==
    LET ps1 == Swap(e.ps, Index(e.ps, p), e.mat - 1)
        ps2 == Swap(ps1, Index(ps1, p), e.act - 1)
    IN  [ps |-> Swap(ps2, e.act - 1, e.eli - 1), mat |-> e.mat - 1,
         act |-> e.act - 1, eli |-> e.eli - 1]
\* distribute: the matching pipes are tried in turn; one that refuses makes
\* room for another at the same index.
Distributed(e) ==
    LET after[n \in 0..e.mat] ==
            LET s == after[n - 1]
                p == At(s.e.ps, s.i)
            IN  IF n = 0 THEN [e |-> e, i |-> 0]
                ELSE IF p \in Accepting THEN [s EXCEPT !.i = @ + 1]
                ELSE [s EXCEPT !.e = Refusing(@, p)]
    IN  after[e.mat].e

\* Mutant of Rejoining: pipes that joined in mid-message stay inactive.
NeverRejoining(e, last) == e
Rejoining(e, last) == IF last THEN [e EXCEPT !.act = e.eli] ELSE e
\* send_to_matching: e holds the pipes after matching.
send_to_matching(e, last) ==
    LET f == Distributed(e)
        to == First(f, f.mat)
        sent == [p \in Pipe |-> Append(fresh[p], [msg |-> msg, part |-> part,
                                                  last |-> last])]
    IN
    /\ d' = Rejoining(f, last) /\ more' = ~last
    /\ outActive' = [p \in Pipe |-> outActive[p] /\
                        ~(p \in First(e, e.mat) \ to /\ full[p])]
    /\ fresh' = [p \in Pipe |-> IF p \notin to THEN fresh[p]
                                ELSE IF last THEN <<>> ELSE sent[p]]
    /\ peer' = [p \in Pipe |-> IF p \in to /\ last THEN peer[p] \o sent[p]
                               ELSE peer[p]]
    /\ torn' = torn \cup {p \in First(e, e.mat) \ to : fresh[p] # <<>>}
    /\ msg' = (IF last THEN msg + 1 ELSE msg) /\ part' = (IF last THEN 1 ELSE part + 1)
    /\ UNCHANGED <<status, full>>

\* send_to_all, by an XSUB socket.
send_to_all(last) ==
    /\ targets' = (IF more THEN targets ELSE Pipe) \cap Accepting
    /\ send_to_matching([d EXCEPT !.mat = d.act], last)

Rematches == ~more
\* An XPUB socket matches the subscribers S at the first part of a message,
\* all the others with ZMQ_INVERT_MATCHING.
SendToSubscribers(S, invert, last) ==
    LET e == Matched(d, S) IN
    /\ targets' = (IF more THEN targets ELSE IF invert THEN Pipe \ S ELSE S)
                      \cap Accepting
    /\ send_to_matching(IF ~Rematches THEN d ELSE IF invert THEN Reversed(e) ELSE e,
                        last)

Next ==
    \/ \E p \in Pipe : \/ attach(p) \/ activate_write(p) \/ process_hiccup(p)
                       \/ Fill(p) \/ Closing(p) \/ pipe_terminated(p)
    \/ /\ msg \in DOMAIN MaxParts
       /\ \E last \in {l \in BOOLEAN : part < MaxParts[msg] \/ l} :
            IF Hiccups THEN send_to_all(last)
            ELSE \E S \in SUBSET {p \in Pipe : Rematches /\ status[p] \in {"open", "closing"}},
                    invert \in BOOLEAN : SendToSubscribers(S, invert, last)

Spec == Init /\ [][Next]_vars

-----------------------------------------------------------------------------
\* The sections of the array are in order, and the pipes in it are those not
\* terminated (the asserting swaps of dist_t::write and pipe_terminated).
TypeOK ==
    /\ \A i, j \in 1..Len(d.ps) : d.ps[i] = d.ps[j] => i = j
    /\ First(d, Len(d.ps)) = {p \in Pipe : status[p] \in {"open", "closing"}}
    /\ d.mat \in 0..d.eli /\ d.act \in 0..d.eli /\ d.eli \in 0..Len(d.ps)
    /\ more => d.mat <= d.act

\* A subscriber gets all parts of a message or none, whenever pipes fill up,
\* resume, join and terminate (dist.hpp, _eligible); except on a pipe that was
\* made full in the middle of a message by a lower mark and keeps its head, or
\* on one that hiccups in its middle and gets the tail.
WholeMessages ==
    \A p \in Pipe \ torn : \A i \in 1..Len(peer[p]) :
        LET x == peer[p][i] IN
        /\ x.part > 1 => /\ i > 1 /\ peer[p][i - 1].msg = x.msg
                         /\ peer[p][i - 1].part = x.part - 1
        /\ ~x.last => i < Len(peer[p]) /\ peer[p][i + 1].msg = x.msg

\* A message reaches exactly the chosen pipes that accept all its parts
\* (dist_t::match, reverse_match, distribute).
RightPipes ==
    ~more => {p \in Pipe : peer[p] # <<>> /\ peer[p][Len(peer[p])].msg = msg - 1}
                 = targets

\* A pipe that can be written to is eligible, and between messages active: "all
\* the pipes that we can in theory send messages to" (dist.hpp).
NoPipeForgotten ==
    Accepting \subseteq First(d, IF more THEN d.eli ELSE d.act)
=============================================================================
