--------------------------------- MODULE Fq ---------------------------------
(***************************************************************************)
(* fq_t (fq.cpp), the fair queue of the receiving sockets, over the        *)
(* inbound side of its pipes.  A message in a pipe is the number of its    *)
(* parts not read yet; a peer flushes whole messages, and ends its pipe    *)
(* with a delimiter.                                                       *)
(***************************************************************************)
EXTENDS PipeArray, FiniteSets

CONSTANTS
    Pipe,
    NoPipe,
    MaxMsgs,      \* bound: messages sent
    MaxParts      \* bound: parts of a message

Delimiter == 0

VARIABLES
    list, more, lastIn,  \* fq_t: _pipes, _active, _current; _more; _last_in
    status,    \* per pipe: "new", "open", "closing" (reads fail), "gone"
    inActive,  \* pipe_t::_in_active
    content,   \* the flushed messages
    from,      \* the pipe of the message being received
    atomic,    \* the assertions of recvpipe held
    cut,       \* history: the pipe of the message being received was closed or
               \* is _current no more
    sent, waited

vars == <<list, more, lastIn, status, inActive, content, from, atomic, cut, sent,
          waited>>

Init ==
    /\ list = Empty /\ more = FALSE /\ lastIn = NoPipe
    /\ status = [p \in Pipe |-> "new"] /\ inActive = [p \in Pipe |-> TRUE]
    /\ content = [p \in Pipe |-> <<>>]
    /\ from = NoPipe /\ atomic = TRUE /\ cut = FALSE /\ sent = 0
    /\ waited = [p \in Pipe |-> 0]

-----------------------------------------------------------------------------
attach(p) ==
    /\ status[p] = "new" /\ status' = [status EXCEPT ![p] = "open"]
    /\ list' = Attached(list, p)
    /\ UNCHANGED <<more, lastIn, inActive, content, from, atomic, cut, sent, waited>>

activated(p) == Activated(list, p)
\* The peer flushes a message or its delimiter; if the reader was asleep,
\* pipe_t::process_activate_read calls activated.
Flush(p, m) ==
    /\ status[p] = "open" /\ Delimiter \notin {content[p][i] : i \in 1..Len(content[p])}
    /\ sent < MaxMsgs /\ sent' = sent + 1
    /\ content' = [content EXCEPT ![p] = Append(@, m)]
    /\ inActive' = [inActive EXCEPT ![p] = TRUE]
    /\ list' = IF inActive[p] THEN list ELSE activated(p)
    /\ waited' = [waited EXCEPT ![p] = IF content[p] = <<>> THEN 0 ELSE @]
    /\ UNCHANGED <<more, lastIn, status, from, atomic, cut>>

\* The application disconnects the pipe's endpoint: pipe_t::terminate.
Closing(p) ==
    /\ status[p] = "open" /\ status' = [status EXCEPT ![p] = "closing"]
    /\ cut' = (cut \/ (more /\ p = from))
    /\ UNCHANGED <<list, more, lastIn, inActive, content, from, atomic, sent, waited>>

pipe_terminated(p) ==
    /\ status[p] = "closing" /\ status' = [status EXCEPT ![p] = "gone"]
    /\ list' = Terminated(list, p)
    /\ lastIn' = IF lastIn = p THEN NoPipe ELSE lastIn
    /\ cut' = (cut \/ (more /\ (list'.act = 0 \/ Current(list') # from)))
    /\ UNCHANGED <<more, inActive, content, from, atomic, sent, waited>>

-----------------------------------------------------------------------------
Ready == {p \in Pipe : /\ status[p] = "open" /\ content[p] # <<>>
                       /\ Head(content[p]) # Delimiter}
\* What a failing pipe_t::read or check_read does to the pipes tried: one that
\* is empty falls asleep, one at its delimiter starts to terminate.
Asleep(P) == [p \in Pipe |-> inActive[p] /\ ~(p \in P /\ content[p] = <<>>)]
Ended(P) == [p \in Pipe |->
    IF p \in P /\ content[p] # <<>> THEN "closing" ELSE status[p]]

\* Mutant of Moves: every part is read from the next pipe.
MovesAlways(last) == TRUE
Moves(last) == last
\* Mutant of NextPipe: the queue stays at the pipe it read from.
SamePipe(l) == l.cur
NextPipe(l) == (l.cur + 1) % l.act
\* recvpipe finds no next part where it has read the one before: it aborts.
Torn == more /\ list.act > 0 /\ Current(list) \notin Ready
Abort ==
    /\ Torn /\ atomic' = FALSE
    /\ UNCHANGED <<list, more, lastIn, status, inActive, content, from, cut, sent, waited>>
recvpipe ==
    LET l == Settled(list, Ready)
        p == Current(l)
        tried == Active(list) \ Active(l)
        last == Head(content[p]) = 1
    IN
    /\ ~Torn /\ inActive' = Asleep(tried) /\ status' = Ended(tried)
    /\ IF l.act = 0
       THEN list' = l /\ UNCHANGED <<more, lastIn, content, from, cut, waited>>
       ELSE /\ more' = ~last /\ from' = p /\ cut' = (cut /\ more')
            /\ lastIn' = IF last THEN p ELSE lastIn
            /\ list' = IF Moves(last) THEN [l EXCEPT !.cur = NextPipe(l)] ELSE l
            /\ content' = [content EXCEPT ![p] =
                              IF last THEN Tail(@) ELSE <<Head(@) - 1>> \o Tail(@)]
            /\ waited' = [q \in Pipe |-> IF q = p \/ q \notin Ready THEN 0
                                         ELSE waited[q] + (IF last THEN 1 ELSE 0)]
    /\ UNCHANGED <<atomic, sent>>

has_in ==
    LET l == Settled(list, Ready)
        tried == Active(list) \ Active(l)
    IN
    /\ ~more /\ list' = l
    /\ inActive' = Asleep(tried) /\ status' = Ended(tried)
    /\ UNCHANGED <<more, lastIn, content, from, atomic, cut, sent, waited>>

Next ==
    /\ atomic
    /\ \/ \E p \in Pipe : \/ attach(p) \/ Closing(p) \/ pipe_terminated(p)
                          \/ \E m \in 0..MaxParts : Flush(p, m)
       \/ recvpipe \/ Abort \/ has_in

Spec == Init /\ [][Next]_vars

-----------------------------------------------------------------------------
\* The active pipes come first, _current points at one of them whenever there
\* is one, and _last_in is never a pipe that is gone (fq.hpp).
TypeOK ==
    /\ WellFormed(list)
    /\ Items(list) = {p \in Pipe : status[p] \in {"open", "closing"}}
    /\ lastIn \in Items(list) \cup {NoPipe}

\* If the first part of a message has been received, the remaining parts are
\* there: "Check the atomicity of the message" (fq_t::recvpipe), unless the
\* socket's owner terminated the pipe, or another one, in its middle.
AtomicMessages == atomic \/ cut

\* All parts of a message come from the pipe of its first part: the next part
\* is read from the pipe the last one was read from (fq_t::_current, _more),
\* unless pipe_terminated moved _current in its middle.
OneSource == more /\ ~cut /\ list.act > 0 => Current(list) = from

\* A pipe that holds a message is one the queue will try (fq_t::activated).
NoMessageStranded == Ready \subseteq Active(list)

\* Fair queueing: while no pipe terminates, a pipe with messages waits for at
\* most one message of each other pipe; a termination may cost one round more
\* (fq_t::recvpipe: "senders gone berserk won't cause denial of service").
FairQueueing ==
    LET gone == Cardinality({q \in Pipe : status[q] \in {"closing", "gone"}}) IN
    \A p \in Pipe : waited[p] <= (Cardinality(Pipe) - 1) * (1 + gone)
=============================================================================
