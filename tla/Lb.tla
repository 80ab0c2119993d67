--------------------------------- MODULE Lb ---------------------------------
(***************************************************************************)
(* lb_t (lb.cpp), the load balancer of PUSH, DEALER and REQ sockets, over  *)
(* the outbound side of its pipes.  Of a pipe it keeps what lb_t can see:  *)
(* whether write succeeds (pipe_t::check_write), the parts written since   *)
(* the last flush, and the parts flushed to the peer.                      *)
(***************************************************************************)
EXTENDS PipeArray, FiniteSets

CONSTANTS
    Pipe,
    MaxParts       \* bound: the parts of each message sent

VARIABLES
    list, more, dropping,   \* lb_t: _pipes, _active, _current; _more, _dropping
    status,     \* per pipe: "new", "open", "closing" (its state is no longer
                \* active), "gone" (pipe_terminated was called)
    outActive,  \* pipe_t::_out_active
    full,       \* pipe_t::check_hwm is false
    fresh,      \* parts written and not flushed
    peer,       \* parts flushed
    msg, part,  \* the message and the part the application sends next
    waited,     \* messages sent since the pipe last got one, while active
    moved,      \* history: the messages during which _current came to point
                \* at another pipe, although its own had not terminated
    twice       \* history: activated was called for an active pipe

pipe == <<status, outActive, full, fresh, peer>>
history == <<moved, twice>>
vars == <<list, more, dropping, pipe, msg, part, waited, history>>

Init ==
    /\ list = Empty /\ more = FALSE /\ dropping = FALSE
    /\ status = [p \in Pipe |-> "new"] /\ outActive = [p \in Pipe |-> TRUE]
    /\ full = [p \in Pipe |-> FALSE]
    /\ fresh = [p \in Pipe |-> <<>>] /\ peer = [p \in Pipe |-> <<>>]
    /\ msg = 1 /\ part = 1 /\ waited = [p \in Pipe |-> 0]
    /\ moved = {} /\ twice = FALSE

-----------------------------------------------------------------------------
attach(p) ==
    /\ status[p] = "new" /\ status' = [status EXCEPT ![p] = "open"]
    /\ list' = Attached(list, p)
    /\ UNCHANGED <<more, dropping, outActive, full, fresh, peer, msg, part, waited,
                   history>>

activated(p) == Activated(list, p)
\* The peer reads: pipe_t::process_activate_write calls activated.  A pipe that
\* refused a later part is still active then, and the array may be left broken.
activate_write(p) ==
    /\ status[p] = "open" /\ full[p]
    /\ full' = [full EXCEPT ![p] = FALSE]
    /\ outActive' = [outActive EXCEPT ![p] = TRUE]
    /\ list' = IF outActive[p] THEN list ELSE activated(p)
    /\ waited' = [waited EXCEPT ![p] = 0]
    /\ twice' = (twice \/ (~outActive[p] /\ p \in Active(list)))
    /\ UNCHANGED <<more, dropping, status, fresh, peer, msg, part, moved>>

\* The pipe reaches its high water mark: whole messages count, so this happens
\* in mid-message only if pipe_t::set_hwms lowers the mark.
Fill(p) ==
    /\ status[p] = "open" /\ ~full[p]
    /\ full' = [full EXCEPT ![p] = TRUE]
    /\ UNCHANGED <<list, more, dropping, status, outActive, fresh, peer, msg,
                   part, waited, history>>

\* The pipe's termination begins: an unfinished message is dropped with it.
Closing(p) ==
    /\ status[p] = "open" /\ status' = [status EXCEPT ![p] = "closing"]
    /\ fresh' = [fresh EXCEPT ![p] = <<>>]
    /\ UNCHANGED <<list, more, dropping, outActive, full, peer, msg, part, waited,
                   history>>

\* Mutant of DropRest: the rest of an interrupted message is sent elsewhere.
DropNothing(p) == FALSE
DropRest(p) == more /\ Index(list.ps, p) = list.cur
pipe_terminated(p) ==
    /\ status[p] = "closing" /\ status' = [status EXCEPT ![p] = "gone"]
    /\ dropping' = (dropping \/ DropRest(p))
    /\ list' = Terminated(list, p)
    /\ moved' = IF more /\ ~dropping /\ p # Current(list) /\ Current(list') # Current(list)
                THEN moved \cup {msg} ELSE moved
    /\ UNCHANGED <<more, outActive, full, fresh, peer, msg, part, waited, twice>>

-----------------------------------------------------------------------------
Accepting == {p \in Pipe : status[p] = "open" /\ outActive[p] /\ ~full[p]}
\* check_write clears _out_active of the full pipes among those it tries.
Refused(P) == [p \in Pipe |-> outActive[p] /\ ~(p \in P /\ full[p])]

NextPart(last) ==
    IF last THEN msg' = msg + 1 /\ part' = 1 ELSE msg' = msg /\ part' = part + 1

\* sendpipe, while the remainder of an interrupted message is thrown away.
Drop(last) ==
    /\ dropping /\ more' = ~last /\ dropping' = ~last /\ NextPart(last)
    /\ UNCHANGED <<list, pipe, waited, history>>

\* sendpipe, when a later part is refused: roll back, drop the rest.
RollBack(last) ==
    LET p == Current(list) IN
    /\ ~dropping /\ more /\ list.act > 0 /\ p \notin Accepting
    /\ fresh' = [fresh EXCEPT ![p] = <<>>] /\ outActive' = Refused({p})
    /\ dropping' = ~last /\ more' = FALSE /\ NextPart(last)
    /\ UNCHANGED <<list, status, full, peer, waited, history>>

Advance(l) == IF l.cur + 1 >= l.act THEN 0 ELSE l.cur + 1
sendpipe(last) ==
    LET l == Settled(list, Accepting)
        p == Current(l)
        sent == Append(fresh[p], [msg |-> msg, part |-> part, last |-> last])
    IN
    /\ ~dropping /\ list.act > 0 /\ (more => Current(list) \in Accepting)
    /\ outActive' = Refused(Active(list) \ Active(l))
    /\ IF l.act = 0
       THEN list' = l /\ UNCHANGED <<more, fresh, peer, msg, part, waited>>
       ELSE /\ more' = ~last /\ NextPart(last)
            /\ list' = IF last THEN [l EXCEPT !.cur = Advance(l)] ELSE l
            /\ fresh' = [fresh EXCEPT ![p] = IF last THEN <<>> ELSE sent]
            /\ peer' = IF last THEN [peer EXCEPT ![p] = @ \o sent] ELSE peer
            /\ waited' = [q \in Pipe |-> IF q = p \/ q \notin Active(l) THEN 0
                                         ELSE waited[q] + (IF last THEN 1 ELSE 0)]
    /\ UNCHANGED <<dropping, status, full, history>>

has_out ==
    LET l == Settled(list, Accepting) IN
    /\ ~more /\ list' = l /\ outActive' = Refused(Active(list) \ Active(l))
    /\ UNCHANGED <<more, dropping, status, full, fresh, peer, msg, part, waited,
                   history>>

\* An array that activated was called on wrongly may swap past its end, which
\* is undefined: the model stops there.
Next ==
    /\ ~twice
    /\ \/ \E p \in Pipe : \/ attach(p) \/ activate_write(p) \/ Fill(p)
                          \/ Closing(p) \/ pipe_terminated(p)
       \/ /\ msg <= Len(MaxParts)
          /\ \E last \in {l \in BOOLEAN : part < MaxParts[msg] \/ l} :
                Drop(last) \/ RollBack(last) \/ sendpipe(last)
       \/ has_out

Spec == Init /\ [][Next]_vars

-----------------------------------------------------------------------------
\* The pipes are distinct, the active ones come first, and _current points at
\* an active pipe whenever there is one (lb.hpp).  Only a pipe that refused a
\* later part of a message and is then read from is activated twice.
TypeOK ==
    /\ twice \/ WellFormed(list)
    /\ Items(list) = {p \in Pipe : status[p] \in {"open", "closing"}}

\* A peer gets all parts of a message, in order, or none of it (lb_t::sendpipe
\* with rollback and the dropping mode), whichever pipes terminate or refuse in
\* its middle; except that pipe_terminated of another pipe may move _current,
\* and then the rest of that message goes to another peer.
WholeMessages ==
    \A p \in Pipe : \A i \in 1..Len(peer[p]) :
        LET x == peer[p][i] IN
        x.msg \notin moved =>
        /\ x.part > 1 => /\ i > 1 /\ peer[p][i - 1].msg = x.msg
                         /\ peer[p][i - 1].part = x.part - 1
        /\ ~x.last => /\ i < Len(peer[p]) /\ peer[p][i + 1].msg = x.msg

\* An open pipe that lb_t does not try any more has been told so: its
\* _out_active is false, so that activate_write will bring it back.
NoPipeForgotten ==
    \A p \in Pipe : status[p] = "open" /\ p \notin Active(list)
                        => ~outActive[p] /\ full[p]

\* Load balancing: while no pipe terminates, an active pipe waits for at most
\* one message to each other pipe; a termination may cost it one more round
\* (lb_t::sendpipe advancing _current, pipe_terminated swapping pipes).
RoundRobin ==
    LET gone == Cardinality({q \in Pipe : status[q] = "gone"}) IN
    \A p \in Pipe : waited[p] <= (Cardinality(Pipe) - 1) * (1 + gone)
=============================================================================
