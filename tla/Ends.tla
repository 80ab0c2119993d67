-------------------------------- MODULE Ends --------------------------------
(***************************************************************************)
(* A pipe as the sockets at its ends see it (Pipe.tla has the protocol     *)
(* behind it).  A link has a state, the state of pipe_t at the end of the  *)
(* socket that is modelled, and two directions.  A direction holds the     *)
(* messages flushed and not read, each a sequence of frames of which all   *)
(* but the last have the flag "more"; the frames written and not flushed;  *)
(* the writer's count of messages not reported read; and the flags         *)
(* _out_active of the writer and _in_active of the reader.                 *)
(***************************************************************************)
EXTENDS Naturals, Sequences

CONSTANT Hwm    \* high water mark; the low one is 1

Direction == [q |-> <<>>, part |-> <<>>, used |-> 0, out |-> TRUE, in |-> TRUE]

\* "none"; "open" (active); "drain" (delimiter awaited or received: the peer
\* has gone, its messages may be read); "term" (terminate has been called);
\* "gone" (deallocated).
Link == [st |-> "none", i |-> Direction, o |-> Direction]

\* pipe_t::check_write, for an active pipe, and what it does when it fails.
Writable(d) == d.out /\ d.used < Hwm
Checked(d) == [d EXCEPT !.out = Writable(d)]

\* pipe_t::write, flush and rollback.
Written(d, f) == [d EXCEPT !.part = Append(@, f)]
Flushed(d) ==
    IF d.part = <<>> THEN d
    ELSE [d EXCEPT !.q = Append(@, d.part), !.part = <<>>, !.used = @ + 1]
RolledBack(d) == [d EXCEPT !.part = <<>>]
Sent(d, m) == Flushed([d EXCEPT !.part = m])

\* pipe_t::read: the next frame, whether it is the last of its message, and
\* the pipe without it.
Readable(d) == d.q # <<>>
Frame(d) == Head(Head(d.q))
IsLast(d) == Len(Head(d.q)) = 1
Read(d) ==
    [d EXCEPT !.q = IF IsLast(d) THEN Tail(@) ELSE <<Tail(Head(@))>> \o Tail(@)]
ReadAll(d) == [d EXCEPT !.q = Tail(@)]

\* process_activate_write: the reader's report of what it has read arrives.
Reportable(d) == d.used # Len(d.q)
Reported(d) == [d EXCEPT !.used = Len(d.q), !.out = TRUE]
=============================================================================
