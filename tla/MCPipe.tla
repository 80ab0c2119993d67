------------------------------- MODULE MCPipe -------------------------------
(***************************************************************************)
(* The scenarios in which Pipe is checked.                                 *)
(***************************************************************************)
EXTENDS Pipe

Hwm(n) == [e \in End |-> n]

\* Both owners terminate; one is a session that may hiccup, the other a socket that writes to it.
Crossing ==
    [kind |-> {"msg"}, parts |-> {FALSE}, writer |-> {2}, hiccuper |-> {1},
     delays |-> BOOLEAN, hwm |-> Hwm(1), change |-> {}, changer |-> {},
     boost |-> Hwm(<<-1, -1>>), maxWrites |-> 2, maxHiccups |-> 1, maxChanges |-> 0]

\* Flow control: multipart messages and routing ids, a hiccup, no termination.
Flow == [Crossing EXCEPT !.kind = {"msg", "rid"}, !.parts = BOOLEAN,
                         !.delays = {}, !.hwm = Hwm(3), !.maxWrites = 7]

\* Delayed termination of both ends with messages under way.
Delay == [Crossing EXCEPT !.parts = BOOLEAN, !.writer = {1, 2}, !.hiccuper = {}, !.delays = {TRUE}]

\* The socket changes the water marks at run time.
Marks == [Crossing EXCEPT !.writer = {1}, !.hiccuper = {}, !.delays = {},
                          !.change = {0, 1, 3}, !.changer = {2}, !.maxChanges = 2]

\* Termination of either end, with and without delay.
Ending == [Crossing EXCEPT !.writer = {1}, !.hiccuper = {}]

\* The socket changes the marks and asks for statistics while either end terminates.
MarksEnding == [Marks EXCEPT !.delays = BOOLEAN, !.change = {1}, !.maxWrites = 1, !.maxChanges = 1]

All == {Crossing, Flow, Delay, Marks, Ending, MarksEnding}

\* A session that hiccups while its pipe terminates.
HiccupTerm == {[Crossing EXCEPT !.writer = {}]}
=============================================================================
