-------------------------------- MODULE Own ---------------------------------
(***************************************************************************)
(* own_t (own.cpp): the ownership tree of sockets, listeners, sessions and *)
(* connecters and its asynchronous termination.  Every object handles the  *)
(* commands sent to it one at a time, in order; objects in different       *)
(* threads interleave.                                                     *)
(*                                                                         *)
(* A command that must not arrive at a dead object is announced with       *)
(* inc_seqnum, possibly by another thread and before it is sent: such an   *)
(* announcement, not redeemed yet, is counted in promised.                 *)
(***************************************************************************)
EXTENDS Naturals, Sequences, FiniteSets

CONSTANTS
    Object,       \* objects ever created
    Root,         \* the socket
    Deferring,    \* sessions: process_term waits for their pipe to end
    NoOwner,      \* _owner of the root
    Announced,    \* the objects to which commands are announced (sockets)
    MaxPromises   \* bound: announced commands per object

VARIABLES
    status,       \* "none", "live" or "dead" (deallocated)
    owner,        \* _owner
    owned,        \* _owned
    terminating,  \* _terminating
    pending,      \* session_base_t::_pending: own_t::process_term is due later
    sentSeqnum,   \* _sent_seqnum
    processed,    \* _processed_seqnum
    termAcks,     \* _term_acks
    promised,     \* announced commands not sent yet
    promises,     \* announcements so far (bound)
    cmds          \* per object, the commands under way to it, in order

counters == <<sentSeqnum, processed, termAcks>>
vars == <<status, owner, owned, terminating, pending, counters, promised,
          promises, cmds>>

Cmd(t, o) == [type |-> t, object |-> o]
Live(o) == status[o] = "live"

Init ==
    /\ status = [o \in Object |-> IF o = Root THEN "live" ELSE "none"]
    /\ owner = [o \in Object |-> NoOwner] /\ owned = [o \in Object |-> {}]
    /\ terminating = [o \in Object |-> FALSE]
    /\ pending = [o \in Object |-> FALSE]
    /\ sentSeqnum = [o \in Object |-> 0] /\ processed = [o \in Object |-> 0]
    /\ termAcks = [o \in Object |-> 0]
    /\ promised = [o \in Object |-> 0] /\ promises = [o \in Object |-> 0]
    /\ cmds = [o \in Object |-> <<>>]

-----------------------------------------------------------------------------
LaunchSeqnums(p, c) == [sentSeqnum EXCEPT ![p] = @ + 1, ![c] = @ + 1]

\* launch_child: set_owner, send_plug to the child, send_own to oneself.
launch_child(p, c) ==
    /\ Live(p) /\ ~terminating[p] /\ status[c] = "none"
    /\ status' = [status EXCEPT ![c] = "live"]
    /\ owner' = [owner EXCEPT ![c] = p]
    /\ sentSeqnum' = LaunchSeqnums(p, c)
    /\ cmds' = [cmds EXCEPT ![c] = Append(@, Cmd("plug", c)),
                            ![p] = Append(@, Cmd("own", c))]
    /\ UNCHANGED <<owned, terminating, pending, processed, termAcks, promised,
                   promises>>

\* inc_seqnum from another thread (ctx_t::find_endpoint on a socket whose
\* endpoints are registered), and later the bind command it announced.
inc_seqnum(o) ==
    /\ Live(o) /\ ~terminating[o]
    /\ o \in Announced /\ promises[o] < MaxPromises
    /\ sentSeqnum' = [sentSeqnum EXCEPT ![o] = @ + 1]
    /\ promised' = [promised EXCEPT ![o] = @ + 1]
    /\ promises' = [promises EXCEPT ![o] = @ + 1]
    /\ UNCHANGED <<status, owner, owned, terminating, pending, processed,
                   termAcks, cmds>>
send_bind(o) ==
    /\ promised[o] > 0
    /\ promised' = [promised EXCEPT ![o] = @ - 1]
    /\ cmds' = [cmds EXCEPT ![o] = Append(@, Cmd("bind", o))]
    /\ UNCHANGED <<status, owner, owned, terminating, pending, counters,
                   promises>>

-----------------------------------------------------------------------------
\* Mutant of CanDestroy: the sequence numbers are not compared.
DestroyEarly(o, term, done, acks) == term /\ acks = 0
CanDestroy(o, term, done, acks) == term /\ done = sentSeqnum[o] /\ acks = 0

\* check_term_acks, given the commands c left by its caller: an object that
\* has nothing to wait for confirms to its owner and is deallocated.
check_term_acks(o, term, done, acks, c) ==
    IF CanDestroy(o, term, done, acks)
    THEN /\ status' = [status EXCEPT ![o] = "dead"]
         /\ cmds' = IF owner[o] = NoOwner THEN c
                    ELSE [c EXCEPT ![owner[o]] = Append(@, Cmd("term_ack", o))]
    ELSE UNCHANGED status /\ cmds' = c

\* own_t::process_term, with commands c left: asks every owned object.
process_term(o, c) ==
    LET acks == termAcks[o] + Cardinality(owned[o]) IN
    /\ owned' = [owned EXCEPT ![o] = {}]
    /\ terminating' = [terminating EXCEPT ![o] = TRUE]
    /\ termAcks' = [termAcks EXCEPT ![o] = acks]
    /\ check_term_acks(o, TRUE, processed[o], acks,
         [x \in Object |-> IF x \in owned[o]
                           THEN Append(c[x], Cmd("term", x)) ELSE c[x]])
    /\ UNCHANGED <<owner, sentSeqnum, processed, promised, promises>>

\* terminate: the root terminates itself, others ask their owner.
terminate(o) ==
    /\ Live(o) /\ ~terminating[o]
    /\ \/ owner[o] = NoOwner /\ process_term(o, cmds) /\ UNCHANGED pending
       \/ /\ owner[o] # NoOwner /\ ~pending[o]
          /\ \A i \in 1..Len(cmds[owner[o]]) :   \* bound: one request at a time
               cmds[owner[o]][i] # Cmd("term_req", o)
          /\ cmds' = [cmds EXCEPT ![owner[o]] = Append(@, Cmd("term_req", o))]
          /\ UNCHANGED <<status, owner, owned, terminating, pending, counters,
                         promised, promises>>

\* Mutant of process_term_req: the child asked to go is not waited for.
TermReqUncounted(o, x, c) ==
    IF terminating[o] \/ x \notin owned[o]
    THEN /\ cmds' = c
         /\ UNCHANGED <<status, owner, owned, terminating, pending, counters,
                        promised, promises>>
    ELSE /\ owned' = [owned EXCEPT ![o] = @ \ {x}]
         /\ cmds' = [c EXCEPT ![x] = Append(@, Cmd("term", x))]
         /\ UNCHANGED <<status, owner, terminating, pending, counters, promised,
                        promises>>
\* process_term_req (and term_child): forgets the child and asks it to go.
process_term_req(o, x, c) ==
    IF terminating[o] \/ x \notin owned[o]
    THEN /\ cmds' = c
         /\ UNCHANGED <<status, owner, owned, terminating, pending, counters,
                        promised, promises>>
    ELSE /\ owned' = [owned EXCEPT ![o] = @ \ {x}]
         /\ termAcks' = [termAcks EXCEPT ![o] = @ + 1]
         /\ cmds' = [c EXCEPT ![x] = Append(@, Cmd("term", x))]
         /\ UNCHANGED <<status, owner, terminating, pending, sentSeqnum,
                        processed, promised, promises>>
term_child(o, x) == Live(o) /\ x \in owned[o] /\ process_term_req(o, x, cmds)

-----------------------------------------------------------------------------
\* process_seqnum after a handler that left termAcks at acks.
process_seqnum(o, acks, c) ==
    /\ processed' = [processed EXCEPT ![o] = @ + 1]
    /\ termAcks' = [termAcks EXCEPT ![o] = acks]
    /\ check_term_acks(o, terminating[o], processed[o] + 1, acks, c)
    /\ UNCHANGED <<owner, terminating, pending, sentSeqnum, promised, promises>>

\* Mutant of process_own: a child that comes late is simply kept.
OwnsWhileTerminating(o, x, c) ==
    /\ owned' = [owned EXCEPT ![o] = @ \cup {x}]
    /\ process_seqnum(o, termAcks[o], c)
\* process_own: an object that is terminating asks a new child to go at once.
process_own(o, x, c) ==
    IF terminating[o]
    THEN /\ UNCHANGED owned
         /\ process_seqnum(o, termAcks[o] + 1,
                           [c EXCEPT ![x] = Append(@, Cmd("term", x))])
    ELSE /\ owned' = [owned EXCEPT ![o] = @ \cup {x}]
         /\ process_seqnum(o, termAcks[o], c)

\* process_term_ack: unregister_term_ack.
process_term_ack(o, c) ==
    /\ termAcks[o] > 0
    /\ termAcks' = [termAcks EXCEPT ![o] = @ - 1]
    /\ check_term_acks(o, terminating[o], processed[o], termAcks[o] - 1, c)
    /\ UNCHANGED <<owner, owned, terminating, pending, sentSeqnum, processed,
                   promised, promises>>

\* The term command: a session waits for its pipe before own_t::process_term.
process_term_command(o, c) ==
    /\ ~terminating[o] /\ ~pending[o]
    /\ IF o \in Deferring
       THEN /\ pending' = [pending EXCEPT ![o] = TRUE] /\ cmds' = c
            /\ UNCHANGED <<status, owner, owned, terminating, counters, promised,
                           promises>>
       ELSE process_term(o, c) /\ UNCHANGED pending
\* Mutant of pipe_terminated: the deferred termination is not taken up.
PipeEndIgnored(o) ==
    /\ Live(o) /\ pending[o]
    /\ pending' = [pending EXCEPT ![o] = FALSE]
    /\ UNCHANGED <<status, owner, owned, terminating, counters, promised, promises,
                   cmds>>
\* ... and the end of the pipe (session_base_t::pipe_terminated).
pipe_terminated(o) ==
    /\ Live(o) /\ pending[o]
    /\ pending' = [pending EXCEPT ![o] = FALSE]
    /\ process_term(o, cmds)

\* object_t::process_command on the oldest command.
process_command(o) ==
    /\ Live(o) /\ cmds[o] # <<>>
    /\ LET m == Head(cmds[o])
           c == [cmds EXCEPT ![o] = Tail(@)]
       IN \/ m.type \in {"plug", "bind"} /\ UNCHANGED owned
             /\ process_seqnum(o, termAcks[o], c)
          \/ m.type = "own" /\ process_own(o, m.object, c)
          \/ m.type = "term_req" /\ process_term_req(o, m.object, c)
          \/ m.type = "term" /\ process_term_command(o, c)
          \/ m.type = "term_ack" /\ process_term_ack(o, c)

Next ==
    \/ \E o \in Object :
         inc_seqnum(o) \/ send_bind(o) \/ terminate(o) \/ pipe_terminated(o)
         \/ process_command(o)
    \/ \E o, x \in Object : launch_child(o, x) \/ term_child(o, x)

Spec == Init /\ [][Next]_vars

\* Every thread handles its commands, an announced command is sent, and a
\* session's pipe ends (Pipe shows when it does).
Fairness ==
    \A o \in Object :
      /\ WF_vars(process_command(o)) /\ WF_vars(send_bind(o)) /\ WF_vars(pipe_terminated(o))
FairSpec == Spec /\ Fairness

-----------------------------------------------------------------------------
\* Every variable keeps its type, and an owned object knows its owner.
TypeOK ==
    /\ status \in [Object -> {"none", "live", "dead"}]
    /\ owner \in [Object -> Object \cup {NoOwner}]
    /\ owned \in [Object -> SUBSET Object]
    /\ \A o \in Object : \A x \in owned[o] : owner[x] = o
    /\ terminating \in [Object -> BOOLEAN] /\ pending \in [Object -> BOOLEAN]
    /\ \A o \in Object : \A n \in {sentSeqnum[o], processed[o], termAcks[o]} : n \in Nat

\* The variables keep their types; the assertions of process_term (no double termination), unregister_term_ack
\* (an ack is expected) and check_term_acks (no child is left at the end).
AssertionsHold ==
    TypeOK /\ \A o \in Object :
        /\ Live(o) /\ cmds[o] # <<>> =>
             /\ Head(cmds[o]).type = "term" => ~terminating[o] /\ ~pending[o]
             /\ Head(cmds[o]).type = "term_ack" => termAcks[o] > 0
        /\ status[o] = "dead" => owned[o] = {}

\* A deallocated object is unreachable: no command is under way or announced
\* to it (what sent and processed seqnums are for), and no object that still
\* lives has it as its owner.
NoUseAfterFree ==
    \A o \in Object : status[o] = "dead" =>
        /\ cmds[o] = <<>> /\ promised[o] = 0
        /\ \A x \in Object : Live(x) => owner[x] # o

\* An object that terminates waits for exactly the children that still owe it
\* an acknowledgement: those it asked to go and those whose ack is under way.
AcksBalance ==
    \A o \in Object : Live(o) =>
        LET asked == {x \in Object : /\ owner[x] = o /\ Live(x) /\ x \notin owned[o]
                                     /\ \A i \in 1..Len(cmds[o]) :
                                          cmds[o][i] # Cmd("own", x)}
            acks == {i \in 1..Len(cmds[o]) : cmds[o][i].type = "term_ack"}
        IN termAcks[o] = Cardinality(asked) + Cardinality(acks)

\* Once the root terminates, the whole tree is deallocated: every child, also
\* one launched or announced while the termination was under way.
TreeGoes == terminating[Root] ~> \A o \in Object : status[o] # "live"
=============================================================================
