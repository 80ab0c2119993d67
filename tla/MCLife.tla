------------------------------- MODULE MCLife -------------------------------
(***************************************************************************)
(* The lives of the library's objects, on small instances: the context     *)
(* with its sockets and its reaper (Ctx), and a tree of objects in the I/O *)
(* threads (Own).  A behaviour exercises one of them, named by "which".    *)
(***************************************************************************)
EXTENDS Ctx

CONSTANTS Object, Root, Deferring, NoOwner, Announced, MaxPromises

VARIABLES
    which,
    ostatus, owner, owned, oterminating, opending, sentSeqnum, processed, termAcks,
    promised, promises, cmds                                                   \* Own

tree == <<ostatus, owner, owned, oterminating, opending, sentSeqnum, processed, termAcks,
          promised, promises, cmds>>

O == INSTANCE Own WITH status <- ostatus, terminating <- oterminating, pending <- opending

LifeInit == which \in {"ctx", "own"} /\ Init /\ O!Init
LifeNext ==
    /\ UNCHANGED which
    /\ \/ which = "ctx" /\ Next /\ UNCHANGED tree
       \/ which = "own" /\ O!Next /\ UNCHANGED vars

\* The part that does not run stays in its initial state, where nothing is owed to it.
LifeSpec == LifeInit /\ [][LifeNext]_<<which, vars, tree>> /\ Fairness /\ O!Fairness

-----------------------------------------------------------------------------
\* A deallocated object is unreachable (what sent and processed seqnums are for).
NoUseAfterFree == O!NoUseAfterFree

\* An object that terminates waits for exactly the children that still owe it an
\* acknowledgement (_term_acks), and the assertions of process_term,
\* unregister_term_ack and check_term_acks hold.
AcksBalance == O!AcksBalance /\ O!AssertionsHold

\* Once the root terminates, the whole tree is deallocated, also what was launched meanwhile.
TreeGoes == O!TreeGoes
=============================================================================
