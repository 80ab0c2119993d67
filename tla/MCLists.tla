------------------------------ MODULE MCLists -------------------------------
(***************************************************************************)
(* The containers of a socket, on small instances: the three users of an   *)
(* array of pipes, the subscription tables, the options and the timers of  *)
(* an application.  They do not share state, so a behaviour exercises one  *)
(* of them, named by "which": "lb" and "turns" (long, and mostly short,    *)
(* messages through lb_t), "fq" and "rounds" (long and short ones through  *)
(* fq_t), "xpub" and "xsub" (dist_t driven by an XPUB and by an XSUB       *)
(* socket), "tries", "radix", "timers", "options" and "security" (every    *)
(* option once, those of the security mechanisms several times) and        *)
(* "address".                                                              *)
(***************************************************************************)
EXTENDS Integers, Sequences, TLC

CONSTANTS Pipe, NoPipe

VARIABLES
    which,
    list, more, status, waited,                          \* Lb and Fq
    dropping, outActive, full, fresh, peer, msg, part,   \* Lb and Dist
    moved, twice,                                        \* Lb
    lastIn, inActive, content, from, atomic, cut, sent,  \* Fq
    d, targets, torn,                                    \* Dist
    st                                                   \* the others

lbOnly   == <<dropping, moved, twice>>
fqOnly   == <<lastIn, inActive, content, from, atomic, cut, sent>>
lists    == <<list, waited>>
distOnly == <<d, targets, torn>>
outbound == <<outActive, full, fresh, peer, msg, part>>
pipes == <<more, status, lists, lbOnly, outbound, fqOnly, distOnly>>
vars == <<which, pipes, st>>

Lb == INSTANCE Lb WITH MaxParts <- <<2, 2>>
Turns == INSTANCE Lb WITH MaxParts <- <<1, 1, 2>>
Fq == INSTANCE Fq WITH MaxMsgs <- 3, MaxParts <- 2
Rounds == INSTANCE Fq WITH MaxMsgs <- 4, MaxParts <- 1
Xpub == INSTANCE Dist WITH MaxParts <- <<2, 2>>, Hiccups <- FALSE
Xsub == INSTANCE Dist WITH MaxParts <- <<1, 2>>, Hiccups <- TRUE

Keys == {<<>>, <<0>>, <<1>>, <<3>>, <<4>>, <<1, 0>>}
Words == {<<>>, <<0>>, <<1>>, <<0, 0>>, <<0, 1>>, <<0, 1, 1>>}
Tr == INSTANCE Tries WITH Data <- Keys \cup {<<2, 1>>, <<1, 3>>, <<1, 0, 1>>, <<4, 4>>},
                          Holder <- {"p", "q"}, MaxRefs <- 2,
                          Texts <- Words \cup {<<2, 1>>, <<0, 1, 0>>, <<0, 0, 0>>},
                          MaxSize <- 4, Blocks <- 10
Ti == INSTANCE Timers WITH Intervals <- {1, 2}, Cases <- {}, MaxTimers <- 2, MaxOps <- 4,
                           MaxTime <- 3
Values == {-99, -1, 0, 1, 2, 6553599, 6553600}
Texts == {<<1, "a">>, <<16, "b">>, <<17, "a">>, <<32, "k">>, <<41, "k">>, <<40, "bad">>,
          <<255, "a">>, <<256, "a">>, <<9, "mask4">>, <<9, "mask6">>, <<6, "X-a:1">>}
Names == INSTANCE Options WITH Settable <- {}, Ints <- {}, Texts <- {}, MaxFds <- -1,
                               MaxCalls <- 0
Op == INSTANCE Options WITH Settable <- Names!Options, Ints <- Values, MaxFds <- 3,
                            MaxCalls <- 1
Ro == INSTANCE Options WITH Settable <- Names!Roles, Ints <- {0, 1},
                            Texts <- {<<32, "k">>}, MaxFds <- -1, MaxCalls <- 3
Ad == INSTANCE Address WITH Ports <- {"*", "0", "1", "2", "max", "over", "wrap", "bad"},
                            MaxPort <- 8, Bits <- 2, Ask <- {"tcp", "udp", "ws", "mask"}

Init ==
    /\ Lb!Init /\ Fq!Init /\ Xpub!Init
    /\ \/ which \in {"lb", "turns", "fq", "rounds", "xpub", "xsub"} /\ st = <<>>
       \/ which = "tries" /\ Tr!Init
       \/ which = "radix" /\ Tr!RadixInit
       \/ which = "timers" /\ Ti!Init
       \/ which = "options" /\ Op!Init
       \/ which = "security" /\ Ro!Init
       \/ which = "address" /\ Ad!Init
PipesNext ==
    /\ UNCHANGED st
    /\ \/ which = "lb" /\ Lb!Next /\ UNCHANGED <<fqOnly, distOnly>>
       \/ which = "turns" /\ Turns!Next /\ UNCHANGED <<fqOnly, distOnly>>
       \/ which = "fq" /\ Fq!Next /\ UNCHANGED <<lbOnly, outbound, distOnly>>
       \/ which = "rounds" /\ Rounds!Next /\ UNCHANGED <<lbOnly, outbound, distOnly>>
       \/ which = "xpub" /\ Xpub!Next /\ UNCHANGED <<lists, lbOnly, fqOnly>>
       \/ which = "xsub" /\ Xsub!Next /\ UNCHANGED <<lists, lbOnly, fqOnly>>
Next ==
    /\ UNCHANGED which
    /\ \/ PipesNext
       \/ which = "tries" /\ Tr!Next /\ UNCHANGED pipes
       \/ which = "radix" /\ Tr!RadixNext /\ UNCHANGED pipes
       \/ which = "timers" /\ Ti!Next /\ UNCHANGED pipes
       \/ which = "options" /\ Op!Next /\ UNCHANGED pipes
       \/ which = "security" /\ Ro!Next /\ UNCHANGED pipes
       \/ which = "address" /\ Ad!Next /\ UNCHANGED pipes
Spec == Init /\ [][Next]_vars

Symmetry == Permutations(Pipe)

-----------------------------------------------------------------------------
\* lb_t, fq_t and dist_t keep their pipes distinct and their sections in order,
\* hold exactly the pipes that have not terminated, and point into the active
\* ones (attach, activated, pipe_terminated, array_t::erase and swap).
ListsWellFormed ==
    /\ which \in {"lb", "turns"} => Lb!TypeOK
    /\ which \in {"fq", "rounds"} => Fq!TypeOK
    /\ which \in {"xpub", "xsub"} => Xpub!TypeOK

\* Messages stay whole: a peer of a load balancer or distributor gets all parts
\* of a message, in order, or none of it (lb_t::sendpipe with rollback and
\* dropping, dist_t::_eligible and _more), and all parts received come from the
\* pipe of the first one (fq_t::_current and _more).  Three cases are excepted:
\* in mid-message, the end of another pipe moves _current of lb_t, the
\* application ends a pipe that fq_t reads, or a pipe of dist_t, which does not
\* roll back, is made full by a lowered mark or emptied by a hiccup.
WholeMessages ==
    /\ which \in {"lb", "turns"} => Lb!WholeMessages
    /\ which \in {"xpub", "xsub"} => Xpub!WholeMessages
    /\ which = "fq" => Fq!OneSource /\ Fq!AtomicMessages

\* A pipe that accepts messages again is tried again by lb_t and by the dist_t
\* of an XPUB socket; fq_t tries every pipe that holds a message; a message
\* distributed reaches exactly the pipes chosen at its first part that accepted
\* all its parts (dist_t::match, reverse_match, distribute).
NoPipeForgotten ==
    /\ which \in {"lb", "turns"} => Lb!NoPipeForgotten
    /\ which = "xpub" => Xpub!NoPipeForgotten /\ Xpub!RightPipes
    /\ which \in {"fq", "rounds"} => Fq!NoMessageStranded

\* lb_t is round robin and fq_t fair: an active pipe waits for at most one
\* message of each other pipe, and one more round for each that terminates.
FairTurns ==
    /\ which = "turns" => Turns!RoundRobin
    /\ which \in {"fq", "rounds"} => Fq!FairQueueing

\* The subscription tables (trie_t, generic_mtrie_t, radix_tree_t) answer like a
\* map from keys to subscriptions after any additions and removals; timers fire
\* when they are due unless they were cancelled, and timeout says when; options
\* are read as they were set, and security has the role that was asked for; the
\* text of an endpoint resolves to what it means, and back.
TablesLikeMaps ==
    /\ which = "tries" => Tr!LikeMap
    /\ which = "radix" => Tr!RadixLikeMap
    /\ which = "timers" => Ti!MapAsAsked /\ Ti!OnlyDueFire /\ Ti!TimeoutRight
    /\ which = "options" => Op!ReadAsSet
    /\ which = "security" => Ro!RolesAsAsked
    /\ which = "address" => Ad!ResolvedAsMeant /\ Ad!RoundTrip /\ Ad!UdpBindsToHost /\ Ad!MaskMatches
=============================================================================
