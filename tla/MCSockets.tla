----------------------------- MODULE MCSockets ------------------------------
(***************************************************************************)
(* The socket types among their peers, each checked on a small instance.   *)
(* A behaviour is one of the socket that "which" names.                    *)
(***************************************************************************)
EXTENDS Naturals, Sequences, TLC

CONSTANTS Pipe, Late, NoPipe, Child, Dish, Group, NoGroup

VARIABLES which, st

Topics == {<<1>>}
Subjects == {<<1>>, <<2>>}

Ro == INSTANCE Router WITH Name <- {"", "A"}, MaxParts <- 2, MaxSends <- 1,
                           MaxWrites <- <<2, 1>>, Hwm <- 1
Requester(strict, corr, probe) == [strict |-> strict, corr |-> corr, probe |-> probe]
Requesters == {Requester(TRUE, FALSE, FALSE), Requester(FALSE, TRUE, FALSE),
               Requester(TRUE, TRUE, TRUE)}
Rq == INSTANCE ReqRep WITH Settings <- Requesters, Server <- Pipe, NoServer <- NoPipe,
                           MaxRequests <- 2, DiesAtLast <- FALSE, MalformedUnwritten <- FALSE, Hwm <- 1
\* Subscriptions and groups that change often, and messages between changes.
Ps == INSTANCE PubSub WITH Sub <- Pipe, Topic <- Topics, Subject <- Subjects,
                           MaxConnections <- 2, MaxOps <- 3, MaxSends <- 0, MaxUnread <- 1,
                           UpHwm <- 1, NoDrop <- {}
Pm == INSTANCE PubSub WITH Sub <- Pipe, Topic <- Topics, Subject <- Subjects,
                           MaxConnections <- 2, MaxOps <- 2, MaxSends <- 2, MaxUnread <- 1,
                           UpHwm <- 2, NoDrop <- {"plain", "last"}
Gr == INSTANCE Groups WITH MaxOps <- 3, MaxSends <- 1, Hwm <- 1, UpHwm <- 2
Gm == INSTANCE Groups WITH MaxOps <- 2, MaxSends <- 2, Hwm <- 1, UpHwm <- 2
Pe == INSTANCE Peers WITH IdLimit <- 4, MaxSends <- 2, Hwm <- 1
\* More clients, one after the other, than there are numbers.
Sv == INSTANCE Peers WITH Pipe <- Pipe \cup Late, IdLimit <- 3, MaxSends <- 2, Hwm <- 1
Ca == INSTANCE Calls WITH PollRate <- 2, Timeout <- 1, Hwm <- 1, MaxTime <- 1, MaxMsgs <- 3,
                        MaxSends <- 1

Item(x, e) == [x |-> x, ev |-> {e}]
PollArrays ==
    {<<Item("f", "in"), Item("a", "in"), Item("b", "in")>>,
     <<Item("b", "in"), Item("a", "in"), Item("b", "out")>>,
     <<Item("b", "in"), Item("b", "out")>>,
     <<Item("b", "in"), Item("f", "in")>>}
\* A poller of the application, and zmq_poll with repeated items and descriptors.
Sp == INSTANCE SocketPoller WITH
          Safe <- {"a"}, Plain <- {"b"}, Fd <- {}, MuteFd <- FALSE, Timeout <- 1, MaxOps <- 2,
          MaxMsgs <- 1, Stopped <- {"a"}, Polls <- {}, Registered <- <<"a">>
Zp == INSTANCE SocketPoller WITH
          Safe <- {"a"}, Plain <- {"b"}, Fd <- {"f"}, MuteFd <- FALSE, Timeout <- 1, MaxOps <- 0,
          MaxMsgs <- 2, Stopped <- {}, Polls <- PollArrays, Registered <- <<>>
\* Bursts of two messages, and two commands (PAUSE, then RESUME).
Px == INSTANCE Proxy WITH Burst <- 2, Hwm <- 1, MaxMsgs <- 2, MaxCommands <- 1
Pc == INSTANCE Proxy WITH Burst <- 2, Hwm <- 1, MaxMsgs <- 1, MaxCommands <- 2

Uris == {"inproc", "tcp", "alias", "udp"}
Resolved(u) == IF u = "alias" THEN "tcp" ELSE u
Ep == INSTANCE Endpoints WITH
          Uri <- Uris, Proto <- [u \in Uris |-> Resolved(u)], Canon <- [u \in Uris |-> Resolved(u)],
          Owned <- Child, Ends <- Pipe, Nil <- "nil", MaxOps <- 4,
          IoThread <- {"i1", "i2"}, Frames <- [v1 |-> 2, v2 |-> 5], Hwm <- 1, MaxEvents <- 2,
          MaxMonitors <- 2

Init ==
    \/ which = "router" /\ Ro!Init
    \/ which = "rep" /\ Rq!RepInit
    \/ which = "req" /\ Rq!Init
    \/ which = "pubsub" /\ Ps!Init
    \/ which = "publishing" /\ Pm!Init
    \/ which = "groups" /\ Gr!Init
    \/ which = "radio" /\ Gm!Init
    \/ which = "server" /\ Sv!Init
    \/ which = "stream" /\ Pe!StreamInit
    \/ which = "pair" /\ Pe!PairInit
    \/ which = "calls" /\ Ca!Init
    \/ which = "poller" /\ Sp!Init
    \/ which = "zmq_poll" /\ Zp!Init
    \/ which = "proxy" /\ Px!Init
    \/ which = "steered" /\ Pc!Init
    \/ which = "endpoints" /\ Ep!Init
    \/ which = "monitor" /\ Ep!MonitorInit

Next ==
    /\ UNCHANGED which
    /\ \/ which = "router" /\ Ro!Next
       \/ which = "rep" /\ Rq!RepNext
       \/ which = "req" /\ Rq!Next
       \/ which = "pubsub" /\ Ps!Next
       \/ which = "publishing" /\ Pm!Next
       \/ which = "groups" /\ Gr!Next
       \/ which = "radio" /\ Gm!Next
       \/ which = "server" /\ Sv!Next
       \/ which = "stream" /\ Pe!StreamNext
       \/ which = "pair" /\ Pe!PairNext
       \/ which = "calls" /\ Ca!Next
       \/ which = "poller" /\ Sp!Next
       \/ which = "zmq_poll" /\ Zp!Next
       \/ which = "proxy" /\ Px!Next
       \/ which = "steered" /\ Pc!Next
       \/ which = "endpoints" /\ Ep!Next
       \/ which = "monitor" /\ Ep!MonitorNext

Spec == Init /\ [][Next]_<<which, st>>

Interchangeable == Permutations(Pipe) \cup Permutations(Child)

-----------------------------------------------------------------------------
\* The tables of peers are consistent: a ROUTER socket has each named pipe in
\* its table once and marks those inactive that refused a message, a PAIR or
\* DGRAM socket keeps its pipe until that one ends, the endpoints of a socket
\* name pipes that exist, end nothing but their own and let every live one be
\* ended, and the assertions of routing_socket_base_t and server_t hold.  The
\* parts name the cases in which the code fails: connecting with an identity in
\* use, a pipe renamed while it could not take a message, a pipe that ends with
\* its last message read ahead, a routing id of a SERVER that has come round,
\* and a session whose memory is used again while its endpoint is kept.
PeersConsistent ==
    /\ which = "router" => Ro!AssertionsHold /\ Ro!TableMatches /\ Ro!InactiveWillWake
    /\ which = "server" => Sv!AssertionsHold
    /\ which = "stream" => Pe!StreamAssertionsHold
    /\ which = "pair" => Pe!OnePipe
    /\ which = "endpoints" => Ep!ReachablePipesExist /\ Ep!EndsOwnOnly /\ Ep!LiveReachable

\* Messages stay whole and with their address: what a ROUTER, STREAM or DISH
\* application receives belongs to the identity, routing id or group it came
\* with, what peers get are whole messages, from REQ sockets in their
\* envelopes, monitors send whole events, and a proxy moves each message once,
\* in order.
MessagesWhole ==
    /\ which = "router" => Ro!WholeReads /\ Ro!WholeWrites
    /\ which = "req" => Rq!RequestsEnveloped
    /\ which = "stream" => Pe!DataOfItsPeer /\ Pe!NothingSwallowed
    /\ which = "groups" => Gr!BodyInItsGroup
    /\ which = "radio" => Gm!BodyInItsGroup
    /\ which = "pair" => Pe!PeersReadWhole
    /\ which = "monitor" => Ep!EventsWhole /\ Ep!StopIsTold
    /\ which = "proxy" => Px!Moved /\ Px!StatsAgree
    /\ which = "steered" => Pc!Moved /\ Pc!StatsAgree

\* Replies reach those who asked: REP and SERVER sockets answer the client a
\* request came from, REQ sockets take the answer to their last request.
RepliesToAskers ==
    /\ which = "rep" => Rq!AnswersOnly /\ Rq!RepliesArrive
    /\ which = "req" => Rq!ReplyMatchesRequest /\ Rq!ReplyPipeKnown
    /\ which = "server" => Sv!RepliesToSender

\* Subscriptions and groups at the publisher are those of its live subscribers,
\* after any number of changes and reconnections; except on a connection whose
\* pipe, at its high water mark, dropped one of them (the next one makes that
\* good), and for a pipe answered in manual mode after it has ended.
SubscribersAgree ==
    /\ which = "pubsub" => Ps!TriesHoldLivePipes /\ Ps!SubscriptionsAgree
    /\ which = "publishing" => Pm!TriesHoldLivePipes /\ Pm!SubscriptionsAgree
    /\ which = "groups" => Gr!GroupsAgree
    /\ which = "radio" => Gm!GroupsAgree

\* The application of an XPUB socket learns what is subscribed to, and answers
\* the subscriber that asked; the first unless a subscription was dropped at the
\* high water mark, the second if every message upstream is a subscription.
SubscriptionsTold ==
    /\ which = "pubsub" => Ps!ApplicationKnows /\ Ps!AnswersRightPipe
    /\ which = "publishing" => Pm!ApplicationKnows /\ Pm!AnswersRightPipe

\* Calls of a socket return what is there, wake up, and end in time; so do a
\* poller and zmq_poll, and a proxy does not wait over work.  Commands are not
\* starved by recv, until a signal has interrupted its periodic processing.
CallsReturn ==
    /\ which = "calls" => /\ Ca!SucceedsWhenDue /\ Ca!WaiterIsWoken
                          /\ Ca!CommandsNotStarved /\ Ca!NotTooEarly
    /\ which = "poller" => Sp!WaiterIsWoken /\ Sp!SucceedsWhenDue /\ Sp!AssertionsHold
    /\ which = "zmq_poll" => /\ Zp!WaiterIsWoken /\ Zp!SucceedsWhenDue
                             /\ Zp!PollReports /\ Zp!AssertionsHold
    /\ which = "proxy" => Px!NoWorkMissed /\ Px!EndsOnPurpose
    /\ which = "steered" => Pc!NoWorkMissed /\ Pc!EndsOnPurpose
=============================================================================
