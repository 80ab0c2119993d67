---------------------------- MODULE MCTransport -----------------------------
(***************************************************************************)
(* What works beneath the sockets, each part on a small instance: the      *)
(* structures threads share, messages and their memory, the I/O thread's   *)
(* loop and timers, sessions, engines, handshakes, the frames on the wire. *)
(* The parts do not interact here: a behaviour is one of the part that     *)
(* "which" names.                                                          *)
(***************************************************************************)
EXTENDS Integers, Sequences

CONSTANTS Types, Chunk, NULL, Junk, Sender, Thread, Poller

VARIABLES
    which, st,
    heap, begin, back, end, spare, wpc, old, log, released, out, dead, \* YQueue
    written, flushing, cback, front, missed, hasMsg, lock, awake,      \* Conflate
    inActive, cpc, activations, last, order,
    sync, cpipe, idle, pc, sent, signalers, signals, got, nsec         \* MailboxSafe

queue == <<heap, begin, back, end, spare, wpc, old, log, released, out, dead>>
conflate == <<written, flushing, cback, front, missed, hasMsg, lock, awake,
              inActive, cpc, activations, last, order>>
mailbox == <<sync, cpipe, idle, pc, sent, signalers, signals, got, nsec>>
vars == <<which, st, queue, conflate, mailbox>>

Q == INSTANCE YQueue WITH N <- 2, Val <- {0, 1}, MaxPushed <- 4
C == INSTANCE Conflate WITH MaxWrites <- 4, back <- cback, pc <- cpc
S == INSTANCE MailboxSafe WITH Quota <- 2, Timeout <- {0, 3, -1}, Second <- 4
Se == INSTANCE Session WITH MaxConnections <- 2, MaxMessages <- 2
En == INSTANCE Engine WITH Hwm <- 2, MaxFrames <- 2, MaxPings <- 1, MaxSent <- 1, MaxBoth <- 1,
                           MaxConnections <- 2
Hs == INSTANCE Handshake WITH SignatureSize <- 3, V2Size <- 5, V3Size <- 7,
          Kinds <- {"new", "v2", "v1", "old", "oldlong"}, Mechanisms <- {"NULL", "CURVE"},
          IdSizes <- {0, 2, 3}, UcharMax <- 4
Co == INSTANCE Codec WITH UcharMax <- 3, LongBytes <- 2, Batch <- 5, Frames <- 2,
                          Sizes <- {0, 1, 3, 4, 7}, Small <- 5, Big <- 9,
                          WsSizes <- {0, 1, 3, 4, 5, 6, 8, 9, 10}, Limits <- {-1, 5}
Ms == INSTANCE Msg WITH Slot <- {"a", "b"}, MaxContents <- 2, MaxBuffers <- 2, Counters <- 2
M3 == INSTANCE Msg WITH Slot <- {"a", "b", "c"}, MaxContents <- 1, MaxBuffers <- 2, Counters <- 2
Io == INSTANCE IoPoller WITH Fd <- {1, 2}, MaxRegs <- 4, MaxOps <- 4,
          Kinds <- {"epoll", "kqueue", "poll", "select", "devpoll", "pollset"},
          Handshake <- 1, Interval <- 2, Timeout <- 3, Ttls <- {3, 9}, Scale <- 1, Width <- 8, MaxTime <- 8
Cn == INSTANCE Connecter WITH Kinds <- {"tcp", "ipc", "tipc", "ws", "vmci"}, Ivls <- {-1, 2, 5},
          IvlMaxes <- {0, 3, 6}, MaxInt <- 7, MaxTries <- 3,
          User <- 1, Password <- 0, Hosts <- {}, NameSize <- 3, ExtraSize <- 1
Sk == INSTANCE Connecter WITH Kinds <- {"tcp"}, Ivls <- {-1, 1}, IvlMaxes <- {0}, MaxInt <- 7,
          MaxTries <- 2, User <- 1, Password <- 0,
          Hosts <- {"ipv4", "ipv6", "name"}, NameSize <- 3, ExtraSize <- 1
Li == INSTANCE Listener WITH Kinds <- {"tcp", "ipc", "tipc", "ws", "vmci"},
          MaxAccepts <- 3
Ww == INSTANCE Ws WITH Secure <- TRUE, Buffer <- 5
Dg == INSTANCE Datagrams WITH Hwm <- 1, MaxMsgs <- 3, MaxEngines <- 2, Peer <- {1, 2},
          Messages <- {<<1>>, <<3>>, <<1, 2>>}, Room <- 2, MaxSent <- 2, MaxVector <- 2, MaxLost <- 1

\* The parts whose state is st.
Parts == {"session", "engine", "handshake", "codec", "msg", "msg3", "poller", "heartbeat",
          "connecter", "socks", "listener", "ws", "wsframes", "udp", "greeting", "pgm"}

Init ==
    /\ which \in Parts \cup {"yqueue", "conflate", "safe"}
    /\ Q!Init /\ C!Init /\ S!Init
    /\ which # "yqueue" => begin = <<CHOOSE c \in Chunk : TRUE, 0>>
    /\ \/ which \notin Parts /\ st = 0
       \/ which = "session" /\ Se!Init
       \/ which = "engine" /\ En!Init
       \/ which = "handshake" /\ Hs!Init
       \/ which = "codec" /\ Co!Init
       \/ which = "msg" /\ Ms!Init
       \/ which = "msg3" /\ M3!Init
       \/ which = "poller" /\ Io!Init
       \/ which = "heartbeat" /\ Io!EngineInit
       \/ which = "connecter" /\ Cn!Init
       \/ which = "socks" /\ Sk!SocksInit
       \/ which = "listener" /\ Li!Init
       \/ which = "ws" /\ Ww!Init
       \/ which = "wsframes" /\ Co!WsInit
       \/ which = "udp" /\ Dg!Init
       \/ which = "greeting" /\ Hs!GreetingInit
       \/ which = "pgm" /\ Dg!PgmInit

NextOfPart ==
    \/ which = "session" /\ Se!Next
    \/ which = "engine" /\ En!Next
    \/ which = "handshake" /\ Hs!Next
    \/ which = "codec" /\ Co!Next
    \/ which = "msg" /\ Ms!Next
    \/ which = "msg3" /\ M3!Next
    \/ which = "poller" /\ Io!Next
    \/ which = "heartbeat" /\ Io!EngineNext
    \/ which = "connecter" /\ Cn!Next
    \/ which = "socks" /\ Sk!SocksNext
    \/ which = "listener" /\ Li!Next
    \/ which = "ws" /\ Ww!Next
    \/ which = "wsframes" /\ Co!WsNext
    \/ which = "udp" /\ Dg!Next
    \/ which = "greeting" /\ Hs!GreetingNext
    \/ which = "pgm" /\ Dg!PgmNext
Next ==
    /\ UNCHANGED which
    /\ \/ which \in Parts /\ NextOfPart /\ UNCHANGED <<queue, conflate, mailbox>>
       \/ which = "yqueue" /\ Q!Next /\ UNCHANGED <<st, conflate, mailbox>>
       \/ which = "conflate" /\ C!Next /\ UNCHANGED <<st, queue, mailbox>>
       \/ which = "safe" /\ S!Next /\ UNCHANGED <<st, queue, conflate>>

Spec == Init /\ [][Next]_vars

-----------------------------------------------------------------------------
\* yqueue_t: slots come out in the order and with the values they were pushed,
\* although their memory is recycled; every chunk is in the list, or the spare,
\* or about to become it, and only one of these; a destroyed queue owns none
\* (push, unpush, pop, the destructor).
QueueIntact == which = "yqueue" => Q!Fifo /\ Q!ChunksAccounted /\ Q!NoLeak

\* Nobody sleeps over work: a reader of a conflating pipe that has gone passive
\* over a message is told (flush), and no thread sleeps on the condition
\* variable or a signaler of a thread-safe socket that has a command
\* (mailbox_safe_t::send and recv).
NobodyAsleep ==
    /\ which = "conflate" => C!ReaderTold
    /\ which = "safe" => S!NoSleeperLeft

\* A conflating pipe is read in order and keeps the newest message unless
\* dbuffer_t::write failed to get the lock; each command to a thread-safe socket
\* is received by one thread, one thread at a time touching the pipe.
NothingLost ==
    /\ which = "conflate" => C!NewerOnly /\ C!Newest
    /\ which = "safe" => S!NothingLost /\ S!OneInside

\* The assertions of session_base.cpp, stream_engine_base.cpp, zmtp_engine.cpp,
\* encoder.hpp, poller_base.cpp, the pollers, connecters, listeners, udp_engine.cpp
\* and pgm_receiver.cpp fail in no order in which the engine, the pipe, the ZAP
\* handler, the timers, the system's answers and the owner come, but these: an
\* engine fails with half a message read off a pipe that was ended meanwhile; a
\* ZAP reply comes to a session that has neither engine nor pipe; a heartbeat
\* falls due on a connection that broke while its input was stopped; a
\* connection starts with a full pipe; a SOCKS connecter is connected at once, or
\* ordered to end while it waits after an error; accept finds no memory (ipc,
\* tipc) or no descriptor (ipc).  Each exception is a conjunct of the part's property.  A peer is not
\* dropped before the time to live it announced, if that fits 16 bits of
\* milliseconds, and a connecter waits for the intervals it was given.
TransportAssertionsHold ==
    /\ which = "session" => Se!AssertionsHold
    /\ which = "engine" => En!AssertionsHold
    /\ which = "codec" => Co!AssertionsHold
    /\ which = "poller" => Io!AssertionsHold /\ Io!LoadCounts
    /\ which = "heartbeat" => Io!EngineAssertionsHold /\ Io!TtlGranted
    /\ which = "connecter" => Cn!AssertionsHold /\ Cn!BacksOff
    /\ which = "socks" => Sk!SocksAssertionsHold
    /\ which = "listener" => Li!AssertionsHold
    /\ which = "udp" => Dg!AssertionsHold
    /\ which = "pgm" => Dg!PgmAssertionsHold

\* What crosses a connection is whole and in order: every connection starts at
\* the first frame of a message, every frame of a peer reaches the pipe once
\* although the pipe refuses some of them, frames are decoded as they were
\* encoded however their bytes are cut, events reach the descriptor's owner, a
\* WebSocket takes no byte of the frames for the upgrade and sends nothing after
\* its close frame (unless a heartbeat has replaced it), a SOCKS connecter talks
\* to the proxy until it has answered (unless the answer came in two pieces),
\* a datagram is a group or address with its body, decoding starts behind the
\* greeting, and a PGM receiver joins a stream at the start of a message.
StreamsWhole ==
    /\ which = "session" => Se!ConnectionsStartClean
    /\ which = "engine" => En!FramesOnceInOrder
    /\ which = "codec" => Co!Decoded /\ Co!Complete
    /\ which = "poller" => Io!NoStrayEvents
    /\ which = "ws" => Ww!FramesKept /\ Ww!NothingAfterClose
    /\ which = "wsframes" => Co!RoundTrip
    /\ which = "socks" => Sk!TalksToProxy
    /\ which = "udp" => Dg!DatagramsWhole
    /\ which = "greeting" => Hs!DecoderPlaced
    /\ which = "pgm" => Dg!StreamsJoined /\ Dg!MessagesKept

\* Nobody waits for what will not come, or is called when gone: an engine that
\* has stopped is started again, a session that was asked to end is about to, a
\* handshake leaves both peers ready or both gone, or waiting if the ZAP exchange
\* has left one of them mute, the system watches what was asked for,
\* the timers that will fire are those set and not cancelled, a connecter or
\* listener has what it waits for and forgets no descriptor but one that could
\* not be tuned, a WebSocket engine polls for its output unless TLS would block,
\* and a UDP or PGM engine polls unless somebody will start it again; neither of
\* two greetings is held back for the other.
NobodyWaits ==
    /\ which = "session" => Se!EndIsNear
    /\ which = "engine" => En!NeverStuck
    /\ which = "handshake" => Hs!HandshakeEnds
    /\ which = "poller" => Io!WatchedAsAsked
    /\ which = "heartbeat" => Io!CancelledTimersGone
    /\ which = "connecter" => Cn!NeverIdle /\ Cn!NothingForgotten
    /\ which = "socks" => Sk!NeverIdle /\ Sk!NothingForgotten
    /\ which = "listener" => Li!NothingForgotten
    /\ which = "ws" => Ww!OutputPolled
    /\ which = "udp" => Dg!PollsOrIsTold
    /\ which = "greeting" => Hs!GreetingMoves
    /\ which = "pgm" => Dg!PgmMoves

\* A peer that is ready has agreed with the other on everything both decide:
\* in the ZMTP handshake, in the greeting and in the WebSocket upgrade before it.
ReadyMeansAgreed ==
    /\ which = "handshake" => Hs!ReadyMeansAgreed
    /\ which = "ws" => Ww!UpgradeAgreed
    /\ which = "greeting" => Hs!VersionsAgree

\* Memory that messages share is returned when the last of them goes, neither
\* before nor never: contents, receive buffers, metadata.
SharedMemory ==
    /\ which = "msg" => Ms!NothingUsedAfterFree /\ Ms!NothingLeaks
    /\ which = "msg3" => M3!NothingUsedAfterFree /\ M3!NothingLeaks
=============================================================================
