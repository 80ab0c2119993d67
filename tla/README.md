# TLA+ models of libzmq

Models of libzmq (`src/src`), the TLC configurations that check them on small
instances, and TLAPS proofs about the lock-free and locked structures its threads
share. `PROJECT.json` maps every definition to the lines it models and lists
components, runs, mutants, findings, hazards and theorems.

## The system and its parts

libzmq is a set of objects that live in threads. Application threads own sockets,
I/O threads own sessions, engines, listeners and connecters, and one reaper thread
owns the sockets that were closed. Objects do not call across threads. They send
*commands* through the mailbox of a thread, and *messages* through a pair of
`pipe_t`, each direction a lock-free `ypipe_t` over a chunked `yqueue_t`. A socket
spreads messages over its pipes with `lb_t` and `dist_t` and gathers them with
`fq_t`. On the other side of a pipe is another socket (inproc) or a session. Its
engine runs a greeting and a security handshake and then turns messages into frames.

The models follow these borders. Below the pipe everything is modelled at the level
of single atomic accesses and critical sections. `Pipe` uses a ypipe by what it
promises (`WakeQueue`), and the socket types use a pipe by what *it* promises
(`Ends`: a queue with a high water mark, a flag for each end that has found it empty
or full, and the command that wakes that end). Components that interact are modelled
together: a context with its sockets and reaper, an engine with the session's pipe and the
network, two peers in a handshake, a publisher with its subscribers.

| part of the code | module | state | steps |
|---|---|---|---|
| `ypipe_t` | `YPipe`, promise `WakeQueue`, proofs `YPipeProofs` | the pointers w, r, f, c into a queue, the reader asleep | write, unwrite, flush (exchange, then set), check_read, read, each atomic access a step |
| `yqueue_t` | `YQueue` | chunks, their links, three positions, the spare chunk | push, unpush, pop, destructor, split at the exchange of the spare chunk |
| `mailbox_t`, `signaler_t` | `Mailbox`, `MailboxProofs` | lock, command pipe, active flag, signals | send in three steps, recv with timeouts and EINTR, destructor |
| `mailbox_safe_t` | `MailboxSafe`, `MailboxSafeProofs` | mutex, condition variable, signalers | send, recv with its waits, spurious wake-ups, pollers |
| `ypipe_conflate_t`, `dbuffer_t` | `Conflate` (with proofs) | two buffers, try-lock | write, flush, check_read, probe, read |
| `pipe_t` | `Pipe`, scenarios in `MCPipe` | per end: state, counters, marks, queues, flags | read, write, flush, rollback, hiccup, terminate, set_hwms, statistics, every command |
| `own_t` | `Own` | owner, children, sequence numbers, acknowledgements | launch, term_req, term, term_ack, own, announced commands |
| `ctx_t`, `reaper_t` | `Ctx` | slots, endpoints, pending connections | create, bind, connect, close, shutdown, terminate, reap |
| `array_t` in `lb_t`, `fq_t`; `dist_t` | `PipeArray`, `PipeArrayProofs`, `Lb`, `Fq`, `Dist` | an array with sections | attach, activated, pipe_terminated, send, recv, match |
| ROUTER; REQ, DEALER, REP | `Router`; `ReqRep` | table of peers; envelopes | xattach, identify, xsend, xrecv, xpipe_terminated, handover |
| PUB, SUB, XPUB, XSUB; RADIO, DISH | `PubSub`; `Groups` | subscriptions at both ends, pending notifications | subscribe, cancel, hiccup, manual mode, join, leave |
| SERVER, CLIENT, STREAM, PAIR, DGRAM | `Peers` | routing ids, prefetched message, the one pipe | as above |
| send, recv, commands, waiting | `Calls` | mailbox, tick counters, clock | send, recv, process_commands |
| bind, connect, term_endpoint; monitor | `Endpoints` | `_endpoints`, `_inprocs`; monitor socket and lock | the calls, and what ends by itself |
| `socket_poller_t`, `zmq_poll`; proxy | `SocketPoller`; `Proxy` | items, poll set, signaler; two sockets and the pollers | add, modify, remove, wait; poll, move, steer |
| `timers_t`; options; addresses | `Timers`; `Options`; `Address` | multimap; values; texts | each call, handlers that call back |
| `trie_t`, `generic_mtrie_t`, `radix_tree_t` | `Tries` | nodes with their tables, blocks of memory | add, rm, check, match, apply |
| `msg_t` and decoder buffers | `Msg` | contents, reference counts, buffers, metadata | init, copy, move, close, add_refs, rm_refs, allocate |
| `session_base_t` | `Session` | pipes, engine, timers, pending | attach, detach, engine_error, ZAP, linger, term |
| `stream_engine_base_t`, `zmtp_engine_t` | `Engine` | input and output state, pipe, socket buffer | in_event, out_event, restart, heartbeat, error |
| greeting; NULL, PLAIN, CURVE, ZAP | `Handshake` | bytes seen and sent; states of two mechanisms | receive_greeting; next and process command, zap_msg_available |
| encoders and decoders | `Codec` | buffer positions, step functions | encode, decode in pieces |
| `ws_engine_t`, `wss_engine_t` | `Ws` | parser state, control frames | handshake of both sides, close, ping |
| pollers, `poller_base_t` | `IoPoller` | registrations, retired entries, timers | add_fd, rm_fd, set/reset, loop, timers |
| connecters, SOCKS; listeners | `Connecter`; `Listener` | descriptor, timers, state | start, in/out events, timer, term |
| `udp_engine_t`; PGM | `Datagrams` | pipe ends, pending datagram; peers and offsets | in/out events, restart; joins, losses |

`MCLists`, `MCSockets`, `MCTransport` and `MCLife` each put several of these models
on one bench: a variable `which`, fixed by the initial state, says which part a
behaviour exercises, and each property is a conjunction over the parts. The parts
of a bench share no state, so a mutant of one part says nothing of the others: the
properties of a bench have mutants in several of its parts.
Modules that hold two related models (`Handshake` with the greeting, `IoPoller` with
the timers, `Tries` with the radix tree, and so on) say so in their header.

Data are abstracted to what the properties distinguish. A message is a numbered
record, a key matches or does not, and a byte of a frame is a number. Control is kept:
each handler is one action with every call it makes, unless another thread can come
in between.

## The runs

| run | instance | what it shows |
|---|---|---|
| `ypipe` | 4 slots, 2 payloads, sleeping and polling readers | exactly one wake-up for a sleeping reader (`WakeUps`); order, whole messages, nothing unflushed within reach (`Stream`); the atomic queue is implemented (`Refines`); what is flushed is read (`Delivered`) |
| `mailbox` | 3 senders, 2 commands each | one signal per sleep (`OneWakeUp`), order per sender, safe destruction, every command received (`Received`) |
| `pipe` | six scenarios of `MCPipe` | asserted states, memory (with marks changed and statistics queried while the pipe ends), no lost activation, flow control, messages before a delayed end, termination |
| `life` | 2 sockets, 1 temporary socket, 1 signal; a tree of 3 objects | `zmq_ctx_term` returns once every socket is closed, no command reaches a dead socket, bind and connect meet; acknowledgements balance and the tree goes |
| `lists` | 3 pipes (symmetric), messages of 1 and 2 parts; keys of up to 3 characters; 2 timers; every option; endpoint texts | lists well formed, whole messages, no pipe forgotten, fair turns; tables, timers, options and addresses do what a plain map would |
| `sockets` | 2 peers (symmetric), 1 dish, 2 groups, high water mark 1, routing ids that come round | tables of peers, whole messages at the right address, replies to askers, subscriptions agreed and told, calls that return |
| `transport` | two connections, messages of 2 frames, 4 chunks, 3 threads; each transport on its own bounds | queue memory, no sleeper left, assertions, streams whole, nobody waits for ever, readiness agreed, shared memory returned once |
| `pipe_hiccup`, `ctx_hang`, `conflate_last`, `timers_late`, `handshake_timer` | | the five findings below |

**Bounds.** Every bound is a constant with "bound" in its comment, or a constant of the code made small (sizes,
widths, rates). They are chosen so that each boundary is crossed. With a high water mark of 1 or 2
every pipe fills up and drains. A `yqueue_t` of chunks of 2 with 4 pushes
crosses chunk borders in both directions and reuses the spare chunk. Two connections of a session
include one reconnection. Frame sizes lie on both sides of each
change of encoding, and a batch is smaller than the largest frame. Three pipes are the least
for which removing one, swapping and the current index interfere. Two senders of
`mailbox_safe_t` with two waiters and one poller let each wake-up go to the wrong one.
The arithmetic of a routing id, a TTL or a port keeps a modulus, with a
small width. Symmetry is used for pipes only in runs without liveness properties, and no
specification refers to a particular pipe.

**Deadlock** is not checked: every bounded application stops calling at some point. That
nobody waits while there is work is stated as properties (`NobodyWaits`, `NobodyAsleep`, `CallsReturn`, `NoLostActivation`).

**Fairness.** Weak fairness is assumed only of steps that a running thread takes
without being asked: an operation already begun goes on, a thread with a command or a
signal handles it, the reader of a pipe that is told to read reads, and an owner that was told
to end does. No fairness is assumed for what an application may choose (to send,
to connect), for timeouts or for signals. There is one exception, in `Ctx`: `TermReturns` is about applications that
close their sockets and call `zmq_ctx_term` again after EINTR, as the
documentation asks. In `YPipe` and `Pipe` the owner of a reader reads what it is told of and, in `Pipe`, flushes what it wrote.

## Findings

Each is a run whose property states what the repository says, and which TLC refutes.

- `pipe_hiccup` (`pipe.cpp:510`): a session that hiccups its pipe while the socket
  ends it drops the ypipe with the delimiter and then waits for that delimiter.
- `ctx_hang` (`ctx.cpp:164`): a connect that was already past its check leaves a pending
  inproc connection after `terminate` has connected the pending ones, and `zmq_ctx_term` never returns.
- `conflate_last` (`dbuffer.hpp:86`): the last message written stays in the back buffer when the
  reader held the lock, although `ZMQ_CONFLATE` is documented to keep the last message.
- `timers_late` (`poller_base.cpp:61`): within one pass of `execute_timers`, `cancel_timer` finds the entry just
  executed, so a new timer of an engine that is then deleted stays registered.
- `handshake_timer` (`zmtp_engine.cpp:139`): the handshake timer is cancelled after the
  greeting, before the handshake of the mechanism, which the documentation includes.

## Proofs

Proved with TLAPS for every value of the constants, without bounds.

- **`YPipeProofs`**: `Spec => []Pointers`, `[]WakeUps`, `[]Stream`, and `Spec => Refines`.
  Assumptions: NULL is not an integer, MaxSlots is a natural number (the bound on the slots may
  be any number). The properties alone are not inductive: whether a wake-up is due depends on the
  pointers that writer and reader own. `IInv` joins the order of the pointers (`Pointers`) with the count of
  wake-ups and the prefix of the queue that consists of whole messages. For the refinement, each step is
  mapped to a step of `WakeQueue` or a stutter, with three lemmas about `SubSeq` and `Append`.
- **`MailboxProofs`**: `[]OneWakeUp`, `[]CommandBehindSignal` (the assertion at the end of `recv`),
  `[]NobodyInDeadMailbox`, `[]SenderOrder` (each command is received or waiting once, behind the earlier ones of its sender), for any set of senders and any number of commands. `IInv` adds who may hold the lock (`Mutex`)
  and what the receiver knows at each of its steps (`Receiver`).
- **`MailboxSafeProofs`**: mutual exclusion, `[]NoSleeperLeft` and `[]NothingLost`, for any sets of senders, threads and pollers. The
  invariant says what the one flag of the pipe stands for: while any thread sleeps, or
  a poller is about to, the flag is set and the pipe empty, or a signal has been sent. That
  nothing is lost is an invariant of its own, from lemmas on adding and taking one command.
- **`Conflate`**: `[]ReaderTold` and `[](NewerOnly /\ Newest)` for any number of messages, from
  the reader's knowledge at each of its locks and from `reader_awake` never being set.
- **`PipeArrayProofs`**: for arrays of any length, that `activated`, `attach`, the deactivation
  of a pipe that refuses and `pipe_terminated` move exactly that pipe between the
  sections and keep the current one where `lb_t` and `fq_t` expect it.

`WakeUps`, `Stream`, `Refines`, `OneWakeUp`, `SenderOrder` and `NobodyInDeadMailbox` are properties of the runs `ypipe` and `mailbox`.
`NoSleeperLeft`, `NothingLost`, `ReaderTold` and `Newest` are conjuncts of the bench `transport`.

**Only model-checked.** Liveness (`Delivered`, `Received`, `Terminates`, `TermReturns`, `TreeGoes`), which is
out of the prover's reach, as is induction over data. The steps of `Lb`, `Fq` and `Dist` loop over pipes with recursive functions, so
their invariants rest on TLC, and the proofs stop at the operations on the array. `Tries` and other modules use recursive operators. Everything else on the benches is checked on the instances above.

## Where the code departs from a property

The models do what the code does also where a property then fails. Such a case is recorded in a
history field, and the property is stated to hold *except exactly in that case*, so that a failure of any
other kind, or for any other reason, is still found. Where the code aborts or uses freed memory, the
behaviour ends there. Each exception is reached in its run.

| property (module) | the case that is excepted |
|---|---|
| `NoUseAfterFree` (`Pipe`) | a socket changes its water marks or queries statistics while its end waits for the last acknowledgement: `pipe_hwm` or `pipe_peer_stats` is sent to an end that may be deleted (`socket_base.cpp:1526-1534`, `pipe.cpp:553-556`, `568-574`) |
| `WholeMessages`, `TypeOK` (`Lb`) | another pipe than the current one terminates in mid-message and moves `_current`, so that the rest goes to another peer (`lb.cpp:62-67`); a pipe that refuses a later part after its mark was lowered is activated twice (`lb.cpp:112`) |
| `AtomicMessages`, `OneSource` (`Fq`) | the owner ends the pipe that is being read, or another one, in mid-message, and `recvpipe` asserts (`fq.cpp:109-112`) |
| `WholeMessages` (`Dist`) | a pipe is made full in mid-message by a lowered mark and keeps the head, `dist_t` does not roll back (`dist.cpp:216-226`); a pipe of an XSUB hiccups in mid-message and gets the tail (`pipe.cpp:302-310`) |
| `AssertionsHold`, `InactiveWillWake` (`Router`) | connecting with an identity in use asserts (`router.cpp:454-464`); a pipe that is read from and has refused a message loses its name, is entered as active and then asserts (`router.cpp:505-512`, `socket_base.cpp:2022`); a pipe that is to be ended after its message ends before the application has received that, and is used again (`router.cpp:161-170`, `303-305`) |
| `AssertionsHold`, `RepliesToSender` (`Peers`) | routing ids of a SERVER come round to one in use (`server.cpp:60-67`) |
| `EndsOwnOnly` (`Endpoints`) | a session ends by itself, its entry keeps the pointer, and the memory is used again (`socket_base.cpp`, `_endpoints`) |
| `SubscriptionsAgree`, `ApplicationKnows` (`PubSub`); `GroupsAgree` (`Groups`) | a subscription or join is dropped at the high water mark, until the next connection (`xsub.cpp:287-292`, `dish.cpp:117`, `235`); the later cancellation of a dropped one is passed on as if it had been there |
| `TriesHoldLivePipes` (`PubSub`) | a manual XPUB answers a subscription whose pipe has ended; `_last_pipe` is not cleared (`xpub.cpp:264-282`) |
| `CommandsNotStarved` (`Calls`) | a signal interrupts the periodic `process_commands` of `recv`, which leaves `_ticks` beyond the rate it is compared with (`socket_base.cpp:1264-1269`) |
| `AssertionsHold` (`Session`) | an engine fails with half a message read off a pipe that was ended meanwhile (`session_base.cpp:246`); a ZAP reply finds neither engine nor pipe (`session_base.cpp:297-299`) |
| `AssertionsHold` (`Engine`) | a connection starts with a full pipe and room is told to an engine that did not stop, or its routing id is refused; a heartbeat falls due on a connection that broke while its input was stopped |
| `HandshakeEnds` (`Handshake`) | a peer falls mute and both wait: its ZAP handler answers 300, although `zap_client.cpp:298-300` says that "the client should be silently disconnected"; NULL finds no handler for a domain it enforces (`null_mechanism.cpp:81-85`), or refuses a reply that is already there (`null_mechanism.cpp:94-96`) |
| `SocksAssertionsHold`, `TalksToProxy` (`Connecter`) | the connection to the proxy is made at once, and `out_event` asserts (`socks_connecter.cpp:165-210`); an order to end comes while the connecter waits after an error, and removes the freed handle again (`socks_connecter.cpp:262-274`); a reply split after its head is read with the full length of its tail again (`socks.cpp:328-337`) |
| `NothingForgotten` (`Connecter`, `Listener`) | tuning a new descriptor fails and it is not closed (`tcp_connecter.cpp:107-109`, `tcp_listener.cpp:87-91`); a failed ipc bind or listen leaves its file or directory |
| `AssertionsHold` (`Listener`) | `accept` without descriptors (ipc) or memory (ipc, tipc) asserts (`ipc_listener.cpp:301-327`) |
| `NothingAfterClose`, `OutputPolled` (`Ws`) | a heartbeat replaces a pending close frame; a TLS write that would block stops the polling for output |
| `TtlGranted` (`IoPoller`) | a TTL that does not fit in 16 bits of milliseconds is granted its remainder (`zmtp_engine.cpp:504`) |

Five cases are still behind a constant, which the passing run sets so as to leave them out: the properties of
these modules are shown without the case, and setting the constant admits it.

| constant | the case |
|---|---|
| `Dist.Hiccups` | a hiccup makes a full pipe writable without telling `dist_t`, which then never uses it (`pipe.cpp:310`): `NoPipeForgotten` and `RightPipes` are stated of XPUB only, whose pipes do not hiccup |
| `ReqRep.DiesAtLast` | the last frame of a request meets an ending pipe and the envelope of the next is lost (`req.cpp:118-120`) |
| `ReqRep.MalformedUnwritten` | a malformed request to REP from a client that cannot be written to: the reply is lost (`router.cpp:359-366`) |
| `SocketPoller.MuteFd` | a descriptor registered for no events is looked up at a stale index (`doc/zmq_poller.txt:54`) |
| `Timers.Cases` | a handler moves a timer that has fired in the same `execute`: the entry in use is erased |

## Observations without a run

Read in the code while modelling; outside the instances, or not stated by any line of the repository.

- Pipe: raising the high water mark does not wake a writer that was refused (`pipe.cpp:524`). A credential is counted by
  `write` and not by `read` (`pipe.cpp:198-204`). Boosts of inproc connections can put the low above the high water mark.
- Context: `terminate` asserts that a slot is free for the sockets it makes for pending connections (`ctx.cpp:168-169`). It copies
  `_pending_connections` under another lock than the one `pend_connection` holds, a data race that the model has as one step.
- Condition variable: a deadline of exactly 10^9 nanoseconds is not normalised (`condition_variable.hpp:268`).
- STREAM: a routing id sent without data swallows the next message (`stream.cpp:92-126`).
- Calls: a `ZMQ_DONTWAIT` send may give EAGAIN although an activate_write is in the mailbox; that is what the throttling accepts.
- Endpoints: a UDP bind is stored under an empty key, so `zmq_unbind` does not find it (`endpoint.hpp:56`).
- Proxy: readiness flags may be stale after a burst, and a blocking send then keeps commands waiting. A poller with only one
  side spins while that side can be written.
- Timers: an interval of 0 keeps `execute` in its loop. Options: a key of 40 characters that is not Z85 is refused after it has
  partly overwritten the stored one (`options.cpp:274-291`); a `reconnect_ivl` of 0 is accepted and divided by (`stream_connecter_base.cpp:120`).
- UDP: `recvfrom` and `sendto` results are compared with EWOULDBLOCK instead of errno, so EAGAIN ends the engine
  (`udp_engine.cpp:502`, `548`). PGM: after a loss in the middle of a multi-part message its first frames stay in the pipe, and
  two senders share one pipe (`pgm_receiver.cpp:203-212`).
- Addresses: a port above 65535 is taken modulo 2^16 (`ip_resolver.cpp:219`); a WebSocket path is cut at its last slash (`ws_address.cpp:102-107`).

## Not modelled

- GSSAPI (`gssapi_*.cpp`) and NORM (`norm_engine.cpp`): optional, and driven by
  external libraries that alone define the order of their tokens and events.
- Cryptography (`tweetnacl.c`, libsodium): keys match or do not.
- Windows branches (`select.cpp`, `signaler.cpp`), `vmci.cpp`, `tipc` names, `ip.cpp`, `clock.cpp`, `thread.cpp`, `err.cpp`: calls of the
  system, whose results are choices of the environment in the models that use them.
- Most of `zmq.cpp`: argument checks in front of the calls that are modelled.
- Malformed commands of the mechanisms, property names and contents of metadata, wording and layout of events.
- XPUB welcome messages, SCATTER/GATHER refusals, raw engines beyond what they share with the base class, fork detection
  and the choice of an I/O thread by load.
- Compositions above two levels: an application, two sockets, sessions and engines at once exceed TLC's reach; each level uses the
  promise of the one below instead, and only the one of `YPipe` is shown as a refinement.
