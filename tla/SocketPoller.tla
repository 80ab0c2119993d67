---------------------------- MODULE SocketPoller ----------------------------
(***************************************************************************)
(* socket_poller_t (socket_poller.cpp) and zmq_poll (zmq.cpp).  A thread   *)
(* waits on thread-safe sockets, which raise a signaler of the poller,     *)
(* on other sockets, whose mailbox has a file descriptor, and on raw file  *)
(* descriptors.  Peers write to the sockets, the context may end, and      *)
(* other threads read from the thread-safe sockets meanwhile.              *)
(***************************************************************************)
EXTENDS Integers, Sequences, SequencesExt

CONSTANTS
    Safe, Plain, Fd,  \* thread-safe sockets, other sockets, file descriptors
    Registered,       \* what the poller has at the start
    Polls,            \* the arrays given to zmq_poll
    MuteFd,           \* BOOLEAN: descriptors may be registered for no events
    Stopped,          \* sockets whose context may end
    Timeout,          \* the finite timeout
    MaxOps,           \* bound: changes of the items
    MaxMsgs           \* bound: messages to each socket

VARIABLE st

Socket == Safe \cup Plain
Poller == {"own", "poll"}   \* zmq_poller_new's, and that of a zmq_poll call
Wait == {"zero", "timed", "forever"}

\* A socket: messages in its pipe, whether the reader is active, a message is
\* there and its command not yet sent, the mailbox, the signalers
\* (mailbox_safe_t::_signalers), _ctx_terminated, messages so far.
Idle == [q |-> 0, act |-> FALSE, tell |-> FALSE, mail |-> <<>>, sig |-> {}, term |-> FALSE, n |-> 0]
\* A poller: _items, the value of _signaler, _need_rebuild, _use_signaler, _pollfds.
NewPoller == [items |-> <<>>, raised |-> 0, need |-> FALSE, use |-> FALSE, fds |-> <<>>]

\* The call in progress: the poller and its n_events_ and timeout_, first_pass,
\* the time left until end, revents, the next item, the events found and its
\* result; asked: the items_ of zmq_poll and got their revents; due: what was
\* ready at the start and has been ready since.
Start ==
    [so |-> [x \in Socket |-> Idle], fd |-> [f \in Fd |-> FALSE],
     po |-> [p \in Poller |-> NewPoller],
     pc |-> "idle", cur |-> "own", n |-> 1, wait |-> "zero", first |-> TRUE, left |-> Timeout,
     rev |-> {}, k |-> 1, found |-> <<>>, res |-> "ok", due |-> {},
     asked |-> <<>>, got |-> <<>>, assert |-> TRUE, ops |-> 0]

Asserting(s, p) == [s EXCEPT !.assert = @ /\ p]

-----------------------------------------------------------------------------
(* The sockets *)

\* A command arrives; the first one raises the signalers (mailbox_safe_t::send).
Sent(s, x, c) ==
    LET wakes == IF s.so[x].mail = <<>> THEN s.so[x].sig ELSE {} IN
    [s EXCEPT !.so[x].mail = Append(@, c),
              !.po = [p \in Poller |-> IF p \in wakes THEN [@[p] EXCEPT !.raised = @ + 1] ELSE @[p]]]
PeerWrites(x) ==
    /\ st.so[x].n < MaxMsgs /\ ~st.so[x].tell
    /\ st' = [st EXCEPT !.so[x].n = @ + 1, !.so[x].q = @ + 1, 
                        !.so[x].tell = ~st.so[x].act /\ st.so[x].q = 0]
PeerTells(x) ==
    st.so[x].tell /\ st' = Sent([st EXCEPT !.so[x].tell = FALSE], x, "activate_read")
Stop(x) ==
    /\ ~st.so[x].term /\ ~Contains(st.so[x].mail, "stop")
    /\ st' = Sent(st, x, "stop")

\* process_commands; xhas_in, which puts the reader of an empty pipe to sleep.
Processed(r) ==
    [r EXCEPT !.mail = <<>>, !.act = @ \/ Contains(r.mail, "activate_read"),
              !.term = @ \/ Contains(r.mail, "stop")]
HasIn(r) == r.act /\ r.q > 0
Looked(r) == [r EXCEPT !.act = @ /\ r.q > 0]

\* A message is received without waiting: by this thread between its calls, or
\* by another thread from a thread-safe socket.
recv(x) ==
    /\ st.pc = "idle" \/ x \in Safe
    /\ LET r == IF HasIn(st.so[x]) THEN st.so[x] ELSE Looked(Processed(st.so[x])) IN
       /\ HasIn(r)
       /\ st' = [st EXCEPT !.so[x] = [r EXCEPT !.q = @ - 1], !.due = @ \ {x}]

FdReady(f) == ~st.fd[f] /\ st' = [st EXCEPT !.fd[f] = TRUE]
FdRead(f) == st.pc = "idle" /\ st.fd[f] /\ st' = [st EXCEPT !.fd[f] = FALSE]
\* The clock, once the end of the wait is set.
Tick ==
    /\ st.wait = "timed" /\ (st.pc = "sleep" \/ (st.pc = "poll" /\ ~st.first)) /\ st.left > 0
    /\ st' = [st EXCEPT !.left = @ - 1]

-----------------------------------------------------------------------------
(* The items of a poller *)

ItemOf(items, x) == {i \in 1..Len(items) : items[i].x = x}
EventsAllowed(x, ev) == x \in Fd /\ ev = {} => MuteFd

\* add and add_fd, modify and modify_fd, remove and remove_fd; each is an
\* error (EINVAL) and changes nothing if the item is there, or is not.
\* Mutant of Added: the poll set is not made anew.
AddedUnnoticed(s, p, x, ev) ==
    [s EXCEPT !.po[p].items = Append(@, [x |-> x, ev |-> ev, idx |-> 0]),
              !.so = IF x \in Safe THEN [@ EXCEPT ![x].sig = @ \cup {p}] ELSE @]
Added(s, p, x, ev) ==
    [s EXCEPT !.po[p].items = Append(@, [x |-> x, ev |-> ev, idx |-> 0]), !.po[p].need = TRUE,
              !.so = IF x \in Safe THEN [@ EXCEPT ![x].sig = @ \cup {p}] ELSE @]
Modified(s, p, x, ev) ==
    [s EXCEPT !.po[p].items = [i \in DOMAIN @ |-> IF @[i].x = x THEN [@[i] EXCEPT !.ev = ev] ELSE @[i]],
              !.po[p].need = TRUE]
Removed(s, p, x) ==
    [s EXCEPT !.po[p].items = SelectSeq(@, LAMBDA i : i.x # x), !.po[p].need = TRUE,
              !.so = IF x \in Safe THEN [@ EXCEPT ![x].sig = @ \ {p}] ELSE @]
Init ==
    LET Put(s, x) == Added(s, "own", x, {"in"}) IN st = FoldLeft(Put, Start, Registered)
add(x, ev) ==
    /\ st.pc = "idle" /\ st.ops < MaxOps /\ ItemOf(st.po["own"].items, x) = {}
    /\ EventsAllowed(x, ev)
    /\ st' = [Added(st, "own", x, ev) EXCEPT !.ops = @ + 1]
modify(x, ev) ==
    /\ st.pc = "idle" /\ st.ops < MaxOps /\ ItemOf(st.po["own"].items, x) # {}
    /\ EventsAllowed(x, ev)
    /\ st' = [Modified(st, "own", x, ev) EXCEPT !.ops = @ + 1]
remove(x) ==
    /\ st.pc = "idle" /\ st.ops < MaxOps /\ ItemOf(st.po["own"].items, x) # {}
    /\ st' = [Removed(st, "own", x) EXCEPT !.ops = @ + 1]

\* The poll set: one entry for all thread-safe sockets, "signaler", and one for
\* each other item with events.  A descriptor remembers its entry.
Polled(i) == i.ev # {} /\ i.x \notin Safe
rebuild(p) ==
    LET use == \E i \in Range(p.items) : i.ev # {} /\ i.x \in Safe
        own == SelectSeq(p.items, Polled)
        fds == (IF use THEN <<"signaler">> ELSE <<>>) \o [k \in DOMAIN own |-> own[k].x]
        IndexOf(i) == IF Polled(i) /\ i.x \in Fd THEN CHOOSE k \in DOMAIN fds : fds[k] = i.x ELSE i.idx
    IN  [p EXCEPT !.need = FALSE, !.use = use, !.fds = fds,
                  !.items = [k \in DOMAIN @ |-> [@[k] EXCEPT !.idx = IndexOf(p.items[k])]]]

-----------------------------------------------------------------------------
(* Waiting *)

Cur == st.po[st.cur]
\* The destructor of the poller of zmq_poll.
Destroyed(s, p) ==
    [s EXCEPT !.po[p] = NewPoller, !.so = [x \in Socket |-> [@[x] EXCEPT !.sig = @ \ {p}]]]

\* zmq_poller_poll copies the events it found to the items they belong to; as
\* long as no item is repeated, both lists have the same order.  Without a
\* poller every item has its own events.
Repeats(items) == \E i, j \in DOMAIN items : i < j /\ items[i].x = items[j].x
Transformed(items, found) ==
    LET Next1(acc, item) ==
            LET js == IF Repeats(items) THEN DOMAIN found ELSE {acc.j} \cap DOMAIN found
                hit == {j \in js : found[j].x = item.x}
            IN  IF hit = {} THEN [acc EXCEPT !.rev = Append(@, {})]
                ELSE [rev |-> Append(acc.rev, found[CHOOSE j \in hit : TRUE].ev \cap item.ev),
                      j |-> acc.j + 1]
    IN  FoldLeft(Next1, [rev |-> <<>>, j |-> 1], items).rev
Revents(s) ==
    IF \E i \in Range(s.asked) : i.x \in Safe THEN Transformed(s.asked, s.found)
    ELSE [i \in DOMAIN s.asked |-> UNION {e.ev : e \in {f \in Range(s.found) : f.k = i}}]

Return(s, r) == [s EXCEPT !.pc = "done", !.res = r, !.got = IF r = "ok" THEN Revents(s) ELSE <<>>]
\* The caller goes on.
Done ==
    /\ st.pc = "done"
    /\ LET s == IF st.cur = "poll" THEN Destroyed(st, "poll") ELSE st IN
       st' = [s EXCEPT !.pc = "idle", !.cur = "own", !.n = 1, !.wait = "zero", !.first = TRUE,
                       !.left = Timeout, !.rev = {}, !.k = 1, !.found = <<>>, !.res = "ok", !.due = {},
                       !.asked = <<>>, !.got = <<>>]

Ready(s, x) ==
    IF x \in Fd THEN s.fd[x] ELSE s.so[x].q > 0 /\ ~s.so[x].tell
Began(s, p, n, w) ==
    [s EXCEPT !.pc = "entry", !.cur = p, !.n = n, !.wait = w,
              !.due = {x \in Socket \cup Fd : \E i \in Range(s.po[p].items) :
                                                  i.x = x /\ "in" \in i.ev /\ Ready(s, x)}]
wait(n, w) ==
    st.pc = "idle" /\ st' = Began(st, "own", n, w)
\* zmq_poll: with a thread-safe socket through a poller of its own, with the
\* events of repeated items joined; without one, over an array of descriptors
\* in the order of the items.
zmq_poll(items, w) ==
    /\ st.pc = "idle"
    /\ LET Joined(s, i) ==
               LET again == {j \in 1..(i - 1) : items[j].x = items[i].x}
                   ev == UNION {items[j].ev : j \in again \cup {i}}
               IN  IF again # {} THEN Modified(s, "poll", items[i].x, ev)
                   ELSE Added(s, "poll", items[i].x, ev)
           all == FoldLeft(Joined, [st EXCEPT !.asked = items], [i \in DOMAIN items |-> i])
           plain == [st EXCEPT !.asked = items,
                               !.po["poll"] = rebuild([NewPoller EXCEPT !.items =
                                   [i \in DOMAIN items |-> [x |-> items[i].x, ev |-> items[i].ev, idx |-> 0]]])]
       IN  st' = Began(IF \E i \in Range(items) : i.x \in Safe THEN all ELSE plain,
                       "poll", Len(items), w)

\* A sleep without a timeout ends at some time (usleep (-1000)).
Expired == st.wait = "timed" => st.left = 0
\* The start of wait.  With nothing to poll for it only sleeps.
Entry ==
    /\ st.pc = "entry"
    /\ LET s == IF Cur.need THEN [st EXCEPT !.po[st.cur] = rebuild(@)] ELSE st IN
       st' = IF Cur.items = <<>> /\ st.wait = "forever" THEN Return(st, "EFAULT")
             ELSE IF s.po[s.cur].fds # <<>> THEN [s EXCEPT !.pc = "poll"]
             ELSE IF st.wait = "zero" THEN Return(s, "EAGAIN")
             ELSE [s EXCEPT !.pc = "sleep"]
Sleep == st.pc = "sleep" /\ Expired /\ st' = Return(st, "EAGAIN")

\* Whether poll reports an entry.
Signalled(s, e) ==
    CASE e = "signaler" -> s.po[s.cur].raised > 0
      [] e \in Fd -> s.fd[e]
      [] OTHER -> s.so[e].mail # <<>>
Signals == {e \in Range(Cur.fds) : Signalled(st, e)}
\* poll returns: at once in the first pass, later for an entry or at the end of
\* the timeout; then the signaler is lowered by one.
Poll ==
    /\ st.pc = "poll"
    /\ st.first \/ Signals # {} \/ (st.wait = "timed" /\ Expired)
    /\ st' = [st EXCEPT !.pc = "check", !.rev = Signals, !.k = 1,
                        !.po[st.cur].raised = IF Cur.use /\ "signaler" \in Signals THEN @ - 1 ELSE @]
\* A signal ends the call, in the first pass too.
Interrupted == st.pc = "poll" /\ Signals = {} /\ st' = Return(st, "EINTR")

\* check_events, one item at a time; a socket is asked for its events, which
\* makes it process its commands.
Checked(i) ==
    LET found(s, ev) == [s EXCEPT !.k = @ + 1,
                                  !.found = IF ev = {} THEN @ ELSE Append(@, [x |-> i.x, ev |-> ev, k |-> s.k])]
    IN
    IF i.x \in Fd
    THEN LET s == Asserting(st, i.idx # 0) IN
         found(s, IF s.assert /\ Cur.fds[i.idx] \in st.rev THEN {"in"} ELSE {})
    ELSE LET p == Processed(st.so[i.x])
             r == Looked(p)
         IN  IF p.term THEN Return([st EXCEPT !.so[i.x] = p], "ETERM")
             ELSE found([st EXCEPT !.so[i.x] = r],
                        i.ev \cap ({"out"} \cup IF HasIn(r) THEN {"in"} ELSE {}))
Check ==
    /\ st.pc = "check" /\ st.k <= Len(Cur.items) /\ Len(st.found) < st.n
    /\ st' = Checked(Cur.items[st.k])
\* What follows: return, give up (adjust_timeout), or poll again.
Checked_all ==
    /\ st.pc = "check" /\ (st.k > Len(Cur.items) \/ Len(st.found) = st.n)
    /\ st' = IF st.found # <<>> THEN Return(st, "ok")
             ELSE IF st.wait = "zero" \/ (st.wait = "timed" /\ ~st.first /\ Expired)
             THEN Return(st, "EAGAIN")
             ELSE [st EXCEPT !.pc = "poll", !.first = FALSE, !.rev = {}, !.k = 1]

Interest == {{}, {"in"}}
Next ==
    \/ \E x \in Socket : PeerWrites(x) \/ PeerTells(x) \/ recv(x)
    \/ \E x \in Stopped : Stop(x)
    \/ \E f \in Fd : FdReady(f) \/ FdRead(f)
    \/ Tick
    \/ \E x \in Socket \cup Fd : remove(x) \/ \E ev \in Interest : add(x, ev) \/ modify(x, ev)
    \/ \E w \in Wait : (\E n \in {1, 2} : wait(n, w)) \/ \E items \in Polls : zmq_poll(items, w)
    \/ Entry \/ Sleep \/ Poll \/ Interrupted \/ Check \/ Checked_all \/ Done

Spec == Init /\ [][Next]_st

-----------------------------------------------------------------------------
\* A wait that sleeps in poll is woken if an item it wants to read has a
\* message or its socket a command: the descriptor polled for it is signalled,
\* although other threads process the commands of thread-safe sockets and the
\* items have changed since the poll set was built.
WaiterIsWoken ==
    st.pc = "poll" /\ ~st.first =>
        \A i \in Range(Cur.items) :
            /\ "in" \in i.ev
            /\ IF i.x \in Fd THEN st.fd[i.x] ELSE st.so[i.x].mail # <<>> \/ HasIn(st.so[i.x])
            => Signals # {}

\* A wait does not end with EAGAIN although an item was ready all the time, nor
\* before its time.
SucceedsWhenDue ==
    st.pc = "done" /\ st.res = "EAGAIN" =>
        st.due = {} /\ (st.wait = "timed" => st.left = 0)

\* zmq_poll gives each of its items none but the events it asked for, reports
\* all that was found, and returns when there is some.
PollReports ==
    st.pc = "done" /\ st.got # <<>> =>
        /\ \A i \in DOMAIN st.got : st.got[i] \subseteq st.asked[i].ev
        /\ \A e \in Range(st.found) :
               e.ev \subseteq UNION {st.got[i] : i \in {j \in DOMAIN st.got : st.asked[j].x = e.x}}
        /\ \E i \in DOMAIN st.got : st.got[i] # {}

\* No entry outside the poll set is read (pollfd_index).
AssertionsHold == st.assert
=============================================================================
