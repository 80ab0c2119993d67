---------------------------- MODULE MailboxSafe -----------------------------
(***************************************************************************)
(* mailbox_safe_t (mailbox_safe.cpp), the mailbox of a thread-safe socket, *)
(* and condition_variable_t (condition_variable.hpp).  Several threads     *)
(* receive: they hold the socket's mutex _sync while they use the socket   *)
(* and wait on the condition variable without it.  Pollers wait for a      *)
(* signaler registered with the mailbox instead.  The command pipe is the  *)
(* ypipe_t of WakeQueue, whose reader is whoever holds _sync.              *)
(***************************************************************************)
EXTENDS Integers, Sequences, FiniteSets

CONSTANTS
    Sender, Quota,  \* sending threads, and the commands each of them sends
    Thread,         \* threads that use the socket
    Poller,         \* those of them that wait in a poller
    Timeout,        \* timeouts of recv in clock ticks: 0, or -1 for infinite
    Second,         \* clock ticks in a second
    NULL

VARIABLES
    sync,      \* the thread that holds _sync, or NULL
    cpipe,     \* _cpipe
    idle,      \* the last read of _cpipe found nothing: flush returns false
    pc,        \* per thread: where it is in recv
    sent,      \* per sender
    signalers, \* _signalers
    signals,   \* per poller: its signaler's counter
    got,       \* commands received
    nsec       \* tv_nsec of the last deadline, in ticks

vars == <<sync, cpipe, idle, pc, sent, signalers, signals, got, nsec>>

\* The constructor has called check_read: the pipe is passive.
Init ==
    /\ sync = NULL /\ cpipe = <<>> /\ idle = TRUE
    /\ pc = [t \in Thread |-> "out"] /\ sent = [s \in Sender |-> 0]
    /\ signalers = {} /\ signals = [p \in Poller |-> 0]
    /\ got = {} /\ nsec = 0

-----------------------------------------------------------------------------
\* Mutant of Woken: one waiting thread is woken instead of all of them.
WokenOne == LET first == CHOOSE t \in Thread : pc[t] = "waiting" IN
    [t \in Thread |-> IF pc[t] = "waiting" /\ t = first THEN "woken" ELSE pc[t]]
Woken == [t \in Thread |-> IF pc[t] = "waiting" THEN "woken" ELSE pc[t]]

Tells == idle
\* send: under the mutex from beginning to end, the signals included.
send(s) ==
    /\ sync = NULL /\ sent[s] < Quota
    /\ sent' = [sent EXCEPT ![s] = @ + 1]
    /\ cpipe' = Append(cpipe, <<s, sent[s] + 1>>) /\ idle' = FALSE
    /\ pc' = IF Tells THEN Woken ELSE pc
    /\ signals' = [p \in Poller |-> IF Tells /\ p \in signalers THEN signals[p] + 1
                                    ELSE signals[p]]
    /\ UNCHANGED <<sync, signalers, got, nsec>>

\* A thread enters the socket, and leaves it.
Enter(t) ==
    /\ pc[t] = "out" /\ sync = NULL /\ (t \in Poller => t \in signalers)
    /\ sync' = t /\ pc' = [pc EXCEPT ![t] = "read"]
    /\ UNCHANGED <<cpipe, idle, sent, signalers, signals, got, nsec>>
Leave(t) ==
    /\ pc[t] = "leave" /\ sync' = NULL
    /\ pc' = [pc EXCEPT ![t] = IF t \in Poller THEN "polling" ELSE "out"]
    /\ UNCHANGED <<cpipe, idle, sent, signalers, signals, got, nsec>>

Take == got' = got \cup {Head(cpipe)} /\ cpipe' = Tail(cpipe) /\ UNCHANGED idle
Nothing == idle' = TRUE /\ UNCHANGED <<got, cpipe>>

\* condition_variable_t::wait: the deadline, from the clock's fraction now.
Normalised(n) == IF n > Second THEN n - Second ELSE n
Deadline(now, timeout) == Normalised(now + (timeout % Second))

\* recv finds a command at once (process_commands then calls it again with no
\* timeout), or nothing: it gives others a chance, or waits.
ReadFirst(t) ==
    /\ pc[t] \in {"read", "drain"}
    /\ \/ cpipe # <<>> /\ Take /\ pc' = [pc EXCEPT ![t] = "drain"]
          /\ UNCHANGED <<sync, nsec>>
       \/ /\ cpipe = <<>> /\ Nothing /\ sync' = NULL
          /\ \E timeout \in IF pc[t] = "drain" \/ t \in Poller THEN {0} ELSE Timeout :
               /\ pc' = [pc EXCEPT ![t] = IF timeout = 0 THEN "relock" ELSE "waiting"]
               /\ IF timeout > 0
                  THEN \E now \in 0..Second - 1 : nsec' = Deadline(now, timeout)
                  ELSE UNCHANGED nsec
    /\ UNCHANGED <<sent, signalers, signals>>

\* pthread_cond_wait ends by itself, or the deadline passes.
WakeSpuriously(t) ==
    /\ pc[t] = "waiting" /\ pc' = [pc EXCEPT ![t] = "woken"]
    /\ UNCHANGED <<sync, cpipe, idle, sent, signalers, signals, got, nsec>>
TimeOut(t) ==
    /\ pc[t] = "waiting" /\ pc' = [pc EXCEPT ![t] = "timedout"]
    /\ UNCHANGED <<sync, cpipe, idle, sent, signalers, signals, got, nsec>>

\* Mutant of Lockable: the waiting thread goes on without the mutex.
LockableAlways == TRUE
Lockable == sync = NULL
\* The wait, or the moment without the mutex, is over; a timeout ends recv.
Relock(t) ==
    /\ pc[t] \in {"relock", "woken", "timedout"} /\ Lockable /\ sync' = t
    /\ pc' = [pc EXCEPT ![t] = IF @ = "timedout" THEN "leave" ELSE "again"]
    /\ UNCHANGED <<cpipe, idle, sent, signalers, signals, got, nsec>>

\* "Another thread may already fetch the command."
ReadAgain(t) ==
    /\ pc[t] = "again"
    /\ \/ cpipe # <<>> /\ Take /\ pc' = [pc EXCEPT ![t] = "drain"]
       \/ cpipe = <<>> /\ Nothing /\ pc' = [pc EXCEPT ![t] = "leave"]
    /\ UNCHANGED <<sync, sent, signalers, signals, nsec>>

\* A poller registers its signaler before it first looks at the socket, wakes
\* up by a signal, and removes it.
add_signaler(p) ==
    /\ pc[p] = "out" /\ p \notin signalers /\ sync = NULL
    /\ signalers' = signalers \cup {p}
    /\ UNCHANGED <<sync, cpipe, idle, pc, sent, signals, got, nsec>>
Signalled(p) ==
    /\ pc[p] = "polling" /\ signals[p] > 0
    /\ signals' = [signals EXCEPT ![p] = @ - 1] /\ pc' = [pc EXCEPT ![p] = "out"]
    /\ UNCHANGED <<sync, cpipe, idle, sent, signalers, got, nsec>>
remove_signaler(p) ==
    /\ pc[p] = "polling" /\ sync = NULL
    /\ signalers' = signalers \ {p} /\ pc' = [pc EXCEPT ![p] = "gone"]
    /\ UNCHANGED <<sync, cpipe, idle, sent, signals, got, nsec>>

Recv(t) ==
    \/ ReadFirst(t) \/ WakeSpuriously(t) \/ TimeOut(t) \/ Relock(t) \/ ReadAgain(t)
    \/ Leave(t)
Next ==
    \/ \E s \in Sender : send(s)
    \/ \E t \in Thread : Enter(t) \/ Recv(t)
    \/ \E p \in Poller : add_signaler(p) \/ Signalled(p) \/ remove_signaler(p)

Spec == Init /\ [][Next]_vars

-----------------------------------------------------------------------------
\* A thread asleep on the condition variable, and a poller asleep on its
\* signaler, has nothing to receive: commands that one thread leaves behind, or
\* that come while another one drains the pipe, wake everybody who sleeps.
NoSleeperLeft ==
    cpipe # <<>> =>
        /\ \A t \in Thread : pc[t] # "waiting"
        /\ \A p \in Poller : pc[p] = "polling" => signals[p] > 0

\* Every command sent is in the pipe or has been received by one thread.
NothingLost ==
    /\ \A s \in Sender, n \in 1..Quota :
         n <= sent[s] <=> (<<s, n>> \in got \/ \E i \in 1..Len(cpipe) : cpipe[i] = <<s, n>>)
    /\ \A i \in 1..Len(cpipe) : cpipe[i] \notin got

\* Mutual exclusion: between entering and leaving recv, outside its waits, one
\* thread at a time touches the command pipe; the fraction of a second of a
\* deadline does not exceed a second.
OneInside ==
    /\ nsec \in 0..Second
    /\ \A t \in Thread : pc[t] \in {"read", "drain", "again", "leave"} <=> sync = t
=============================================================================
