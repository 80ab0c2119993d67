------------------------------- MODULE Mailbox ------------------------------
(***************************************************************************)
(* mailbox_t (mailbox.cpp) and the signaler_t (signaler.cpp, eventfd) it   *)
(* waits on: any number of threads send commands, one thread receives      *)
(* them.  The command pipe is the ypipe_t specified by WakeQueue; senders  *)
(* use it under the mutex _sync, but raise the signal after releasing it.  *)
(* When every command has been received the owner may delete the mailbox.  *)
(***************************************************************************)
EXTENDS Naturals, Sequences, Functions

CONSTANTS
    Sender,     \* threads that send commands
    Quota,      \* commands each of them sends before it is done
    NULL

ASSUME SenderAssumption == NULL \notin Sender \cup {"dtor"} /\ "dtor" \notin Sender
ASSUME QuotaAssumption == Quota \in Nat

VARIABLES
    sync,       \* holder of _sync: a sender, "dtor" or NULL
    cpipe,      \* commands in the pipe: <<sender, number>>
    idle,       \* the pipe's c is NULL: the receiver found it empty
    spc,        \* where each sender is: "idle", "locked", "signal"
    mustwake,   \* flush returned false to the sender that holds _sync
    sent,       \* commands each sender has put into the pipe
    signals,    \* the eventfd's counter
    active,     \* _active
    rpc,        \* where the receiver is
    got,        \* commands recv has returned
    failed      \* zmq_assert (ok) at the end of recv does not hold

vars == <<sync, cpipe, idle, spc, mustwake, sent, signals, active, rpc, got, failed>>
sendvars == <<sync, spc, mustwake, sent>>

\* A command is named by its sender and its number.
Command == Sender \X Nat

\* The constructor has called check_read once: the pipe is passive.
Init ==
    /\ sync = NULL /\ cpipe = <<>> /\ idle = TRUE
    /\ spc = [s \in Sender |-> "idle"] /\ mustwake = FALSE
    /\ sent = [s \in Sender |-> 0] /\ signals = 0
    /\ active = FALSE /\ rpc = "idle" /\ got = <<>> /\ failed = FALSE

(* send ********************************************************************)
Lock(s) ==
    /\ spc[s] = "idle" /\ sent[s] < Quota /\ sync = NULL
    /\ sync' = s /\ spc' = [spc EXCEPT ![s] = "locked"]
    /\ UNCHANGED <<cpipe, idle, mustwake, sent, signals, active, rpc, got, failed>>

\* Mutant of Enqueued: the command overtakes those in the pipe.
EnqueuedFirst(s) == <<<<s, sent[s] + 1>>>> \o cpipe
Enqueued(s) == Append(cpipe, <<s, sent[s] + 1>>)
\* _cpipe.write and _cpipe.flush, which tells whether the receiver sleeps.
WriteFlush(s) ==
    /\ spc[s] = "locked"
    /\ cpipe' = Enqueued(s)
    /\ sent' = [sent EXCEPT ![s] = @ + 1]
    /\ mustwake' = idle /\ idle' = FALSE
    /\ spc' = [spc EXCEPT ![s] = "unlock"]
    /\ UNCHANGED <<sync, signals, active, rpc, got, failed>>

\* Mutant of Unlock: a sender that need not wake the receiver still does.
UnlockAlwaysSignals(s) ==
    /\ spc[s] = "unlock"
    /\ sync' = NULL /\ mustwake' = FALSE
    /\ spc' = [spc EXCEPT ![s] = "signal"]
    /\ UNCHANGED <<cpipe, idle, sent, signals, active, rpc, got, failed>>

Unlock(s) ==
    /\ spc[s] = "unlock"
    /\ sync' = NULL /\ mustwake' = FALSE
    /\ spc' = [spc EXCEPT ![s] = IF mustwake THEN "signal" ELSE "idle"]
    /\ UNCHANGED <<cpipe, idle, sent, signals, active, rpc, got, failed>>

Signal(s) ==
    /\ spc[s] = "signal"
    /\ signals' = signals + 1
    /\ spc' = [spc EXCEPT ![s] = "idle"]
    /\ UNCHANGED <<sync, cpipe, idle, mustwake, sent, active, rpc, got, failed>>

(* recv ********************************************************************)
Take ==
    /\ got' = Append(got, Head(cpipe)) /\ cpipe' = Tail(cpipe)

RecvActive ==
    /\ rpc = "idle" /\ active
    /\ IF cpipe # <<>>
       THEN Take /\ UNCHANGED <<idle, active, rpc>>
       ELSE /\ idle' = TRUE /\ active' = FALSE /\ rpc' = "wait"
            /\ UNCHANGED <<cpipe, got>>
    /\ UNCHANGED <<sendvars, signals, failed>>

RecvPassive ==
    /\ rpc = "idle" /\ ~active
    /\ rpc' = "wait"
    /\ UNCHANGED <<sendvars, cpipe, idle, signals, active, got, failed>>

\* signaler_t::wait: the timeout expires or a signal handler interrupts it.
WaitFails ==
    /\ rpc = "wait" /\ signals = 0
    /\ rpc' = "idle"
    /\ UNCHANGED <<sendvars, cpipe, idle, signals, active, got, failed>>

\* Mutant of Signalled: wait polls for the wrong event.
NeverSignalled == FALSE
Signalled == signals > 0
\* wait succeeds and recv_failable takes one signal, returning any others.
TakeSignal ==
    /\ rpc = "wait" /\ Signalled
    /\ signals' = signals - 1 /\ active' = TRUE /\ rpc' = "read"
    /\ UNCHANGED <<sendvars, cpipe, idle, got, failed>>

ReadAfterSignal ==
    /\ rpc = "read"
    /\ IF cpipe # <<>>
       THEN Take /\ UNCHANGED failed
       ELSE failed' = TRUE /\ UNCHANGED <<cpipe, got>>
    /\ rpc' = "idle"
    /\ UNCHANGED <<sendvars, idle, signals, active>>

(* ~mailbox_t **************************************************************)
\* Everybody who may send has had its last command received by the owner.
Drained == cpipe = <<>> /\ \A s \in Sender : sent[s] = Quota

\* Mutant of DtorLock: the destructor does not wait for _sync.
DtorWithoutLock ==
    /\ rpc = "idle" /\ Drained
    /\ rpc' = "dead"
    /\ UNCHANGED <<sync, spc, mustwake, sent, cpipe, idle, signals, active, got, failed>>

DtorLock ==
    /\ rpc = "idle" /\ Drained
    /\ sync = NULL
    /\ sync' = "dtor" /\ rpc' = "unlocking"
    /\ UNCHANGED <<spc, mustwake, sent, cpipe, idle, signals, active, got, failed>>

DtorUnlock ==
    /\ rpc = "unlocking"
    /\ sync' = NULL /\ rpc' = "dead"
    /\ UNCHANGED <<spc, mustwake, sent, cpipe, idle, signals, active, got, failed>>

Send(s) == Lock(s) \/ WriteFlush(s) \/ Unlock(s) \/ Signal(s)
Recv == RecvActive \/ RecvPassive \/ WaitFails \/ TakeSignal \/ ReadAfterSignal
Next == (\E s \in Sender : Send(s)) \/ Recv \/ DtorLock \/ DtorUnlock

Spec == Init /\ [][Next]_vars

\* A sender that has the mutex or is past it finishes send, and the receiver's
\* thread keeps calling recv (an I/O thread's poller, a blocked socket call).
FairSpec ==
    /\ Spec
    /\ \A s \in Sender : WF_vars(WriteFlush(s) \/ Unlock(s) \/ Signal(s))
    /\ WF_vars(RecvActive) /\ WF_vars(RecvPassive)
    /\ WF_vars(TakeSignal) /\ WF_vars(ReadAfterSignal)

-----------------------------------------------------------------------------
\* Every variable keeps its type.
TypeOK ==
    /\ sync \in Sender \cup {"dtor", NULL}
    /\ cpipe \in Seq(Command) /\ got \in Seq(Command)
    /\ idle \in BOOLEAN /\ active \in BOOLEAN /\ mustwake \in BOOLEAN
    /\ spc \in [Sender -> {"idle", "locked", "unlock", "signal"}]
    /\ sent \in [Sender -> Nat] /\ signals \in Nat
    /\ rpc \in {"idle", "wait", "read", "unlocking", "dead"}
    /\ failed \in BOOLEAN

\* Wake-ups on their way to the receiver.
Waking == {s \in Sender : spc[s] = "signal" \/ (spc[s] = "unlock" /\ mustwake)}

\* One wake-up at a time: a wake-up is raised, or owed by exactly one sender, if
\* and only if the receiver is passive and commands are waiting, although
\* senders signal outside the lock; an active receiver is never signalled.
OneWakeUp ==
    /\ signals \in {0, 1}
    /\ signals = 1 => Waking = {}
    /\ \A s, t \in Waking : s = t
    /\ (signals = 1 \/ Waking # {}) <=> (~active /\ ~idle)
    /\ ~active => (idle <=> cpipe = <<>>)

\* recv's assertion: after taking a signal there always is a command.
CommandBehindSignal == ~failed

\* Commands of one sender are received in the order sent, none twice or never:
\* what is in the pipe continues what was received, the two together are all
\* that was sent, and the numbers of a sender rise.
All == got \o cpipe
SenderOrder ==
    /\ {All[i] : i \in 1 .. Len(All)} =
           {c \in Sender \X (1 .. Quota) : c[2] <= sent[c[1]]}
    /\ \A i, j \in 1 .. Len(All) :
           i < j /\ All[i][1] = All[j][1] => All[i][2] < All[j][2]

\* Nobody is inside send when the mailbox is gone: taking _sync once in the
\* destructor is enough although senders signal after releasing it.
NobodyInDeadMailbox == rpc = "dead" => \A s \in Sender : spc[s] = "idle"

\* Every command sent is received.
Received == \A s \in Sender, n \in 1 .. Quota :
    sent[s] >= n ~> <<s, n>> \in Range(got)
=============================================================================
