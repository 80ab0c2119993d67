------------------------------ MODULE WakeQueue ------------------------------
(***************************************************************************)
(* What a ypipe_t promises the thread that writes and the thread that      *)
(* reads: a FIFO of messages whose parts become readable only when the     *)
(* whole message was written and flushed, and which tells the writer,      *)
(* exactly when it is needed, that the reader has gone to sleep on the     *)
(* empty queue and has to be woken.  Every operation is one atomic step.   *)
(***************************************************************************)
EXTENDS Naturals, Sequences

CONSTANT
    Val         \* payloads

VARIABLES
    reader,     \* "waits" for wake-ups, or "polls": also tries again by itself
    ready,      \* flushed parts not read yet
    pending,    \* parts of complete messages not flushed yet
    partial,    \* parts of the message being written
    got,        \* parts the reader has taken, in order
    asleep,     \* the reader's last attempt found the queue empty
    idle,       \* the queue knows that the reader went to sleep
    wakes       \* wake-ups the writer owes or has sent, not yet consumed

vars == <<reader, ready, pending, partial, got, asleep, idle, wakes>>

Part == [val : Val, more : BOOLEAN]

Polling == reader = "polls"

Init ==
    /\ reader \in {"waits", "polls"}
    /\ ready = <<>> /\ pending = <<>> /\ partial = <<>> /\ got = <<>>
    /\ asleep = FALSE /\ idle = FALSE /\ wakes = 0

Write(p) ==
    /\ IF p.more
       THEN partial' = Append(partial, p) /\ UNCHANGED pending
       ELSE pending' = (pending \o partial) \o <<p>> /\ partial' = <<>>
    /\ UNCHANGED <<ready, got, asleep, idle, wakes>>

Unwrite ==
    /\ partial # <<>>
    /\ partial' = SubSeq(partial, 1, Len(partial) - 1)
    /\ UNCHANGED <<ready, pending, got, asleep, idle, wakes>>

\* The reader is awake: nobody has to be told.
Flush ==
    /\ ~idle /\ pending # <<>>
    /\ ready' = ready \o pending /\ pending' = <<>>
    /\ UNCHANGED <<partial, got, asleep, idle, wakes>>

\* The reader sleeps: the caller of flush is obliged to wake it.
FlushAndWake ==
    /\ idle /\ pending # <<>>
    /\ ready' = ready \o pending /\ pending' = <<>>
    /\ idle' = FALSE /\ wakes' = wakes + 1
    /\ UNCHANGED <<partial, got, asleep>>

Read ==
    /\ ~asleep \/ Polling
    /\ ready # <<>>
    /\ got' = Append(got, Head(ready)) /\ ready' = Tail(ready)
    /\ asleep' = FALSE
    /\ UNCHANGED <<pending, partial, idle, wakes>>

ReadNothing ==
    /\ ~asleep \/ Polling
    /\ ready = <<>>
    /\ asleep' = TRUE /\ idle' = TRUE
    /\ UNCHANGED <<ready, pending, partial, got, wakes>>

WakeUp ==
    /\ wakes > 0
    /\ wakes' = wakes - 1 /\ asleep' = FALSE
    /\ UNCHANGED <<ready, pending, partial, got, idle>>

Next ==
    /\ UNCHANGED reader
    /\ \/ \E p \in Part : Write(p)
       \/ Unwrite \/ Flush \/ FlushAndWake
       \/ Read \/ ReadNothing \/ WakeUp

Spec == Init /\ [][Next]_vars
=============================================================================
