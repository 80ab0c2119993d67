------------------------------- MODULE YPipe --------------------------------
(***************************************************************************)
(* ypipe_t (ypipe.hpp): the lock-free pipe between one writing and one     *)
(* reading thread.  The queue behind it is an unbounded array of slots;    *)
(* a pointer to a slot is the slot's index (YQueue models the chunks the   *)
(* slots live in).  The only word both threads write is c, so an operation *)
(* is one step, except flush, whose failed compare-and-swap and whose      *)
(* plain store to c are two.                                               *)
(***************************************************************************)
EXTENDS Integers, Sequences

CONSTANTS
    Val,        \* payloads
    NULL,       \* the null pointer: the reader is asleep
    MaxSlots    \* bound on the slots ever in use

ASSUME NullAssumption == NULL \notin Int
ASSUME BoundAssumption == MaxSlots \in Nat

VARIABLES
    reader,     \* "waits" for a wake-up after it found nothing, or "polls"
    buf,        \* slots 0 .. Len(buf)-1 hold parts; slot Len(buf) is back()
    front,      \* index of front(): reader only
    r,          \* first un-prefetched slot: reader only
    w,          \* first un-flushed slot: writer only
    f,          \* first slot of the next flush's end: writer only
    c,          \* past the last flushed slot, NULL when the reader sleeps
    wpc,        \* "idle", or "set" between flush's failed cas and c.set
    got,        \* parts handed to the reader's caller
    asleep,     \* the reader's caller was told there is nothing to read
    wakes       \* wake-ups due to flush returning false, not consumed yet

vars == <<reader, buf, front, r, w, f, c, wpc, got, asleep, wakes>>

Part == [val : Val, more : BOOLEAN]
Back == Len(buf)
Polling == reader = "polls"

\* The constructor: the terminator is slot 0 and every pointer points to it.
Init ==
    /\ reader \in {"waits", "polls"}
    /\ buf = <<>> /\ front = 0
    /\ r = 0 /\ w = 0 /\ f = 0 /\ c = 0
    /\ wpc = "idle" /\ got = <<>> /\ asleep = FALSE /\ wakes = 0

\* Mutant of Write: the flush pointer also moves past an incomplete part.
WriteExposesPart(p) ==
    /\ wpc = "idle" /\ Back < MaxSlots
    /\ buf' = Append(buf, p) /\ f' = Back + 1
    /\ UNCHANGED <<front, r, w, c, wpc, got, asleep, wakes>>

Write(p) ==
    /\ wpc = "idle" /\ Back < MaxSlots
    /\ buf' = Append(buf, p)
    /\ f' = IF p.more THEN f ELSE Back + 1
    /\ UNCHANGED <<front, r, w, c, wpc, got, asleep, wakes>>

\* Mutants of Unwrite: it does not test whether the pipe is empty; it also takes
\* back complete, even flushed, parts.
UnwriteTakesComplete ==
    /\ wpc = "idle" /\ Back > 0
    /\ buf' = SubSeq(buf, 1, Back - 1)
    /\ f' = IF f = Back THEN Back - 1 ELSE f
    /\ UNCHANGED <<front, r, w, c, wpc, got, asleep, wakes>>

Unwrite ==
    /\ wpc = "idle" /\ f # Back
    /\ buf' = SubSeq(buf, 1, Back - 1)
    /\ UNCHANGED <<front, r, w, f, c, wpc, got, asleep, wakes>>

\* flush, up to and including the compare-and-swap of c.
FlushCas ==
    /\ wpc = "idle" /\ w # f
    /\ IF c = w
       THEN c' = f /\ w' = f /\ UNCHANGED wpc
       ELSE wpc' = "set" /\ UNCHANGED <<c, w>>
    /\ UNCHANGED <<buf, front, r, f, got, asleep, wakes>>

\* Mutants of FlushSet: the caller is told nothing; flush waits for a reader that waits for it.
FlushSetReturnsTrue ==
    /\ wpc = "set"
    /\ c' = f /\ w' = f /\ wpc' = "idle"
    /\ UNCHANGED <<buf, front, r, f, got, asleep, wakes>>

FlushSetWaits ==
    /\ wpc = "set" /\ c # NULL
    /\ c' = f /\ w' = f /\ wpc' = "idle" /\ wakes' = wakes + 1
    /\ UNCHANGED <<buf, front, r, f, got, asleep>>

\* flush found c = NULL: the plain store, and the false it returns makes the
\* caller send one wake-up.
FlushSet ==
    /\ wpc = "set"
    /\ c' = f /\ w' = f /\ wpc' = "idle" /\ wakes' = wakes + 1
    /\ UNCHANGED <<buf, front, r, f, got, asleep>>

Prefetched == front # r /\ r # NULL

\* check_read: the value of r it leaves, and of c.
FetchR == IF Prefetched THEN r ELSE c
FetchC == IF ~Prefetched /\ c = front THEN NULL ELSE c

Front == buf[front + 1]
\* read, from a reader that is awake (or that polls).
Read ==
    /\ ~asleep \/ Polling
    /\ r' = FetchR /\ c' = FetchC
    /\ IF r' # NULL /\ r' # front
       THEN /\ got' = Append(got, Front)
            /\ front' = front + 1
            /\ asleep' = FALSE
       ELSE asleep' = TRUE /\ UNCHANGED <<got, front>>
    /\ UNCHANGED <<buf, w, f, wpc, wakes>>

\* The reader's caller receives the wake-up and will read again.
WakeUp ==
    /\ wakes > 0
    /\ wakes' = wakes - 1 /\ asleep' = FALSE
    /\ UNCHANGED <<buf, front, r, w, f, c, wpc, got>>

Step ==
    \/ \E p \in Part : Write(p)
    \/ Unwrite \/ FlushCas \/ FlushSet \/ Read \/ WakeUp
Next == Step /\ UNCHANGED reader

Spec == Init /\ [][Next]_vars

\* A started flush runs to its end, a wake-up sent is received, and an awake
\* reader goes on reading until it is told that there is nothing.
FairSpec ==
    /\ Spec
    /\ WF_vars(FlushSet /\ UNCHANGED reader) /\ WF_vars(WakeUp /\ UNCHANGED reader)
    /\ WF_vars(Read /\ UNCHANGED reader)

-----------------------------------------------------------------------------
\* Every variable keeps its type.
TypeOK ==
    /\ reader \in {"waits", "polls"}
    /\ buf \in Seq(Part) /\ got \in Seq(Part)
    /\ front \in Nat /\ w \in Nat /\ f \in Nat
    /\ r \in Nat \cup {NULL} /\ c \in Nat \cup {NULL}
    /\ wpc \in {"idle", "set"}
    /\ asleep \in BOOLEAN /\ wakes \in Nat

\* The order of the five pointers, and what c and r may be when the reader
\* sleeps: the inductive heart of the pipe (proved in YPipeProofs).
Pointers ==
    /\ front <= w /\ w <= f /\ f <= Back
    /\ c \in {w, NULL}
    /\ r = NULL \/ (front <= r /\ r <= w)
    /\ c = NULL => front = w /\ (asleep \/ Polling)
    /\ wpc = "set" => c = NULL /\ w < f

\* No lost wake-up: when the reader was told "empty" and flush has finished
\* putting messages behind its back, a wake-up is on its way (the race of the
\* compare-and-swaps in flush and check_read).
NoLostWakeUp ==
    asleep /\ wpc = "idle" /\ front < w => wakes > 0

\* flush returns false at most once per sleep of the reader, so a reader that
\* waits for wake-ups never has two outstanding (mailbox_t::recv relies on it),
\* and an awake reader has none.
SingleWakeUp ==
    ~Polling => wakes = (IF asleep /\ c # NULL THEN 1 ELSE 0)

\* The sleep/wake-up protocol of flush and check_read: a reader told "empty" in
\* front of flushed messages has a wake-up coming, and never two.
WakeUps == NoLostWakeUp /\ SingleWakeUp

\* What the reader got is, part by part, what the writer wrote and did not
\* take back: nothing lost, duplicated or reordered across flush and unwrite.
InOrder ==
    /\ Len(got) = front /\ front <= Back
    /\ \A i \in 1 .. front : got[i] = buf[i]

\* Incomplete items are never flushed down the stream: the limits of what may
\* be read always fall behind the last part of a message.
WholeMessages ==
    /\ w \in 1 .. Back => ~buf[w].more
    /\ f \in 1 .. Back => ~buf[f].more

\* The reader gets the writer's parts in order and only complete messages are
\* within its reach.
Stream == InOrder /\ WholeMessages

\* The pipe implements the atomic queue of WakeQueue.
Queue == INSTANCE WakeQueue WITH
    ready   <- SubSeq(buf, front + 1, w),
    pending <- SubSeq(buf, w + 1, f),
    partial <- SubSeq(buf, f + 1, Back),
    idle    <- c = NULL
Refines == Queue!Spec

\* Whatever is flushed, from the moment the compare-and-swap of flush has
\* succeeded or failed, is eventually read.
Delivered == \A k \in 1 .. MaxSlots :
    w >= k \/ (wpc = "set" /\ f >= k) ~> front >= k
=============================================================================
