------------------------------ MODULE Conflate ------------------------------
(***************************************************************************)
(* ypipe_conflate_t (ypipe_conflate.hpp) over dbuffer_t (dbuffer.hpp), the *)
(* pipe of a socket with ZMQ_CONFLATE, which keeps the newest message      *)
(* only, between the two ends of a pipe_t.  The writer never blocks: when  *)
(* the reader holds the buffer's mutex the message stays in the back       *)
(* buffer.  Messages are numbered in the order written.  The safety        *)
(* properties are proved for any number of messages.                       *)
(***************************************************************************)
EXTENDS Naturals, TLAPS

CONSTANT MaxWrites  \* bound on the messages written

VARIABLES
    written,      \* messages written so far
    flushing,     \* the writer is between write and flush
    back, front,  \* the two buffers: a message, or 0 for none
    missed,       \* the reader held _sync when the last message was written
    hasMsg,       \* _has_msg
    lock,         \* the reader holds _sync: in "check", "probe" or "read"
    awake,        \* reader_awake
    inActive,     \* the reading pipe_t's _in_active
    pc,           \* the lock the reader takes next, or "empty"
    activations,  \* activate_read commands under way
    last,         \* the newest message read
    order         \* no message was read out of order or twice

vars == <<written, flushing, back, front, missed, hasMsg, lock, awake, inActive, pc,
          activations, last, order>>

\* A pipe_t starts with _in_active set.
Init ==
    /\ written = 0 /\ flushing = FALSE /\ back = 0 /\ front = 0 /\ missed = FALSE
    /\ hasMsg = FALSE /\ lock = "none"
    /\ awake = FALSE /\ inActive = TRUE /\ pc = "check"
    /\ activations = 0 /\ last = 0 /\ order = TRUE

\* Mutant of Moves: a message that has not been read is kept.
MovesIfRead == lock = "none" /\ ~hasMsg
Moves == lock = "none"
\* write: the back buffer is moved to the front if try_lock succeeds.
Write ==
    /\ ~flushing /\ written < MaxWrites /\ written' = written + 1
    /\ IF Moves THEN front' = written' /\ hasMsg' = TRUE /\ back' = 0
       ELSE back' = written' /\ UNCHANGED <<front, hasMsg>>
    /\ missed' = (lock # "none") /\ flushing' = TRUE
    /\ UNCHANGED <<lock, awake, inActive, pc, activations, last, order>>

\* Mutant of ReaderAwake: a reader that has not yet found nothing is awake.
AwakeWhenActive == inActive
ReaderAwake == awake
\* pipe_t::flush tells the reader unless it is awake.
Flush ==
    /\ flushing /\ flushing' = FALSE
    /\ activations' = IF ReaderAwake THEN activations ELSE activations + 1
    /\ UNCHANGED <<written, back, front, missed, hasMsg, lock, awake, inActive, pc, last, order>>

\* The reader locks the buffer for check_read, probe or read.
Lock ==
    /\ inActive /\ lock = "none" /\ pc # "empty" /\ lock' = pc
    /\ UNCHANGED <<written, flushing, back, front, missed, hasMsg, awake, inActive, pc,
                   activations, last, order>>
\* check_read, followed by pipe_t::check_read's probe for the delimiter or by
\* dbuffer_t::read.
Check ==
    /\ lock = "check" /\ lock' = "none"
    /\ pc' \in IF hasMsg THEN {"probe", "read"} ELSE {"empty"}
    /\ UNCHANGED <<written, flushing, back, front, missed, hasMsg, awake, inActive,
                   activations, last, order>>
Probe ==
    /\ lock = "probe" /\ lock' = "none" /\ pc' = "check"
    /\ UNCHANGED <<written, flushing, back, front, missed, hasMsg, awake, inActive,
                   activations, last, order>>
\* Mutant of Left: the message stays readable.
LeftReadable == hasMsg
Left == FALSE
Read ==
    /\ lock = "read" /\ lock' = "none" /\ pc' = "check"
    /\ order' = (order /\ hasMsg /\ front > last) /\ last' = front
    /\ front' = (IF Left THEN front ELSE 0) /\ hasMsg' = Left
    /\ UNCHANGED <<written, flushing, back, missed, awake, inActive, activations>>

\* check_read failed: both the pipe and pipe_t note it, without the lock.
Empty ==
    /\ pc = "empty" /\ awake' = FALSE /\ inActive' = FALSE /\ pc' = "check"
    /\ UNCHANGED <<written, flushing, back, front, missed, hasMsg, lock, activations, last, order>>

\* pipe_t::process_activate_read, by the thread that reads.
process_activate_read ==
    /\ activations > 0 /\ lock = "none" /\ pc # "empty"
    /\ activations' = activations - 1 /\ inActive' = TRUE
    /\ UNCHANGED <<written, flushing, back, front, missed, hasMsg, lock, awake, pc, last, order>>

Next == Write \/ Flush \/ Lock \/ Check \/ Probe \/ Read \/ Empty \/ process_activate_read
Spec == Init /\ [][Next]_vars

-----------------------------------------------------------------------------
\* A reader that has gone passive over a message in the buffer is about to be
\* told: flush's answer is never stale, although reader_awake is written by the
\* reader and read by the writer without a lock.
ReaderTold == hasMsg /\ ~inActive => activations > 0 \/ flushing

\* Messages are read in the order written, none twice, and read never finds
\* the buffer empty after check_read has found a message.
NewerOnly == order

\* The newest message is in the buffer or has been read, unless try_lock failed
\* when it was written.
Newest == written = (IF hasMsg THEN front ELSE last) \/ missed

\* "If set, a socket shall keep only one message in its inbound/outbound queue,
\* this message being the last message received/the last message to be sent":
\* when writer and reader are done, the last message written has been read.
LastMessageKept ==
    ~flushing /\ activations = 0 /\ ~inActive => last = written

-----------------------------------------------------------------------------
CTypes ==
    /\ written \in Nat /\ back \in Nat /\ front \in Nat /\ last \in Nat /\ activations \in Nat
    /\ \A b \in {flushing, missed, hasMsg, awake, inActive, order} : b \in BOOLEAN
    /\ lock \in {"none", "check", "probe", "read"} /\ pc \in {"check", "probe", "read", "empty"}

\* The reader locks while it is active, for the step it is at; between check_read
\* and read the message stays; a message is newer than the last one read.
Reader ==
    /\ lock # "none" => lock = pc /\ inActive
    /\ pc # "check" => inActive
    /\ pc \in {"probe", "read"} => hasMsg
    /\ hasMsg => front > last /\ front <= written
    /\ last <= written

\* Whoever found the buffer empty, although a message has come since, is told:
\* flush always tells, because reader_awake is never set.
Told ==
    /\ ~awake
    /\ hasMsg /\ (~inActive \/ pc = "empty") => activations > 0 \/ flushing

CInv == CTypes /\ Reader /\ Told /\ order /\ Newest

\* A new pipe satisfies the invariant.
LEMMA InitCInv == Init => CInv
  <1> SUFFICES ASSUME Init PROVE CInv
    OBVIOUS
  <1>1. CTypes
    <2>1. \A b \in {flushing, missed, hasMsg, awake, inActive, order} : b \in BOOLEAN
      BY Zenon DEF Init
    <2>2. QED
      BY <2>1 DEF Init, CTypes
  <1>2. Reader /\ Told /\ order /\ Newest
    BY DEF Init, Reader, Told, Newest
  <1>3. QED
    BY <1>1, <1>2 DEF CInv

\* Every step of the writer and of the reader preserves it.
LEMMA NextCInv == CInv /\ [Next]_vars => CInv'
  <1> SUFFICES ASSUME CInv, [Next]_vars PROVE CInv'
    OBVIOUS
  <1> USE DEF CInv
  <1>1. CASE Write
    <2>1. /\ written' = written + 1 /\ missed' = (lock # "none") /\ flushing' = TRUE
          /\ UNCHANGED <<lock, awake, inActive, pc, activations, last, order>>
      BY <1>1 DEF Write
    <2>2. \/ lock = "none" /\ front' = written + 1 /\ hasMsg' = TRUE /\ back' = 0
          \/ lock # "none" /\ back' = written + 1 /\ UNCHANGED <<front, hasMsg>>
      BY <1>1, <2>1 DEF Write, Moves
    <2>3. hasMsg' \in BOOLEAN /\ missed' \in BOOLEAN /\ flushing' \in BOOLEAN
      BY Zenon, <2>1, <2>2 DEF CTypes
    <2>4. CTypes'
      BY <2>1, <2>2, <2>3 DEF CTypes
    <2>5. Reader'
      BY <2>1, <2>2 DEF CTypes, Reader
    <2>6. Told'
      BY <2>1, <2>2 DEF Told
    <2>7. Newest' /\ order'
      BY Zenon, <2>1, <2>2 DEF Newest, CTypes
    <2>8. QED
      BY <2>4, <2>5, <2>6, <2>7
  <1>2. CASE Flush
    <2>1. /\ activations' = activations + 1 /\ flushing' = FALSE
          /\ UNCHANGED <<written, back, front, missed, hasMsg, lock, awake, inActive, pc, last, order>>
      BY <1>2 DEF Flush, ReaderAwake, Told
    <2>2. CTypes'
      <3>1. flushing' \in BOOLEAN
        BY Zenon, <2>1
      <3>2. activations' \in Nat
        BY <2>1 DEF CTypes
      <3>3. QED
        BY <2>1, <3>1, <3>2 DEF CTypes
    <2>3. Reader' /\ Newest' /\ order'
      BY <2>1 DEF Reader, Newest
    <2>4. Told'
      BY <2>1 DEF Told, CTypes
    <2>5. QED
      BY <2>2, <2>3, <2>4
  <1>3. CASE Lock
    <2>1. /\ inActive /\ lock = "none" /\ pc # "empty" /\ lock' = pc
          /\ UNCHANGED <<written, flushing, back, front, missed, hasMsg, awake, inActive, pc,
                         activations, last, order>>
      BY <1>3 DEF Lock
    <2>2. CTypes'
      BY <2>1 DEF CTypes
    <2>3. Reader' /\ Newest' /\ order' /\ Told'
      BY <2>1 DEF Reader, Newest, Told
    <2>4. QED
      BY <2>2, <2>3
  <1>4. CASE Check \/ Probe
    <2>1. /\ lock \in {"check", "probe"} /\ lock' = "none"
          /\ UNCHANGED <<written, flushing, back, front, missed, hasMsg, awake, inActive,
                         activations, last, order>>
      BY <1>4 DEF Check, Probe
    <2>2. pc' = "check" \/ (hasMsg /\ pc' \in {"probe", "read"}) \/ (~hasMsg /\ pc' = "empty")
      BY <1>4 DEF Check, Probe
    <2>3. CTypes'
      BY <2>1, <2>2 DEF CTypes
    <2>4. Reader' /\ Newest' /\ order' /\ Told'
      BY <2>1, <2>2 DEF Reader, Newest, Told
    <2>5. QED
      BY <2>3, <2>4
  <1>5. CASE Read
    <2>1. /\ lock = "read" /\ lock' = "none" /\ pc' = "check" /\ last' = front /\ front' = 0
          /\ hasMsg' = FALSE
          /\ UNCHANGED <<written, flushing, back, missed, awake, inActive, activations>>
      BY <1>5 DEF Read, Left
    <2>2. hasMsg /\ front > last
      BY <2>1 DEF Reader
    <2>3. order' = TRUE
      BY Zenon, <1>5, <2>2 DEF Read
    <2>4. CTypes'
      BY Zenon, <2>1, <2>3 DEF CTypes
    <2>5. Reader' /\ Told'
      BY <2>1, <2>2 DEF Reader, Told
    <2>6. Newest' /\ order'
      BY <2>1, <2>2, <2>3 DEF Newest
    <2>7. QED
      BY <2>4, <2>5, <2>6
  <1>6. CASE Empty
    <2>1. /\ pc = "empty" /\ awake' = FALSE /\ inActive' = FALSE /\ pc' = "check"
          /\ UNCHANGED <<written, flushing, back, front, missed, hasMsg, lock, activations, last, order>>
      BY <1>6 DEF Empty
    <2>2. CTypes'
      BY Zenon, <2>1 DEF CTypes
    <2>3. Reader' /\ Newest' /\ order' /\ Told'
      BY <2>1 DEF Reader, Newest, Told, CTypes
    <2>4. QED
      BY <2>2, <2>3
  <1>7. CASE process_activate_read
    <2>1. /\ activations > 0 /\ lock = "none" /\ pc # "empty"
          /\ activations' = activations - 1 /\ inActive' = TRUE
          /\ UNCHANGED <<written, flushing, back, front, missed, hasMsg, lock, awake, pc, last, order>>
      BY <1>7 DEF process_activate_read
    <2>2. CTypes'
      BY <2>1 DEF CTypes
    <2>3. Reader' /\ Newest' /\ order' /\ Told'
      BY <2>1 DEF Reader, Newest, Told
    <2>4. QED
      BY <2>2, <2>3
  <1>8. CASE UNCHANGED vars
    BY <1>8 DEF vars, CTypes, Reader, Told, Newest
  <1>9. QED
    BY <1>1, <1>2, <1>3, <1>4, <1>5, <1>6, <1>7, <1>8 DEF Next

\* The invariant holds of every behaviour.
THEOREM ConflateInvariant == Spec => []CInv
  <1>1. QED
    BY InitCInv, NextCInv, PTL DEF Spec

\* A reader that went passive over a message in the buffer is about to be told
\* (ypipe_conflate_t::flush and check_read).
THEOREM ReaderToldHolds == Spec => []ReaderTold
  <1>1. CInv => ReaderTold
    BY DEF CInv, Told, ReaderTold
  <1>2. QED
    BY ConflateInvariant, <1>1, PTL

\* Messages are read in the order written and none twice, and the newest one is
\* in the buffer or was read unless try_lock failed when it was written
\* (dbuffer_t::write and read).
THEOREM NewestHolds == Spec => [](NewerOnly /\ Newest)
  <1>1. CInv => NewerOnly /\ Newest
    BY DEF CInv, NewerOnly
  <1>2. QED
    BY ConflateInvariant, <1>1, PTL
=============================================================================
