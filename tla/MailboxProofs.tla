---------------------------- MODULE MailboxProofs ---------------------------
(***************************************************************************)
(* mailbox_t for any number of sending threads and commands.  The proof is *)
(* that of an inductive invariant that relates the mutex, the program      *)
(* counters of the senders, the pipe's idle flag and the signal counter.   *)
(***************************************************************************)
EXTENDS Mailbox, SequenceTheorems, TLAPS

\* A sender is inside the critical section of send exactly when it holds _sync;
\* the destructor likewise.
Mutex ==
    /\ \A s \in Sender : spc[s] \in {"locked", "unlock"} <=> sync = s
    /\ \A s \in Sender : spc[s] = "locked" => sent[s] < Quota
    /\ mustwake => sync \in Sender /\ spc[sync] = "unlock"
    /\ rpc = "unlocking" <=> sync = "dtor"

\* The receiver's own state.
Receiver ==
    /\ idle => ~active /\ cpipe = <<>>
    /\ rpc = "wait" => ~active
    /\ rpc = "read" => active /\ cpipe # <<>>
    /\ rpc \in {"unlocking", "dead"} =>
          /\ \A s \in Sender : spc[s] = "idle" /\ sent[s] = Quota
          /\ cpipe = <<>>

IInv ==
    /\ TypeOK
    /\ Mutex
    /\ OneWakeUp
    /\ Receiver
    /\ ~failed

\* Moving the first command of one queue to the end of another keeps both typed.
LEMMA MoveHead ==
  ASSUME NEW S, NEW q \in Seq(S), q # <<>>, NEW t \in Seq(S)
  PROVE  Tail(q) \in Seq(S) /\ Append(t, Head(q)) \in Seq(S)
  OBVIOUS

\* A new mailbox satisfies the invariant.
LEMMA InitIInv == Init => IInv
  <1> SUFFICES ASSUME Init PROVE IInv
    OBVIOUS
  <1>1. {idle, active, mustwake, failed} \subseteq BOOLEAN
    BY Zenon DEF Init
  <1>2. TypeOK
    BY <1>1 DEF Init, TypeOK
  <1>3. Mutex /\ OneWakeUp /\ Receiver /\ ~failed
    BY SenderAssumption DEF Init, Mutex, OneWakeUp, Waking, Receiver
  <1>4. QED
    BY <1>2, <1>3 DEF IInv

\* Every step of send, recv and the destructor preserves it.
LEMMA NextIInv == IInv /\ [Next]_vars => IInv'
  <1> SUFFICES ASSUME IInv, [Next]_vars PROVE IInv'
    OBVIOUS
  <1> USE SenderAssumption, QuotaAssumption DEF IInv
  <1>1. ASSUME NEW s \in Sender, Lock(s) PROVE IInv'
    <2>1. TypeOK'
      BY <1>1 DEF Lock, TypeOK
    <2>2. Mutex'
      BY <1>1 DEF Lock, TypeOK, Mutex, Receiver
    <2>3. OneWakeUp'
      BY <1>1 DEF Lock, TypeOK, Mutex, OneWakeUp, Waking, Receiver
    <2>4. Receiver'
      BY <1>1 DEF Lock, TypeOK, Mutex, OneWakeUp, Waking, Receiver
    <2>5. ~failed'
      BY <1>1 DEF Lock, TypeOK, Receiver
    <2>6. QED
      BY <2>1, <2>2, <2>3, <2>4, <2>5
  <1>2. ASSUME NEW s \in Sender, WriteFlush(s) PROVE IInv'
    <2>a. mustwake' \in BOOLEAN /\ idle' \in BOOLEAN
      BY Zenon, <1>2 DEF WriteFlush, Enqueued, TypeOK
    <2>b. sent[s] + 1 \in Nat /\ <<s, sent[s] + 1>> \in Command
      BY DEF TypeOK, Command
    <2>c. cpipe' \in Seq(Command) /\ sent' \in [Sender -> Nat]
      BY <1>2, <2>b DEF WriteFlush, Enqueued, TypeOK
    <2>1. TypeOK'
      BY <1>2, <2>a, <2>c DEF WriteFlush, Enqueued, TypeOK
    <2>2. Mutex'
      BY <1>2 DEF WriteFlush, Enqueued, TypeOK, Mutex, Receiver
    <2>3. OneWakeUp'
      BY SMTT(30), <1>2 DEF WriteFlush, Enqueued, TypeOK, Mutex, OneWakeUp, Waking, Receiver
    <2>4. Receiver'
      BY <1>2 DEF WriteFlush, Enqueued, TypeOK, Mutex, OneWakeUp, Waking, Receiver
    <2>5. ~failed'
      BY <1>2 DEF WriteFlush, Enqueued, TypeOK, Receiver
    <2>6. QED
      BY <2>1, <2>2, <2>3, <2>4, <2>5
  <1>3. ASSUME NEW s \in Sender, Unlock(s) PROVE IInv'
    <2>1. TypeOK'
      BY Zenon, <1>3 DEF Unlock, TypeOK
    <2>2. Mutex'
      BY <1>3 DEF Unlock, TypeOK, Mutex, Receiver
    <2>3. OneWakeUp'
      BY <1>3 DEF Unlock, TypeOK, Mutex, OneWakeUp, Waking, Receiver
    <2>4. Receiver'
      BY <1>3 DEF Unlock, TypeOK, Mutex, OneWakeUp, Waking, Receiver
    <2>5. ~failed'
      BY <1>3 DEF Unlock, TypeOK, Receiver
    <2>6. QED
      BY <2>1, <2>2, <2>3, <2>4, <2>5
  <1>4. ASSUME NEW s \in Sender, Signal(s) PROVE IInv'
    <2>1. TypeOK'
      BY <1>4 DEF Signal, TypeOK
    <2>2. Mutex'
      BY <1>4 DEF Signal, TypeOK, Mutex, Receiver
    <2>3. OneWakeUp'
      BY <1>4 DEF Signal, TypeOK, Mutex, OneWakeUp, Waking, Receiver
    <2>4. Receiver'
      BY <1>4 DEF Signal, TypeOK, Mutex, OneWakeUp, Waking, Receiver
    <2>5. ~failed'
      BY <1>4 DEF Signal, TypeOK, Receiver
    <2>6. QED
      BY <2>1, <2>2, <2>3, <2>4, <2>5
  <1>5. CASE RecvActive
    <2>a. idle' \in BOOLEAN /\ active' \in BOOLEAN
      BY Zenon, <1>5 DEF RecvActive, TypeOK
    <2>b. cpipe' \in Seq(Command) /\ got' \in Seq(Command)
      <3>0. cpipe \in Seq(Command) /\ got \in Seq(Command)
        BY DEF TypeOK
      <3>1. CASE cpipe # <<>>
        <4>1. cpipe' = Tail(cpipe) /\ got' = Append(got, Head(cpipe))
          BY <1>5, <3>1 DEF RecvActive, Take
        <4>2. QED
          BY <3>0, <3>1, <4>1, MoveHead
      <3>2. CASE cpipe = <<>>
        BY <1>5, <3>0, <3>2 DEF RecvActive
      <3>3. QED
        BY <3>1, <3>2
    <2>1. TypeOK'
      BY Zenon, <1>5, <2>a, <2>b DEF RecvActive, sendvars, TypeOK
    <2>2. Mutex'
      BY Zenon, <1>5 DEF RecvActive, Take, sendvars, TypeOK, Mutex, Receiver
    <2>3. OneWakeUp'
      BY Zenon, <1>5 DEF RecvActive, Take, sendvars, TypeOK, Mutex, OneWakeUp, Waking, Receiver
    <2>4. Receiver'
      BY Zenon, <1>5 DEF RecvActive, Take, sendvars, TypeOK, Mutex, OneWakeUp, Waking, Receiver
    <2>5. ~failed'
      BY <1>5 DEF RecvActive, Take, sendvars, TypeOK, Receiver
    <2>6. QED
      BY <2>1, <2>2, <2>3, <2>4, <2>5
  <1>6. CASE RecvPassive
    <2>1. TypeOK'
      BY <1>6 DEF RecvPassive, sendvars, TypeOK
    <2>2. Mutex'
      BY <1>6 DEF RecvPassive, sendvars, TypeOK, Mutex, Receiver
    <2>3. OneWakeUp'
      BY <1>6 DEF RecvPassive, sendvars, TypeOK, Mutex, OneWakeUp, Waking, Receiver
    <2>4. Receiver'
      BY <1>6 DEF RecvPassive, sendvars, TypeOK, Mutex, OneWakeUp, Waking, Receiver
    <2>5. ~failed'
      BY <1>6 DEF RecvPassive, sendvars, TypeOK, Receiver
    <2>6. QED
      BY <2>1, <2>2, <2>3, <2>4, <2>5
  <1>7. CASE WaitFails
    <2>1. TypeOK'
      BY <1>7 DEF WaitFails, sendvars, TypeOK
    <2>2. Mutex'
      BY <1>7 DEF WaitFails, sendvars, TypeOK, Mutex, Receiver
    <2>3. OneWakeUp'
      BY <1>7 DEF WaitFails, sendvars, TypeOK, Mutex, OneWakeUp, Waking, Receiver
    <2>4. Receiver'
      BY <1>7 DEF WaitFails, sendvars, TypeOK, Mutex, OneWakeUp, Waking, Receiver
    <2>5. ~failed'
      BY <1>7 DEF WaitFails, sendvars, TypeOK, Receiver
    <2>6. QED
      BY <2>1, <2>2, <2>3, <2>4, <2>5
  <1>8. CASE TakeSignal
    <2>1. TypeOK'
      BY <1>8 DEF TakeSignal, Signalled, sendvars, TypeOK
    <2>2. Mutex'
      BY <1>8 DEF TakeSignal, Signalled, sendvars, TypeOK, Mutex, Receiver
    <2>3. OneWakeUp'
      BY <1>8 DEF TakeSignal, Signalled, sendvars, TypeOK, Mutex, OneWakeUp, Waking, Receiver
    <2>4. Receiver'
      BY <1>8 DEF TakeSignal, Signalled, sendvars, TypeOK, Mutex, OneWakeUp, Waking, Receiver
    <2>5. ~failed'
      BY <1>8 DEF TakeSignal, Signalled, sendvars, TypeOK, Receiver
    <2>6. QED
      BY <2>1, <2>2, <2>3, <2>4, <2>5
  <1>9. CASE ReadAfterSignal
    <2>a. failed' \in BOOLEAN
      BY Zenon, <1>9 DEF ReadAfterSignal, TypeOK
    <2>b. cpipe' \in Seq(Command) /\ got' \in Seq(Command)
      <3>0. cpipe \in Seq(Command) /\ got \in Seq(Command)
        BY DEF TypeOK
      <3>1. CASE cpipe # <<>>
        <4>1. cpipe' = Tail(cpipe) /\ got' = Append(got, Head(cpipe))
          BY <1>9, <3>1 DEF ReadAfterSignal, Take
        <4>2. QED
          BY <3>0, <3>1, <4>1, MoveHead
      <3>2. CASE cpipe = <<>>
        BY <1>9, <3>0, <3>2 DEF ReadAfterSignal
      <3>3. QED
        BY <3>1, <3>2
    <2>1. TypeOK'
      BY <1>9, <2>a, <2>b DEF ReadAfterSignal, sendvars, TypeOK
    <2>2. Mutex'
      BY <1>9 DEF ReadAfterSignal, Take, sendvars, TypeOK, Mutex, Receiver
    <2>3. OneWakeUp'
      BY <1>9 DEF ReadAfterSignal, Take, sendvars, TypeOK, Mutex, OneWakeUp, Waking, Receiver
    <2>4. Receiver'
      BY <1>9 DEF ReadAfterSignal, Take, sendvars, TypeOK, Mutex, OneWakeUp, Waking, Receiver
    <2>5. ~failed'
      BY <1>9 DEF ReadAfterSignal, Take, sendvars, TypeOK, Receiver
    <2>6. QED
      BY <2>1, <2>2, <2>3, <2>4, <2>5
  <1>10. CASE DtorLock
    <2>1. TypeOK'
      BY <1>10 DEF DtorLock, Drained, TypeOK
    <2>2. Mutex'
      BY <1>10 DEF DtorLock, Drained, TypeOK, Mutex, Receiver
    <2>3. OneWakeUp'
      BY <1>10 DEF DtorLock, Drained, TypeOK, Mutex, OneWakeUp, Waking, Receiver
    <2>4. Receiver'
      BY <1>10 DEF DtorLock, Drained, TypeOK, Mutex, OneWakeUp, Waking, Receiver
    <2>5. ~failed'
      BY <1>10 DEF DtorLock, Drained, TypeOK, Receiver
    <2>6. QED
      BY <2>1, <2>2, <2>3, <2>4, <2>5
  <1>11. CASE DtorUnlock
    <2>1. TypeOK'
      BY <1>11 DEF DtorUnlock, TypeOK
    <2>2. Mutex'
      BY <1>11 DEF DtorUnlock, TypeOK, Mutex, Receiver
    <2>3. OneWakeUp'
      BY <1>11 DEF DtorUnlock, TypeOK, Mutex, OneWakeUp, Waking, Receiver
    <2>4. Receiver'
      BY <1>11 DEF DtorUnlock, TypeOK, Mutex, OneWakeUp, Waking, Receiver
    <2>5. ~failed'
      BY <1>11 DEF DtorUnlock, TypeOK, Receiver
    <2>6. QED
      BY <2>1, <2>2, <2>3, <2>4, <2>5
  <1>12. CASE UNCHANGED vars
    <2>1. TypeOK'
      BY <1>12 DEF vars, TypeOK
    <2>2. Mutex'
      BY <1>12 DEF vars, TypeOK, Mutex, Receiver
    <2>3. OneWakeUp'
      BY <1>12 DEF vars, TypeOK, Mutex, OneWakeUp, Waking, Receiver
    <2>4. Receiver'
      BY <1>12 DEF vars, TypeOK, Mutex, OneWakeUp, Waking, Receiver
    <2>5. ~failed'
      BY <1>12 DEF vars, TypeOK, Receiver
    <2>6. QED
      BY <2>1, <2>2, <2>3, <2>4, <2>5
  <1>13. QED
    BY <1>1, <1>2, <1>3, <1>4, <1>5, <1>6, <1>7, <1>8, <1>9, <1>10, <1>11, <1>12 DEF Next, Send, Recv

\* The mailbox's invariant holds for every number of senders.
THEOREM MailboxInvariant == Spec => []IInv
  <1>1. QED
    BY InitIInv, NextIInv, PTL DEF Spec

\* Commands waiting for a passive receiver are announced by exactly one signal.
THEOREM WakeUpExactlyOnce == Spec => []OneWakeUp
  <1>1. IInv => OneWakeUp
    BY DEF IInv
  <1>2. QED
    BY MailboxInvariant, <1>1, PTL

\* zmq_assert (ok) in recv never fails.
THEOREM SignalMeansCommand == Spec => []CommandBehindSignal
  <1>1. IInv => CommandBehindSignal
    BY DEF IInv, CommandBehindSignal
  <1>2. QED
    BY MailboxInvariant, <1>1, PTL

\* The destructor's lock and unlock keep every sender out of the dead mailbox.
THEOREM DestructorSafe == Spec => []NobodyInDeadMailbox
  <1>1. IInv => NobodyInDeadMailbox
    BY DEF IInv, Receiver, NobodyInDeadMailbox
  <1>2. QED
    BY MailboxInvariant, <1>1, PTL

-----------------------------------------------------------------------------
\* Receiving a command does not change what was received and is waiting together.
LEMMA TakeKeepsAll ==
  ASSUME NEW S, NEW q \in Seq(S), q # <<>>, NEW t \in Seq(S)
  PROVE  Append(t, Head(q)) \o Tail(q) = t \o q
  <1> DEFINE a == Append(t, Head(q)) \o Tail(q)
             b == t \o q
  <1>1. Append(t, Head(q)) \in Seq(S) /\ Tail(q) \in Seq(S)
    OBVIOUS
  <1>2. a \in Seq(S) /\ b \in Seq(S) /\ Len(a) = Len(b)
    BY <1>1
  <1>3. ASSUME NEW i \in 1 .. Len(a) PROVE a[i] = b[i]
    <2>1. CASE i <= Len(t)
      BY <1>1, <2>1
    <2>2. CASE i = Len(t) + 1
      BY <1>1, <2>2
    <2>3. CASE i > Len(t) + 1
      BY <1>1, <2>3
    <2>4. QED
      BY <2>1, <2>2, <2>3
  <1> HIDE DEF a, b
  <1>4. a = b
    BY <1>2, <1>3, SeqEqual
  <1>5. QED
    BY <1>4 DEF a, b

\* A command that is sent comes after everything received or waiting.
LEMMA SendAppendsToAll ==
  ASSUME NEW S, NEW q \in Seq(S), NEW t \in Seq(S), NEW x \in S
  PROVE  t \o Append(q, x) = Append(t \o q, x)
  <1> DEFINE a == t \o Append(q, x)
             b == Append(t \o q, x)
  <1>1. a \in Seq(S) /\ b \in Seq(S) /\ Len(a) = Len(b)
    OBVIOUS
  <1>2. ASSUME NEW i \in 1 .. Len(a) PROVE a[i] = b[i]
    OBVIOUS
  <1> HIDE DEF a, b
  <1>3. a = b
    BY <1>1, <1>2, SeqEqual
  <1>4. QED
    BY <1>3 DEF a, b

\* send and recv keep the commands of every sender in order: a sender numbers its
\* command while it holds _sync, so that nobody numbers or writes one in between.
LEMMA NextOrder == IInv /\ SenderOrder /\ [Next]_vars => SenderOrder'
  <1> SUFFICES ASSUME IInv, SenderOrder, [Next]_vars PROVE SenderOrder'
    OBVIOUS
  <1>0. cpipe \in Seq(Command) /\ got \in Seq(Command) /\ All \in Seq(Command)
    BY DEF IInv, TypeOK, All
  <1>1. ASSUME NEW s \in Sender, WriteFlush(s) PROVE SenderOrder'
    <2> DEFINE x == <<s, sent[s] + 1>>
    <2>1. sent \in [Sender -> Nat] /\ sent[s] < Quota /\ Quota \in Nat
      BY <1>1, QuotaAssumption DEF WriteFlush, IInv, TypeOK, Mutex
    <2>2. x \in Command
      BY <2>1 DEF Command
    <2>3. All' = Append(All, x)
      BY <1>0, <1>1, <2>2, SendAppendsToAll DEF WriteFlush, Enqueued, All
    <2>4. sent' = [sent EXCEPT ![s] = @ + 1]
      BY <1>1 DEF WriteFlush
    <2>5. {All'[i] : i \in 1 .. Len(All')} = {All[i] : i \in 1 .. Len(All)} \cup {x}
      <3> HIDE DEF x
      <3>1. QED
        BY <1>0, <2>2, <2>3
    <2>6. {All'[i] : i \in 1 .. Len(All')} =
              {c \in Sender \X (1 .. Quota) : c[2] <= sent'[c[1]]}
      <3>1. {c \in Sender \X (1 .. Quota) : c[2] <= sent'[c[1]]} =
                {c \in Sender \X (1 .. Quota) : c[2] <= sent[c[1]]} \cup {x}
        BY <2>1, <2>4
      <3>2. QED
        BY <2>5, <3>1 DEF SenderOrder
    <2>7. ASSUME NEW i \in 1 .. Len(All), All[i][1] = s PROVE All[i][2] < sent[s] + 1
      <3>1. All[i] \in {c \in Sender \X (1 .. Quota) : c[2] <= sent[c[1]]}
        BY DEF SenderOrder
      <3>2. QED
        BY <2>1, <2>7, <3>1
    <2>8. ASSUME NEW i \in 1 .. Len(All'), NEW j \in 1 .. Len(All'), i < j, All'[i][1] = All'[j][1]
          PROVE  All'[i][2] < All'[j][2]
      <3>1. CASE j = Len(All) + 1
        <4>1. All'[i] = All[i] /\ All'[j] = x /\ i \in 1 .. Len(All)
          BY <1>0, <2>2, <2>3, <2>8, <3>1
        <4>2. QED
          BY <4>1, <2>7, <2>8
      <3>2. CASE j # Len(All) + 1
        <4>1. i \in 1 .. Len(All) /\ j \in 1 .. Len(All) /\ All'[i] = All[i] /\ All'[j] = All[j]
          BY <1>0, <2>2, <2>3, <2>8, <3>2
        <4>2. QED
          BY <4>1, <2>8 DEF SenderOrder
      <3>3. QED
        BY <3>1, <3>2
    <2>9. QED
      BY <2>6, <2>8 DEF SenderOrder
  <1>2. ASSUME All' = All, sent' = sent PROVE SenderOrder'
    BY <1>2 DEF SenderOrder
  <1>3. ASSUME cpipe # <<>>, Take, sent' = sent PROVE SenderOrder'
    <2>1. All' = All
      BY <1>0, <1>3, TakeKeepsAll DEF Take, All
    <2>2. QED
      BY <1>2, <1>3, <2>1
  <1>4. ASSUME NEW s \in Sender, Lock(s) \/ Unlock(s) \/ Signal(s) PROVE SenderOrder'
    BY <1>2, <1>4 DEF Lock, Unlock, Signal, All
  <1>5. CASE RecvActive
    <2>1. CASE cpipe # <<>>
      BY <1>3, <1>5, <2>1 DEF RecvActive, sendvars
    <2>2. CASE cpipe = <<>>
      BY <1>2, <1>5, <2>2 DEF RecvActive, sendvars, All
    <2>3. QED
      BY <2>1, <2>2
  <1>6. CASE ReadAfterSignal
    <2>1. CASE cpipe # <<>>
      BY <1>3, <1>6, <2>1 DEF ReadAfterSignal, sendvars
    <2>2. CASE cpipe = <<>>
      BY <1>2, <1>6, <2>2 DEF ReadAfterSignal, sendvars, All
    <2>3. QED
      BY <2>1, <2>2
  <1>7. CASE RecvPassive \/ WaitFails \/ TakeSignal
    BY <1>2, <1>7 DEF RecvPassive, WaitFails, TakeSignal, sendvars, All
  <1>8. CASE DtorLock \/ DtorUnlock \/ UNCHANGED vars
    BY <1>2, <1>8 DEF DtorLock, DtorUnlock, vars, All
  <1>9. QED
    BY <1>1, <1>4, <1>5, <1>6, <1>7, <1>8 DEF Next, Send, Recv

\* Every command is received or waiting, once, behind the earlier ones of its sender.
THEOREM OrderPerSender == Spec => []SenderOrder
  <1>1. Init => SenderOrder
    <2> SUFFICES ASSUME Init PROVE SenderOrder
      OBVIOUS
    <2>1. All = <<>> /\ Len(All) = 0
      BY DEF Init, All
    <2>2. \A c \in Sender \X (1 .. Quota) : ~(c[2] <= sent[c[1]])
      BY QuotaAssumption DEF Init
    <2>3. QED
      BY <2>1, <2>2 DEF SenderOrder
  <1>2. QED
    BY MailboxInvariant, NextOrder, <1>1, PTL DEF Spec
=============================================================================
