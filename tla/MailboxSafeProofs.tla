------------------------- MODULE MailboxSafeProofs --------------------------
(***************************************************************************)
(* The safety of mailbox_safe_t for any sets of senders, threads and       *)
(* pollers and any number of commands.  The inductive invariant says when  *)
(* the flag of the pipe stands for somebody asleep.                        *)
(***************************************************************************)
EXTENDS MailboxSafe, TLAPS

\* The threads have names, pollers are threads, and time has a unit.
Constants ==
    /\ NULL \notin Thread /\ Poller \subseteq Thread /\ Quota \in Nat
    /\ Second \in Nat \ {0} /\ Timeout \subseteq Int

Inside == {"read", "drain", "again", "leave"}
Outside == {"out", "relock", "waiting", "woken", "timedout", "polling", "gone"}

Types ==
    /\ sync \in Thread \cup {NULL} /\ idle \in BOOLEAN
    /\ pc \in [Thread -> Inside \cup Outside]
    /\ sent \in [Sender -> Nat] /\ signals \in [Poller -> Nat] /\ signalers \subseteq Poller
    /\ cpipe \in Seq(Sender \X Nat)

\* One thread at a time is between entering and leaving recv.
Exclusion == \A t \in Thread : pc[t] \in Inside <=> sync = t

\* The flag: the pipe was found empty since the last command.  It stands for all
\* who sleep, and for a poller that is about to; who polls is registered.
Flag ==
    /\ idle => cpipe = <<>>
    /\ \A t \in Thread : pc[t] = "waiting" => idle
    /\ \A p \in Poller :
         /\ pc[p] = "leave" => idle
         /\ pc[p] = "polling" => idle \/ signals[p] > 0
         /\ pc[p] \notin {"out", "gone"} => p \in signalers
         /\ pc[p] \notin {"waiting", "woken", "timedout"}

SInv == Types /\ Exclusion /\ Flag

\* A new mailbox satisfies the invariant.
LEMMA InitSInv == Constants /\ Init => SInv
  <1> SUFFICES ASSUME Constants, Init PROVE SInv
    OBVIOUS
  <1>1. idle \in BOOLEAN /\ idle
    BY DEF Init
  <1>2. Types
    BY <1>1 DEF Init, Types, Constants, Inside, Outside
  <1>3. Exclusion
    BY DEF Init, Exclusion, Constants, Inside
  <1>4. Flag
    BY <1>1 DEF Init, Flag, Constants
  <1>5. QED
    BY <1>2, <1>3, <1>4 DEF SInv

\* Every step of a sender, a receiver or a poller preserves it.
LEMMA NextSInv == Constants /\ SInv /\ [Next]_vars => SInv'
  <1> SUFFICES ASSUME Constants, SInv, [Next]_vars PROVE SInv'
    OBVIOUS
  <1> USE DEF Constants, SInv, Inside, Outside
  <1>1. ASSUME NEW s \in Sender, send(s) PROVE SInv'
    <2>0. idle' \in BOOLEAN /\ ~idle'
      BY Zenon, <1>1 DEF send
    <2>a. /\ pc' \in [Thread -> Inside \cup Outside]
          /\ \A t \in Thread : IF idle /\ pc[t] = "waiting" THEN pc'[t] = "woken" ELSE pc'[t] = pc[t]
      BY SMTT(30), <1>1 DEF send, Tells, Woken, Types
    <2>b. /\ signals' \in [Poller -> Nat]
          /\ \A p \in Poller : IF idle /\ p \in signalers THEN signals'[p] = signals[p] + 1
                               ELSE signals'[p] = signals[p]
      BY <1>1 DEF send, Tells, Types
    <2>1. Types'
      BY <1>1, <2>0, <2>a, <2>b DEF send, Types
    <2>2. Exclusion'
      BY <1>1, <2>a DEF send, Exclusion
    <2>3. Flag'
      BY <1>1, <2>0, <2>a, <2>b DEF send, Flag, Types, Exclusion
    <2>4. QED
      BY <2>1, <2>2, <2>3
  <1>2. ASSUME NEW t \in Thread, Enter(t) PROVE SInv'
    BY <1>2 DEF Enter, Types, Exclusion, Flag
  <1>3. ASSUME NEW t \in Thread, Leave(t) PROVE SInv'
    BY <1>3 DEF Leave, Types, Exclusion, Flag
  <1>4. ASSUME NEW t \in Thread, ReadFirst(t) PROVE SInv'
    <2>1. CASE cpipe # <<>> /\ Take /\ pc' = [pc EXCEPT ![t] = "drain"] /\ UNCHANGED <<sync, nsec>>
      <3>1. cpipe' \in Seq(Sender \X Nat)
        BY <2>1 DEF Take, Types
      <3>2. UNCHANGED <<sent, signalers, signals, idle>> /\ pc[t] \in {"read", "drain"}
        BY <1>4, <2>1 DEF ReadFirst, Take
      <3>3. QED
        BY <2>1, <3>1, <3>2 DEF Types, Exclusion, Flag
    <2>2. CASE /\ cpipe = <<>> /\ Nothing /\ sync' = NULL
               /\ \E timeout \in IF pc[t] = "drain" \/ t \in Poller THEN {0} ELSE Timeout :
                     pc' = [pc EXCEPT ![t] = IF timeout = 0 THEN "relock" ELSE "waiting"]
      <3>1. UNCHANGED <<sent, signalers, signals, cpipe>> /\ pc[t] \in {"read", "drain"}
        BY <1>4, <2>2 DEF ReadFirst, Nothing
      <3>2. idle' \in BOOLEAN /\ idle'
        BY <2>2 DEF Nothing
      <3>3. \/ pc' = [pc EXCEPT ![t] = "relock"]
            \/ t \notin Poller /\ pc' = [pc EXCEPT ![t] = "waiting"]
        BY Zenon, <2>2
      <3>4. QED
        BY <2>2, <3>1, <3>2, <3>3 DEF Types, Exclusion, Flag
    <2>3. QED
      BY <1>4, <2>1, <2>2 DEF ReadFirst
  <1>5. ASSUME NEW t \in Thread, WakeSpuriously(t) PROVE SInv'
    BY <1>5 DEF WakeSpuriously, Types, Exclusion, Flag
  <1>6. ASSUME NEW t \in Thread, TimeOut(t) PROVE SInv'
    BY <1>6 DEF TimeOut, Types, Exclusion, Flag
  <1>7. ASSUME NEW t \in Thread, Relock(t) PROVE SInv'
    BY <1>7 DEF Relock, Lockable, Types, Exclusion, Flag
  <1>8. ASSUME NEW t \in Thread, ReadAgain(t) PROVE SInv'
    <2>1. CASE cpipe # <<>> /\ Take /\ pc' = [pc EXCEPT ![t] = "drain"]
      <3>1. cpipe' \in Seq(Sender \X Nat)
        BY <2>1 DEF Take, Types
      <3>2. UNCHANGED <<sync, sent, signalers, signals, idle>> /\ pc[t] = "again"
        BY <1>8, <2>1 DEF ReadAgain, Take
      <3>3. QED
        BY <2>1, <3>1, <3>2 DEF Types, Exclusion, Flag
    <2>2. CASE cpipe = <<>> /\ Nothing /\ pc' = [pc EXCEPT ![t] = "leave"]
      <3>1. UNCHANGED <<sync, sent, signalers, signals, cpipe>> /\ pc[t] = "again"
        BY <1>8, <2>2 DEF ReadAgain, Nothing
      <3>2. idle' \in BOOLEAN /\ idle'
        BY <2>2 DEF Nothing
      <3>3. QED
        BY <2>2, <3>1, <3>2 DEF Types, Exclusion, Flag
    <2>3. QED
      BY <1>8, <2>1, <2>2 DEF ReadAgain
  <1>9. ASSUME NEW p \in Poller, add_signaler(p) PROVE SInv'
    BY <1>9 DEF add_signaler, Types, Exclusion, Flag
  <1>10. ASSUME NEW p \in Poller, Signalled(p) PROVE SInv'
    BY SMTT(30), <1>10 DEF Signalled, Types, Exclusion, Flag
  <1>11. ASSUME NEW p \in Poller, remove_signaler(p) PROVE SInv'
    BY <1>11 DEF remove_signaler, Types, Exclusion, Flag
  <1>12. CASE UNCHANGED vars
    BY <1>12 DEF vars, Types, Exclusion, Flag
  <1>13. QED
    BY <1>1, <1>2, <1>3, <1>4, <1>5, <1>6, <1>7, <1>8, <1>9, <1>10, <1>11, <1>12
       DEF Next, Recv

\* The invariant holds of every behaviour.
THEOREM SafeInvariant == ASSUME Constants PROVE Spec => []SInv
  <1>1. Init => SInv
    BY InitSInv
  <1>2. SInv /\ [Next]_vars => SInv'
    BY NextSInv
  <1>3. QED
    BY <1>1, <1>2, PTL DEF Spec

\* Between entering and leaving recv, outside its waits, one thread at a time
\* uses the command pipe (mailbox_safe_t::recv under _sync).
THEOREM MutualExclusion == ASSUME Constants PROVE Spec => []Exclusion
  <1>1. SInv => Exclusion
    BY DEF SInv
  <1>2. QED
    BY SafeInvariant, <1>1, PTL

\* Nobody sleeps in front of a command, on the condition variable or on a
\* signaler, whichever thread took or left it (mailbox_safe_t::send and recv).
THEOREM NoSleeperLeftHolds == ASSUME Constants PROVE Spec => []NoSleeperLeft
  <1>1. SInv => NoSleeperLeft
    BY DEF SInv, Flag, Types, NoSleeperLeft
  <1>2. QED
    BY SafeInvariant, <1>1, PTL

-----------------------------------------------------------------------------
\* A command is in the pipe or was received if and only if it was sent, and each
\* of them in one place only.
Accounted ==
    /\ got \subseteq Sender \X Nat
    /\ \A s \in Sender, n \in Nat :
         n \in 1 .. sent[s] <=> (<<s, n>> \in got \/ \E i \in 1 .. Len(cpipe) : cpipe[i] = <<s, n>>)
    /\ \A i \in 1 .. Len(cpipe) : cpipe[i] \notin got
    /\ \A i, j \in 1 .. Len(cpipe) : cpipe[i] = cpipe[j] => i = j

\* Receiving a command moves it from the pipe to the received ones.
LEMMA TakeAccounted ==
  ASSUME Types, Accounted, cpipe # <<>>, Take, UNCHANGED sent
  PROVE  Accounted'
  <1>1. /\ Head(cpipe) = cpipe[1] /\ Len(cpipe) \in Nat \ {0} /\ cpipe[1] \in Sender \X Nat
        /\ Len(cpipe') = Len(cpipe) - 1 /\ \A i \in 1 .. Len(cpipe') : cpipe'[i] = cpipe[i + 1]
    BY DEF Types, Take
  <1>2. got' = got \cup {cpipe[1]}
    BY <1>1 DEF Take
  <1>3. (got \subseteq Sender \X Nat)'
    BY <1>1, <1>2 DEF Accounted
  <1>4. ASSUME NEW s \in Sender, NEW n \in Nat
        PROVE  (n \in 1 .. sent[s] <=>
                  (<<s, n>> \in got \/ \E i \in 1 .. Len(cpipe) : cpipe[i] = <<s, n>>))'
    <2>1. (\E i \in 1 .. Len(cpipe') : cpipe'[i] = <<s, n>>) <=>
             \E i \in 2 .. Len(cpipe) : cpipe[i] = <<s, n>>
      <3>1. ASSUME NEW i \in 2 .. Len(cpipe), cpipe[i] = <<s, n>>
            PROVE  \E k \in 1 .. Len(cpipe') : cpipe'[k] = <<s, n>>
        <4>1. i - 1 \in 1 .. Len(cpipe') /\ (i - 1) + 1 = i
          BY <1>1
        <4>2. cpipe'[i - 1] = <<s, n>>
          BY Zenon, <1>1, <3>1, <4>1
        <4>3. QED
          BY <4>1, <4>2
      <3>2. ASSUME NEW i \in 1 .. Len(cpipe'), cpipe'[i] = <<s, n>>
            PROVE  \E k \in 2 .. Len(cpipe) : cpipe[k] = <<s, n>>
        <4>1. i + 1 \in 2 .. Len(cpipe) /\ cpipe[i + 1] = <<s, n>>
          BY <1>1, <3>2
        <4>2. QED
          BY <4>1
      <3>3. QED
        BY <3>1, <3>2
    <2>2. (\E i \in 1 .. Len(cpipe) : cpipe[i] = <<s, n>>) <=>
             cpipe[1] = <<s, n>> \/ \E i \in 2 .. Len(cpipe) : cpipe[i] = <<s, n>>
      BY <1>1
    <2>3. n \in 1 .. sent[s] <=> (<<s, n>> \in got \/ \E i \in 1 .. Len(cpipe) : cpipe[i] = <<s, n>>)
      BY SMTT(30) DEF Accounted
    <2>4. <<s, n>> \in got' <=> <<s, n>> \in got \/ cpipe[1] = <<s, n>>
      BY <1>2
    <2>5. sent' = sent
      OBVIOUS
    <2>6. QED
      BY <2>1, <2>2, <2>3, <2>4, <2>5
  <1>5. (\A i, j \in 1 .. Len(cpipe) : cpipe[i] = cpipe[j] => i = j)'
    BY <1>1 DEF Accounted
  <1>6. (\A i \in 1 .. Len(cpipe) : cpipe[i] \notin got)'
    <2> SUFFICES ASSUME NEW i \in 1 .. Len(cpipe') PROVE cpipe'[i] \notin got'
      OBVIOUS
    <2>1. i + 1 \in 1 .. Len(cpipe) /\ i + 1 # 1 /\ cpipe'[i] = cpipe[i + 1] /\ 1 \in 1 .. Len(cpipe)
      BY <1>1
    <2>2. cpipe[i + 1] \notin got /\ cpipe[i + 1] # cpipe[1]
      BY <2>1 DEF Accounted
    <2>3. QED
      BY <1>2, <2>1, <2>2
  <1>7. QED
    BY Zenon, <1>3, <1>4, <1>5, <1>6 DEF Accounted

\* Sending a command accounts for its number.
LEMMA SendAccounted ==
  ASSUME Types, Accounted, NEW s \in Sender, send(s)
  PROVE  Accounted'
  <1> DEFINE new == <<s, sent[s] + 1>>
  <1>1. /\ cpipe' = Append(cpipe, new) /\ got' = got /\ sent' = [sent EXCEPT ![s] = @ + 1]
        /\ sent[s] \in Nat /\ Len(cpipe) \in Nat
    BY DEF send, Types
  <1>2. /\ Len(cpipe') = Len(cpipe) + 1 /\ cpipe'[Len(cpipe) + 1] = new
        /\ \A i \in 1 .. Len(cpipe) : cpipe'[i] = cpipe[i]
    BY <1>1 DEF Types
  <1>3. new \notin got /\ \A i \in 1 .. Len(cpipe) : cpipe[i] # new
    <2>1. sent[s] + 1 \in Nat /\ sent[s] + 1 \notin 1 .. sent[s]
      BY <1>1
    <2>2. QED
      BY <2>1 DEF Accounted
  <1>4. ASSUME NEW q \in Sender, NEW n \in Nat
        PROVE  (n \in 1 .. sent[q] <=>
                  (<<q, n>> \in got \/ \E i \in 1 .. Len(cpipe) : cpipe[i] = <<q, n>>))'
    <2>1. n \in 1 .. sent'[q] <=> n \in 1 .. sent[q] \/ <<q, n>> = new
      BY <1>1 DEF Types
    <2>2. (\E i \in 1 .. Len(cpipe') : cpipe'[i] = <<q, n>>) <=>
             (\E i \in 1 .. Len(cpipe) : cpipe[i] = <<q, n>>) \/ <<q, n>> = new
      <3> HIDE DEF new
      <3>1. ASSUME NEW i \in 1 .. Len(cpipe'), cpipe'[i] = <<q, n>>
            PROVE  (\E k \in 1 .. Len(cpipe) : cpipe[k] = <<q, n>>) \/ <<q, n>> = new
        <4>1. i \in 1 .. Len(cpipe) \/ i = Len(cpipe) + 1
          BY <1>1, <1>2
        <4>2. QED
          BY Zenon, <1>2, <3>1, <4>1
      <3>2. 1 .. Len(cpipe) \subseteq 1 .. Len(cpipe') /\ Len(cpipe) + 1 \in 1 .. Len(cpipe')
        BY <1>1, <1>2
      <3>3. (\E k \in 1 .. Len(cpipe) : cpipe[k] = <<q, n>>) \/ <<q, n>> = new
               => \E i \in 1 .. Len(cpipe') : cpipe'[i] = <<q, n>>
        BY <1>2, <3>2
      <3>4. QED
        BY <3>1, <3>3
    <2>3. n \in 1 .. sent[q] <=> (<<q, n>> \in got \/ \E i \in 1 .. Len(cpipe) : cpipe[i] = <<q, n>>)
      BY Zenon DEF Accounted
    <2>4. QED
      BY Zenon, <1>1, <2>1, <2>2, <2>3
  <1> HIDE DEF new
  <1>5. (\A i \in 1 .. Len(cpipe) : cpipe[i] \notin got)'
    BY <1>1, <1>2, <1>3 DEF Accounted
  <1>6. (\A i, j \in 1 .. Len(cpipe) : cpipe[i] = cpipe[j] => i = j)'
    BY <1>1, <1>2, <1>3 DEF Accounted
  <1>7. (got \subseteq Sender \X Nat)'
    BY <1>1 DEF Accounted
  <1>8. QED
    BY Zenon, <1>4, <1>5, <1>6, <1>7 DEF Accounted

\* No command is lost or received twice, however many threads receive and
\* whenever their waits end (mailbox_safe_t::recv).
THEOREM NothingLostHolds == ASSUME Constants PROVE Spec => []NothingLost
  <1>1. Init => Accounted
    BY DEF Init, Accounted
  <1>2. SInv /\ Accounted /\ [Next]_vars => Accounted'
    <2> SUFFICES ASSUME Types, Accounted, [Next]_vars PROVE Accounted'
      BY DEF SInv
    <2>1. ASSUME NEW t \in Thread, ReadFirst(t) \/ ReadAgain(t) PROVE Accounted'
      <3>1. UNCHANGED sent /\ ((cpipe # <<>> /\ Take) \/ Nothing)
        BY <2>1 DEF ReadFirst, ReadAgain
      <3>2. CASE cpipe # <<>> /\ Take
        BY <3>1, <3>2, TakeAccounted
      <3>3. CASE Nothing
        BY Zenon, <3>1, <3>3 DEF Nothing, Accounted
      <3>4. QED
        BY <3>1, <3>2, <3>3
    <2>2. ASSUME NEW t \in Thread,
                 Enter(t) \/ WakeSpuriously(t) \/ TimeOut(t) \/ Relock(t) \/ Leave(t)
          PROVE  Accounted'
      <3>1. UNCHANGED <<sent, cpipe, got>>
        BY <2>2 DEF Enter, WakeSpuriously, TimeOut, Relock, Leave
      <3>2. QED
        BY Zenon, <3>1 DEF Accounted
    <2>3. ASSUME NEW p \in Poller, add_signaler(p) \/ Signalled(p) \/ remove_signaler(p)
          PROVE  Accounted'
      <3>1. UNCHANGED <<sent, cpipe, got>>
        BY <2>3 DEF add_signaler, Signalled, remove_signaler
      <3>2. QED
        BY <3>1 DEF Accounted
    <2>4. CASE UNCHANGED vars
      BY Zenon, <2>4 DEF vars, Accounted
    <2>5. QED
      BY <2>1, <2>2, <2>3, <2>4, SendAccounted DEF Next, Recv
  <1>3. Accounted /\ SInv => NothingLost
    <2> SUFFICES ASSUME Accounted, Types PROVE NothingLost
      BY DEF SInv
    <2>1. ASSUME NEW s \in Sender, NEW n \in 1 .. Quota PROVE n \in Nat /\ (n <= sent[s] <=> n \in 1 .. sent[s])
      BY DEF Types, Constants
    <2>2. QED
      BY Zenon, <2>1 DEF NothingLost, Accounted
  <1>4. QED
    BY <1>1, <1>2, <1>3, SafeInvariant, PTL DEF Spec
=============================================================================
