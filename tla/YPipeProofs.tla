----------------------------- MODULE YPipeProofs ----------------------------
(***************************************************************************)
(* The safety of ypipe_t for any number of slots and any set of payloads.  *)
(* The inductive invariant IInv adds to the properties of YPipe only what  *)
(* the writer and the reader keep true of the pointers they own.  From it  *)
(* follows that ypipe_t implements the atomic queue of WakeQueue: each     *)
(* access to the atomic pointer is one operation of the queue, or none.    *)
(***************************************************************************)
EXTENDS YPipe, TLAPS, SequenceTheorems

\* The inductive invariant: types, the order of the pointers, wake-ups counted
\* exactly, messages whole and delivered in order.
IInv ==
    /\ TypeOK
    /\ Pointers
    /\ SingleWakeUp
    /\ ~Polling \/ (asleep /\ c # NULL => wakes > 0)
    /\ InOrder
    /\ WholeMessages

\* The constructor establishes the invariant.
LEMMA InitIInv == Init => IInv
  <1> SUFFICES ASSUME Init PROVE IInv
    OBVIOUS
  <1>1. asleep \in BOOLEAN
    BY Zenon DEF Init
  <1>2. TypeOK
    BY <1>1 DEF Init, TypeOK
  <1>3. Pointers /\ InOrder /\ WholeMessages
    BY NullAssumption DEF Init, Pointers, Polling, InOrder, WholeMessages, Back
  <1>4. SingleWakeUp /\ (~Polling \/ (asleep /\ c # NULL => wakes > 0))
    BY DEF Init, SingleWakeUp, Polling
  <1>5. QED
    BY <1>2, <1>3, <1>4 DEF IInv

\* Every operation of the two threads preserves the invariant.
LEMMA NextIInv == IInv /\ [Next]_vars => IInv'
  <1> SUFFICES ASSUME IInv, [Next]_vars PROVE IInv'
    OBVIOUS
  <1> USE NullAssumption DEF IInv, Polling
  <1>0. reader' = reader
    BY DEF Next, vars
  <1>1. ASSUME NEW p \in Part, Write(p) PROVE IInv'
    <2>1. TypeOK'
      BY <1>0, <1>1 DEF Write, TypeOK, Pointers, Back
    <2>2. Pointers'
      BY <1>0, <1>1 DEF Write, TypeOK, Pointers, Back
    <2>3. SingleWakeUp'
      BY <1>0, <1>1 DEF Write, TypeOK, Pointers, SingleWakeUp
    <2>4. (~Polling \/ (asleep /\ c # NULL => wakes > 0))'
      BY <1>0, <1>1 DEF Write, TypeOK, Pointers
    <2>5. InOrder'
      BY <1>0, <1>1 DEF Write, TypeOK, Pointers, Back, InOrder
    <2>6. WholeMessages'
      BY <1>0, <1>1 DEF Write, TypeOK, Pointers, Back, WholeMessages
    <2>7. QED
      BY <2>1, <2>2, <2>3, <2>4, <2>5, <2>6
  <1>2. CASE Unwrite
    <2>1. TypeOK'
      BY <1>0, <1>2 DEF Unwrite, TypeOK, Pointers, Back
    <2>2. Pointers'
      BY <1>0, <1>2 DEF Unwrite, TypeOK, Pointers, Back
    <2>3. SingleWakeUp'
      BY <1>0, <1>2 DEF Unwrite, TypeOK, Pointers, SingleWakeUp
    <2>4. (~Polling \/ (asleep /\ c # NULL => wakes > 0))'
      BY <1>0, <1>2 DEF Unwrite, TypeOK, Pointers
    <2>5. InOrder'
      BY <1>0, <1>2 DEF Unwrite, TypeOK, Pointers, Back, InOrder
    <2>6. WholeMessages'
      BY <1>0, <1>2 DEF Unwrite, TypeOK, Pointers, Back, WholeMessages
    <2>7. QED
      BY <2>1, <2>2, <2>3, <2>4, <2>5, <2>6
  <1>3. CASE FlushCas
    <2>1. TypeOK'
      BY <1>0, <1>3 DEF FlushCas, TypeOK, Pointers, Back
    <2>2. Pointers'
      BY <1>0, <1>3 DEF FlushCas, TypeOK, Pointers, Back
    <2>3. SingleWakeUp'
      BY <1>0, <1>3 DEF FlushCas, TypeOK, Pointers, SingleWakeUp
    <2>4. (~Polling \/ (asleep /\ c # NULL => wakes > 0))'
      BY <1>0, <1>3 DEF FlushCas, TypeOK, Pointers
    <2>5. InOrder'
      BY <1>0, <1>3 DEF FlushCas, TypeOK, Pointers, Back, InOrder
    <2>6. WholeMessages'
      BY <1>0, <1>3 DEF FlushCas, TypeOK, Pointers, Back, WholeMessages
    <2>7. QED
      BY <2>1, <2>2, <2>3, <2>4, <2>5, <2>6
  <1>4. CASE FlushSet
    <2>1. TypeOK'
      BY <1>0, <1>4 DEF FlushSet, TypeOK, Pointers, Back
    <2>2. Pointers'
      BY <1>0, <1>4 DEF FlushSet, TypeOK, Pointers, Back
    <2>3. SingleWakeUp'
      BY <1>0, <1>4 DEF FlushSet, TypeOK, Pointers, SingleWakeUp
    <2>4. (~Polling \/ (asleep /\ c # NULL => wakes > 0))'
      BY <1>0, <1>4 DEF FlushSet, TypeOK, Pointers
    <2>5. InOrder'
      BY <1>0, <1>4 DEF FlushSet, TypeOK, Pointers, Back, InOrder
    <2>6. WholeMessages'
      BY <1>0, <1>4 DEF FlushSet, TypeOK, Pointers, Back, WholeMessages
    <2>7. QED
      BY <2>1, <2>2, <2>3, <2>4, <2>5, <2>6
  <1>5. CASE Read
    <2>0. asleep' \in BOOLEAN
      BY Zenon, <1>0, <1>5 DEF Read, Front
    <2>a. r' \in Nat \cup {NULL} /\ c' \in Nat \cup {NULL}
      BY <1>0, <1>5 DEF Read, Front, FetchR, FetchC, TypeOK
    <2>b. got' \in Seq(Part) /\ front' \in Nat
      <3>1. CASE r' # NULL /\ r' # front
        <4>1. front + 1 \in 1 .. Len(buf)
          BY <1>0, <1>5, <3>1 DEF Read, Front, FetchR, Prefetched, TypeOK, Pointers, Back
        <4>2. buf[front + 1] \in Part
          BY <4>1 DEF TypeOK
        <4>3. QED
          BY <1>0, <1>5, <3>1, <4>2 DEF Read, Front, TypeOK
      <3>2. CASE ~(r' # NULL /\ r' # front)
        BY <1>0, <1>5, <3>2 DEF Read, Front, TypeOK
      <3>3. QED
        BY <3>1, <3>2
    <2>1. TypeOK'
      BY <1>0, <1>5, <2>0, <2>a, <2>b DEF Read, Front, TypeOK
    <2>2. Pointers'
      BY <1>0, <1>5 DEF Read, Front, FetchR, FetchC, Prefetched, TypeOK, Pointers, Back
    <2>3. SingleWakeUp'
      BY <1>0, <1>5 DEF Read, Front, FetchR, FetchC, Prefetched, TypeOK, Pointers, SingleWakeUp
    <2>4. (~Polling \/ (asleep /\ c # NULL => wakes > 0))'
      BY <1>0, <1>5 DEF Read, Front, FetchR, FetchC, Prefetched, TypeOK, Pointers
    <2>5. InOrder'
      <3>1. CASE r' # NULL /\ r' # front
        <4>1. front + 1 <= Back /\ buf' = buf
          BY <1>5, <3>1 DEF Read, FetchR, Prefetched, TypeOK, Pointers, Back
        <4>2. got' = Append(got, buf[front + 1]) /\ front' = front + 1
          BY <1>5, <3>1 DEF Read, Front
        <4>3. QED
          BY <4>1, <4>2 DEF InOrder, TypeOK, Back
      <3>2. CASE ~(r' # NULL /\ r' # front)
        BY <1>5, <3>2 DEF Read, InOrder, Back
      <3>3. QED
        BY <3>1, <3>2
    <2>6. WholeMessages'
      BY <1>0, <1>5 DEF Read, Front, FetchR, FetchC, Prefetched, TypeOK, Pointers, Back, WholeMessages
    <2>7. QED
      BY <2>1, <2>2, <2>3, <2>4, <2>5, <2>6
  <1>6. CASE WakeUp
    <2>0. asleep' \in BOOLEAN
      BY Zenon, <1>0, <1>6 DEF WakeUp
    <2>1. TypeOK'
      BY <1>0, <1>6, <2>0 DEF WakeUp, TypeOK, Pointers, Back
    <2>2. Pointers'
      BY <1>0, <1>6 DEF WakeUp, TypeOK, Pointers, Back
    <2>3. SingleWakeUp'
      BY <1>0, <1>6 DEF WakeUp, TypeOK, Pointers, SingleWakeUp
    <2>4. (~Polling \/ (asleep /\ c # NULL => wakes > 0))'
      BY <1>0, <1>6 DEF WakeUp, TypeOK, Pointers
    <2>5. InOrder'
      BY <1>0, <1>6 DEF WakeUp, TypeOK, Pointers, Back, InOrder
    <2>6. WholeMessages'
      BY <1>0, <1>6 DEF WakeUp, TypeOK, Pointers, Back, WholeMessages
    <2>7. QED
      BY <2>1, <2>2, <2>3, <2>4, <2>5, <2>6
  <1>7. CASE UNCHANGED vars
    <2>1. TypeOK'
      BY <1>0, <1>7 DEF vars, TypeOK, Pointers, Back
    <2>2. Pointers'
      BY <1>0, <1>7 DEF vars, TypeOK, Pointers, Back
    <2>3. SingleWakeUp'
      BY <1>0, <1>7 DEF vars, TypeOK, Pointers, SingleWakeUp
    <2>4. (~Polling \/ (asleep /\ c # NULL => wakes > 0))'
      BY <1>0, <1>7 DEF vars, TypeOK, Pointers
    <2>5. InOrder'
      BY <1>0, <1>7 DEF vars, TypeOK, Pointers, Back, InOrder
    <2>6. WholeMessages'
      BY <1>0, <1>7 DEF vars, TypeOK, Pointers, Back, WholeMessages
    <2>7. QED
      BY <2>1, <2>2, <2>3, <2>4, <2>5, <2>6
  <1>8. QED
    BY <1>1, <1>2, <1>3, <1>4, <1>5, <1>6, <1>7 DEF Next, Step

\* The pipe keeps its types and its pointers in order: in particular the reader
\* never passes what was flushed (r <= w) and c is NULL only when it is asleep.
THEOREM PipeInvariant == Spec => []IInv
  <1>1. QED
    BY InitIInv, NextIInv, PTL DEF Spec

\* The pointers of ypipe_t stay ordered whatever the two threads do.
THEOREM PointersHold == Spec => []Pointers
  <1>1. IInv => Pointers
    BY DEF IInv
  <1>2. QED
    BY PipeInvariant, <1>1, PTL

\* flush and check_read cannot both miss each other, and flush returns false
\* once per sleep: wake-ups are neither lost nor doubled.
THEOREM WakeUpsHold == Spec => []WakeUps
  <1>1. IInv => NoLostWakeUp
    <2> SUFFICES ASSUME IInv, asleep, wpc = "idle", front < w PROVE wakes > 0
      BY DEF NoLostWakeUp
    <2>1. c # NULL
      BY DEF IInv, Pointers, TypeOK
    <2>2. QED
      BY <2>1 DEF IInv, SingleWakeUp, Polling
  <1>2. IInv => WakeUps
    BY <1>1 DEF IInv, WakeUps
  <1>3. QED
    BY PipeInvariant, <1>2, PTL

\* The reader gets what was written and not taken back, in order, and nothing
\* of an incomplete message can be flushed, so none can be read.
THEOREM StreamHolds == Spec => []Stream
  <1>1. IInv => Stream
    BY DEF IInv, Stream
  <1>2. QED
    BY PipeInvariant, <1>1, PTL

-----------------------------------------------------------------------------
\* What is before the new slot of a queue does not change.
LEMMA SubSeqBeforeAppend ==
  ASSUME NEW S, NEW s \in Seq(S), NEW e \in S, NEW m \in 1 .. Len(s) + 1, NEW n \in 0 .. Len(s)
  PROVE  SubSeq(Append(s, e), m, n) = SubSeq(s, m, n)
  <1> DEFINE t == Append(s, e)
  <1>1. t \in Seq(S) /\ Len(t) = Len(s) + 1 /\ \A i \in 1 .. Len(s) : t[i] = s[i]
    BY AppendProperties
  <1>2. \A i \in m .. n : t[i] \in S /\ s[i] \in S /\ t[i] = s[i]
    BY <1>1
  <1> HIDE DEF t
  <1>3. /\ SubSeq(t, m, n) \in Seq(S) /\ Len(SubSeq(t, m, n)) = IF m <= n THEN n - m + 1 ELSE 0
        /\ \A i \in 1 .. n - m + 1 : SubSeq(t, m, n)[i] = t[m + i - 1]
    BY SMTT(30), <1>2, SubSeqProperties
  <1>4. /\ SubSeq(s, m, n) \in Seq(S) /\ Len(SubSeq(s, m, n)) = IF m <= n THEN n - m + 1 ELSE 0
        /\ \A i \in 1 .. n - m + 1 : SubSeq(s, m, n)[i] = s[m + i - 1]
    BY <1>2, SubSeqProperties
  <1>5. \A i \in 1 .. Len(SubSeq(t, m, n)) : SubSeq(t, m, n)[i] = SubSeq(s, m, n)[i]
    BY <1>2, <1>3, <1>4
  <1>6. SubSeq(t, m, n) = SubSeq(s, m, n)
    BY Zenon, <1>3, <1>4, <1>5, SeqEqual
  <1>7. QED
    BY <1>6 DEF t

\* The new slot ends the part of the queue that reached to the old end.
LEMMA SubSeqToAppend ==
  ASSUME NEW S, NEW s \in Seq(S), NEW e \in S, NEW m \in 1 .. Len(s) + 1
  PROVE  SubSeq(Append(s, e), m, Len(s) + 1) = SubSeq(s, m, Len(s)) \o <<e>>
  <1> DEFINE t == Append(s, e)
  <1>1. t \in Seq(S) /\ Len(t) = Len(s) + 1 /\ t[Len(s) + 1] = e
    BY AppendProperties
  <1>2. SubSeq(t, m, Len(s)) = SubSeq(s, m, Len(s))
    BY SubSeqBeforeAppend
  <1> HIDE DEF t
  <1>3. SubSeq(t, m, Len(s) + 1) = SubSeq(t, m, Len(s) + 1 - 1) \o <<t[Len(s) + 1]>>
    BY SMTT(30), <1>1, SubSeqRecursiveSecond
  <1>4. QED
    BY <1>1, <1>2, <1>3 DEF t

\* Taking the last slot back does not change what is before it.
LEMMA SubSeqBeforeLast ==
  ASSUME NEW S, NEW s \in Seq(S), NEW m \in 1 .. Len(s) + 1, NEW n \in 0 .. Len(s) - 1
  PROVE  SubSeq(SubSeq(s, 1, Len(s) - 1), m, n) = SubSeq(s, m, n)
  <1> DEFINE t == SubSeq(s, 1, Len(s) - 1)
  <1>1. /\ t \in Seq(S) /\ Len(t) = Len(s) - 1
        /\ \A i \in 1 .. Len(s) - 1 : t[i] = s[i]
    <2> DEFINE l == Len(s) - 1
    <2>1. l \in Int /\ l >= 0 /\ \A i \in 1 .. l : s[i] \in S
      OBVIOUS
    <2> HIDE DEF l
    <2>2. /\ SubSeq(s, 1, l) \in Seq(S) /\ Len(SubSeq(s, 1, l)) = IF 1 <= l THEN l - 1 + 1 ELSE 0
          /\ \A i \in 1 .. l - 1 + 1 : SubSeq(s, 1, l)[i] = s[1 + i - 1]
      BY <2>1, SubSeqProperties
    <2>3. \A i \in 1 .. l : SubSeq(s, 1, l)[i] = s[i]
      BY <2>1, <2>2
    <2>4. Len(SubSeq(s, 1, l)) = l
      BY <2>1, <2>2
    <2>5. QED
      BY <2>2, <2>3, <2>4 DEF l
  <1>2. \A i \in m .. n : t[i] \in S /\ s[i] \in S /\ t[i] = s[i]
    BY <1>1
  <1> HIDE DEF t
  <1>3. /\ SubSeq(t, m, n) \in Seq(S) /\ Len(SubSeq(t, m, n)) = IF m <= n THEN n - m + 1 ELSE 0
        /\ \A i \in 1 .. n - m + 1 : SubSeq(t, m, n)[i] = t[m + i - 1]
    BY <1>2, SubSeqProperties
  <1>4. /\ SubSeq(s, m, n) \in Seq(S) /\ Len(SubSeq(s, m, n)) = IF m <= n THEN n - m + 1 ELSE 0
        /\ \A i \in 1 .. n - m + 1 : SubSeq(s, m, n)[i] = s[m + i - 1]
    BY <1>2, SubSeqProperties
  <1>5. \A i \in 1 .. Len(SubSeq(t, m, n)) : SubSeq(t, m, n)[i] = SubSeq(s, m, n)[i]
    BY <1>2, <1>3, <1>4
  <1>6. SubSeq(t, m, n) = SubSeq(s, m, n)
    BY Zenon, <1>3, <1>4, <1>5, SeqEqual
  <1>7. QED
    BY <1>6 DEF t

\* The constructed pipe is the empty queue with nobody asleep.
LEMMA InitRefines == Init => Queue!Init
  <1> SUFFICES ASSUME Init PROVE Queue!Init
    OBVIOUS
  <1>1. buf = <<>> /\ front = 0 /\ w = 0 /\ f = 0 /\ c = 0
    BY DEF Init
  <1>2. \A m \in {1} : SubSeq(buf, m, 0) = <<>>
    BY SubSeqEmpty
  <1>3. Back = 0
    BY <1>1 DEF Back
  <1>4. /\ SubSeq(buf, front + 1, w) = <<>> /\ SubSeq(buf, w + 1, f) = <<>>
        /\ SubSeq(buf, f + 1, Back) = <<>>
    BY <1>1, <1>2, <1>3
  <1>5. (c = NULL) = FALSE
    BY <1>1, NullAssumption
  <1>6. QED
    BY <1>4, <1>5 DEF Init, Queue!Init

\* Every step of the pipe is a step of the queue, or changes nothing of it: a
\* compare-and-swap of flush that fails is no step, the store after it is.
LEMMA NextRefines == IInv /\ [Next]_vars => [Queue!Next]_Queue!vars
  <1> SUFFICES ASSUME IInv, [Next]_vars PROVE [Queue!Next]_Queue!vars
    OBVIOUS
  <1> DEFINE ready == SubSeq(buf, front + 1, w)
             pending == SubSeq(buf, w + 1, f)
             partial == SubSeq(buf, f + 1, Back)
             idle == c = NULL
  <1>a. /\ reader' = reader /\ buf \in Seq(Part) /\ Back = Len(buf) /\ Back \in Nat
        /\ front \in Nat /\ w \in Nat /\ f \in Nat
        /\ front <= w /\ w <= f /\ f <= Back
    BY DEF IInv, TypeOK, Pointers, Back, Next, vars
  <1>b. Part = Queue!Part
    BY DEF Part, Queue!Part
  <1>1. ASSUME NEW p \in Part, Write(p) PROVE Queue!Write(p)
    <2>1. buf' = Append(buf, p) /\ Back' = Back + 1
      BY <1>1, <1>a DEF Write, Back
    <2>2. ready' = ready
      BY <1>1, <1>a, <2>1, SubSeqBeforeAppend DEF Write
    <2>3. UNCHANGED <<got, asleep, wakes, c, w>>
      BY <1>1 DEF Write
    <2>4. CASE p.more
      <3>1. f' = f
        BY <1>1, <2>4 DEF Write
      <3>2. pending' = pending
        BY <1>a, <2>1, <2>3, <3>1, SubSeqBeforeAppend
      <3>3. partial' = partial \o <<p>>
        <4>1. f + 1 \in 1 .. Len(buf) + 1
          BY <1>a
        <4>2. SubSeq(Append(buf, p), f + 1, Len(buf) + 1) = SubSeq(buf, f + 1, Len(buf)) \o <<p>>
          BY Zenon, <1>1, <1>a, <4>1, SubSeqToAppend
        <4>3. QED
          BY Zenon, <1>a, <2>1, <3>1, <4>2
      <3>4. partial \in Seq(Part)
        BY <1>a, SubSeqProperties
      <3>5. partial' = Append(partial, p)
        BY Zenon, <1>1, <3>3, <3>4, AppendIsConcat
      <3>6. QED
        BY Zenon, <2>2, <2>3, <2>4, <3>2, <3>5 DEF Queue!Write
    <2>5. CASE ~p.more
      <3>1. f' = Back + 1
        BY <1>1, <2>5 DEF Write
      <3>2. pending' = SubSeq(buf, w + 1, Back) \o <<p>>
        <4>1. w + 1 \in 1 .. Len(buf) + 1
          BY <1>a
        <4>2. SubSeq(Append(buf, p), w + 1, Len(buf) + 1) = SubSeq(buf, w + 1, Len(buf)) \o <<p>>
          BY Zenon, <1>1, <1>a, <4>1, SubSeqToAppend
        <4>3. QED
          BY Zenon, <1>a, <2>1, <2>3, <3>1, <4>2
      <3>3. pending \o partial = SubSeq(buf, w + 1, Back)
        <4>1. w + 1 \in 1 .. Len(buf) + 1 /\ f \in (w + 1) - 1 .. Len(buf) /\ Back \in f .. Len(buf)
          BY <1>a
        <4>2. QED
          BY Zenon, <1>a, <4>1, ConcatAdjacentSubSeq
      <3>4. partial' = <<>>
        BY <1>a, <2>1, <3>1, SubSeqEmpty
      <3>5. QED
        BY Zenon, <2>2, <2>3, <2>5, <3>2, <3>3, <3>4 DEF Queue!Write
    <2>6. QED
      BY <2>4, <2>5
  <1>2. CASE Unwrite
    <2>1. /\ f < Back /\ buf' = SubSeq(buf, 1, Len(buf) - 1)
          /\ UNCHANGED <<front, w, f, c, got, asleep, wakes>>
      BY <1>2, <1>a DEF Unwrite
    <2>2. Back' = Back - 1
      <3>1. Len(buf) - 1 \in Nat /\ \A i \in 1 .. Len(buf) - 1 : buf[i] \in Part
        BY <1>a, <2>1
      <3>2. Len(SubSeq(buf, 1, Len(buf) - 1)) = Len(buf) - 1
        BY <1>a, <3>1
      <3>3. QED
        BY <2>1, <3>2 DEF Back
    <2>3. ready' = ready /\ pending' = pending
      BY <1>a, <2>1, SubSeqBeforeLast
    <2>4. partial' = SubSeq(buf, f + 1, Back - 1)
      BY <1>a, <2>1, <2>2, SubSeqBeforeLast
    <2>5. partial = SubSeq(buf, f + 1, Back - 1) \o <<buf[Back]>>
      <3>1. f + 1 \in 1 .. Len(buf) /\ Back \in f + 1 .. Len(buf)
        BY <1>a, <2>1
      <3>2. QED
        BY Zenon, <1>a, <3>1, SubSeqRecursiveSecond
    <2> DEFINE short == SubSeq(buf, f + 1, Back - 1)
    <2>6. short \in Seq(Part) /\ buf[Back] \in Part
      BY <1>a, <2>1, SubSeqProperties
    <2> HIDE DEF short
    <2>7. /\ SubSeq(short \o <<buf[Back]>>, 1, Len(short \o <<buf[Back]>>) - 1) = short
          /\ short \o <<buf[Back]>> # <<>>
      BY <2>6
    <2>8. partial # <<>> /\ SubSeq(partial, 1, Len(partial) - 1) = partial'
      BY Zenon, <2>4, <2>5, <2>7 DEF short
    <2>9. idle' = idle
      BY <2>1
    <2>10. Queue!Unwrite
      BY Zenon, <2>1, <2>3, <2>8, <2>9 DEF Queue!Unwrite
    <2>11. QED
      BY <1>a, <2>10 DEF Queue!Next
  <1>c. ready \o pending = SubSeq(buf, front + 1, f)
    BY <1>a, ConcatAdjacentSubSeq
  <1>d. w < f => pending # <<>>
    <2> SUFFICES ASSUME w < f PROVE pending # <<>>
      OBVIOUS
    <2>1. Len(pending) = f - w
      BY <1>a, SubSeqProperties
    <2>2. QED
      BY <1>a, <2>1
  <1>3. CASE FlushCas
    <2>1. CASE c = w
      <3>1. /\ c' = f /\ w' = f /\ w < f
            /\ UNCHANGED <<buf, front, f, got, asleep, wakes>>
        BY <1>3, <1>a, <2>1 DEF FlushCas
      <3>2. ~idle /\ ~idle'
        BY <1>a, <2>1, <3>1, NullAssumption
      <3>3. ready' = ready \o pending /\ partial' = partial
        BY Zenon, <1>c, <3>1 DEF Back
      <3>4. pending' = <<>>
        BY <1>a, <3>1, SubSeqEmpty
      <3>5. Queue!Flush
        BY Zenon, <1>d, <3>1, <3>2, <3>3, <3>4 DEF Queue!Flush
      <3>6. QED
        BY <1>a, <3>5 DEF Queue!Next
    <2>2. CASE c # w
      <3>1. UNCHANGED <<buf, front, w, f, c, got, asleep, wakes>>
        BY <1>3, <2>2 DEF FlushCas
      <3>2. QED
        BY <1>a, <3>1 DEF Queue!vars, Back
    <2>3. QED
      BY <2>1, <2>2
  <1>4. CASE FlushSet
    <2>1. /\ c' = f /\ w' = f /\ w < f /\ c = NULL /\ wakes' = wakes + 1
          /\ UNCHANGED <<buf, front, f, got, asleep>>
      BY <1>4, <1>a DEF FlushSet, IInv, Pointers
    <2>2. idle /\ idle' = FALSE
      <3>1. f # NULL
        BY <1>a, NullAssumption
      <3>2. c = NULL /\ c' # NULL
        BY <2>1, <3>1
      <3>3. QED
        BY Zenon, <3>2
    <2>3. ready' = ready \o pending /\ partial' = partial
      BY Zenon, <1>c, <2>1 DEF Back
    <2>4. pending' = <<>>
      BY <1>a, <2>1, SubSeqEmpty
    <2>5. Queue!FlushAndWake
      BY Zenon, <1>d, <2>1, <2>2, <2>3, <2>4 DEF Queue!FlushAndWake
    <2>6. QED
      BY <1>a, <2>5 DEF Queue!Next
  <1>5. CASE Read
    <2>1. (~asleep \/ Polling) /\ UNCHANGED <<buf, w, f, wakes>>
      BY <1>5 DEF Read
    <2>2. pending' = pending /\ partial' = partial
      BY <2>1 DEF Back
    <2>3. CASE r' # NULL /\ r' # front
      <3>1. front < w /\ c' = c /\ front' = front + 1 /\ asleep' = FALSE
        BY <1>5, <2>3, NullAssumption
           DEF Read, FetchR, FetchC, Prefetched, IInv, TypeOK, Pointers
      <3>2. got' = Append(got, buf[front + 1])
        BY <1>5, <2>3 DEF Read, Front
      <3>3. Head(ready) = buf[front + 1] /\ Tail(ready) = SubSeq(buf, (front + 1) + 1, w)
        BY <1>a, <3>1, HeadTailOfSubSeq
      <3>4. ready' = Tail(ready)
        BY Zenon, <2>1, <3>1, <3>3
      <3>5. ready # <<>>
        <4>1. Len(ready) = w - front
          BY <1>a, <3>1, SubSeqProperties
        <4>2. QED
          BY <1>a, <3>1, <4>1
      <3>6. Queue!Read
        BY Zenon, <2>1, <2>2, <3>1, <3>2, <3>3, <3>4, <3>5 DEF Queue!Read, Polling, Queue!Polling
      <3>7. QED
        BY <1>a, <3>6 DEF Queue!Next
    <2>4. CASE ~(r' # NULL /\ r' # front)
      <3>1. front = w /\ c' = NULL /\ front' = front
        BY <1>5, <2>4, NullAssumption
           DEF Read, FetchR, FetchC, Prefetched, IInv, TypeOK, Pointers
      <3>2. asleep' = TRUE /\ got' = got
        BY <1>5, <2>4 DEF Read
      <3>3. ready = <<>> /\ ready' = ready
        BY <1>a, <2>1, <3>1, SubSeqEmpty
      <3>4. idle' = TRUE
        BY Zenon, <3>1
      <3>5. Queue!ReadNothing
        BY Zenon, <2>1, <2>2, <3>2, <3>3, <3>4 DEF Queue!ReadNothing, Polling, Queue!Polling
      <3>6. QED
        BY <1>a, <3>5 DEF Queue!Next
    <2>5. QED
      BY <2>3, <2>4
  <1>6. CASE WakeUp
    <2>1. /\ wakes > 0 /\ wakes' = wakes - 1 /\ asleep' = FALSE
          /\ UNCHANGED <<buf, front, w, f, c, got>>
      BY <1>6 DEF WakeUp
    <2>2. ready' = ready /\ pending' = pending /\ partial' = partial
      BY <2>1 DEF Back
    <2>3. idle' = idle
      BY Zenon, <2>1
    <2>4. Queue!WakeUp
      BY Zenon, <2>1, <2>2, <2>3 DEF Queue!WakeUp
    <2>5. QED
      BY <1>a, <2>4 DEF Queue!Next
  <1>7. CASE UNCHANGED vars
    BY <1>7 DEF vars, Queue!vars, Back
  <1>8. QED
    <2>1. (\E p \in Part : Write(p)) => Queue!Next
      BY <1>1, <1>a, <1>b DEF Queue!Next
    <2>2. QED
      BY <2>1, <1>2, <1>3, <1>4, <1>5, <1>6, <1>7 DEF Next, Step

\* The lock-free pipe is the atomic queue that wakes its reader (ypipe_t): what
\* its users rely on holds whatever the interleaving of its two threads.
THEOREM Refinement == Spec => Refines
  <1>1. QED
    BY InitRefines, NextRefines, PipeInvariant, PTL DEF Spec, Refines, Queue!Spec
=============================================================================
