-------------------------- MODULE PipeArrayProofs ---------------------------
(***************************************************************************)
(* What the operations of lb_t and fq_t on their arrays of pipes do, for   *)
(* arrays of any length: the pipes stay distinct, the active ones stay in  *)
(* front, the current one stays active, and exactly the pipe that is       *)
(* attached, activated, refused or terminated changes its place.           *)
(***************************************************************************)
EXTENDS PipeArray, TLAPS

Distinct(a) == \A i, j \in 1..Len(a) : a[i] = a[j] => i = j

\* Swapping two items keeps the items and their number.
LEMMA SwapKeeps ==
  ASSUME NEW S, NEW a \in Seq(S), NEW i \in 0 .. Len(a) - 1, NEW j \in 0 .. Len(a) - 1, Distinct(a)
  PROVE  /\ Swap(a, i, j) \in Seq(S) /\ Len(Swap(a, i, j)) = Len(a) /\ Distinct(Swap(a, i, j))
         /\ \A k \in 1..Len(a) : Swap(a, i, j)[k] = IF k = j + 1 THEN a[i + 1]
                                                    ELSE IF k = i + 1 THEN a[j + 1] ELSE a[k]
  <1> DEFINE b == Swap(a, i, j)
  <1>1. i + 1 \in 1..Len(a) /\ j + 1 \in 1..Len(a) /\ Len(a) \in Nat
    OBVIOUS
  <1>2. b \in Seq(S) /\ Len(b) = Len(a)
    BY <1>1 DEF Swap
  <1>3. \A k \in 1..Len(a) : b[k] = IF k = j + 1 THEN a[i + 1] ELSE IF k = i + 1 THEN a[j + 1] ELSE a[k]
    BY <1>1 DEF Swap
  <1> HIDE DEF b
  <1>4. Distinct(b)
    BY <1>1, <1>2, <1>3 DEF Distinct
  <1>5. QED
    BY <1>2, <1>3, <1>4 DEF b

\* An item is at its index.
LEMMA IndexFinds ==
  ASSUME NEW S, NEW a \in Seq(S), NEW k \in 1..Len(a), Distinct(a)
  PROVE  Index(a, a[k]) = k - 1
  <1>1. (CHOOSE i \in 1..Len(a) : a[i] = a[k]) = k
    BY DEF Distinct
  <1>2. QED
    BY Zenon, <1>1 DEF Index

\* erase takes one item out and moves the last one there.
LEMMA EraseKeeps ==
  ASSUME NEW S, NEW a \in Seq(S), NEW k \in 1..Len(a), Distinct(a)
  PROVE  /\ Erase(a, a[k]) \in Seq(S) /\ Len(Erase(a, a[k])) = Len(a) - 1
         /\ \A m \in 1..Len(a) - 1 : Erase(a, a[k])[m] = IF m = k THEN a[Len(a)] ELSE a[m]
         /\ Distinct(Erase(a, a[k]))
  <1> DEFINE n == Len(a)
             b == [a EXCEPT ![k] = a[n]]
             e == SubSeq(b, 1, n - 1)
  <1>1. n \in Nat \ {0} /\ k \in 1..n
    OBVIOUS
  <1>2. Index(a, a[k]) + 1 = k
    BY <1>1, IndexFinds
  <1>3. Erase(a, a[k]) = e
    BY <1>2 DEF Erase
  <1>4. b \in Seq(S) /\ Len(b) = n /\ \A m \in 1..n : b[m] = IF m = k THEN a[n] ELSE a[m]
    BY <1>1
  <1> HIDE DEF b
  <1>5. e \in Seq(S) /\ Len(e) = n - 1 /\ \A m \in 1..n - 1 : e[m] = b[m]
    BY <1>1, <1>4
  <1> HIDE DEF e
  <1>6. \A m \in 1..n - 1 : e[m] = IF m = k THEN a[n] ELSE a[m]
    BY <1>1, <1>4, <1>5
  <1>7. Distinct(e)
    BY SMTT(60), <1>1, <1>5, <1>6 DEF Distinct
  <1>8. QED
    BY <1>3, <1>5, <1>6, <1>7

\* Arrays with the same items, in any order.
LEMMA SameItems ==
  ASSUME NEW f, NEW g, NEW A, \A i \in A : \E j \in A : f[i] = g[j],
         \A i \in A : \E j \in A : g[i] = f[j]
  PROVE  {f[i] : i \in A} = {g[i] : i \in A}
  OBVIOUS

-----------------------------------------------------------------------------
IsList(l, S) == l \in [ps : Seq(S), act : Nat, cur : Nat] /\ WellFormed(l)

\* A list by its parts.
LEMMA Parts ==
  ASSUME NEW S, NEW l, IsList(l, S)
  PROVE  /\ l = [ps |-> l.ps, act |-> l.act, cur |-> l.cur]
         /\ l.ps \in Seq(S) /\ Len(l.ps) \in Nat /\ Distinct(l.ps)
         /\ l.act \in 0..Len(l.ps) /\ l.cur \in Nat /\ (l.cur = 0 \/ l.cur < l.act)
         /\ Items(l) = {l.ps[i] : i \in 1..Len(l.ps)}
         /\ Active(l) = {l.ps[i] : i \in 1..l.act}
         /\ Current(l) = l.ps[l.cur + 1]
  <1>1. l.ps \in Seq(S) /\ Len(l.ps) \in Nat /\ l.act \in 0..Len(l.ps)
    BY DEF IsList, WellFormed
  <1>2. 1..Len(l.ps) \cap 1..l.act = 1..l.act
    BY <1>1
  <1>3. Active(l) = {l.ps[i] : i \in 1..l.act}
    BY <1>2 DEF Active
  <1>4. Items(l) = {l.ps[i] : i \in 1..Len(l.ps)} /\ Current(l) = l.ps[l.cur + 1]
    BY DEF Items, Current, At
  <1>5. QED
    BY <1>1, <1>3, <1>4 DEF IsList, WellFormed, Distinct

\* A list from its parts.
LEMMA Whole ==
  ASSUME NEW S, NEW a \in Seq(S), NEW n \in 0..Len(a), NEW c \in Nat, c = 0 \/ c < n, Distinct(a)
  PROVE  LET l == [ps |-> a, act |-> n, cur |-> c]
         IN  /\ IsList(l, S) /\ Items(l) = {a[i] : i \in 1..Len(a)}
             /\ Active(l) = {a[i] : i \in 1..n} /\ Current(l) = a[c + 1]
  <1> DEFINE l == [ps |-> a, act |-> n, cur |-> c]
  <1>1. l.ps = a /\ l.act = n /\ l.cur = c
    OBVIOUS
  <1>2. IsList(l, S)
    <2>1. Len(a) \in Nat
      OBVIOUS
    <2>2. l \in [ps : Seq(S), act : Nat, cur : Nat]
      BY <2>1
    <2>3. WellFormed(l)
      BY <1>1 DEF WellFormed, Distinct
    <2>4. QED
      BY <2>2, <2>3 DEF IsList
  <1> HIDE DEF l
  <1>3. QED
    BY <1>1, <1>2, Parts DEF l

\* activated: the pipe joins the active ones, and nobody else moves in or out of
\* them; the current pipe stays the same, also in the middle of a message (lb_t
\* and fq_t::activated).
THEOREM ActivatedJoins ==
  ASSUME NEW S, NEW l, IsList(l, S), NEW p \in Items(l) \ Active(l)
  PROVE  /\ IsList(Activated(l, p), S)
         /\ Items(Activated(l, p)) = Items(l)
         /\ Active(Activated(l, p)) = Active(l) \cup {p}
         /\ l.act > 0 => Current(Activated(l, p)) = Current(l)
  <1> DEFINE a == l.ps
             n == l.act
             c == l.cur
  <1>1. /\ l = [ps |-> a, act |-> n, cur |-> c] /\ a \in Seq(S) /\ Len(a) \in Nat /\ Distinct(a)
        /\ n \in 0..Len(a) /\ c \in Nat /\ (c = 0 \/ c < n)
        /\ Items(l) = {a[i] : i \in 1..Len(a)} /\ Active(l) = {a[i] : i \in 1..n}
        /\ Current(l) = a[c + 1]
    BY Parts
  <1> HIDE DEF a, n, c
  <1>2. PICK k \in 1..Len(a) : p = a[k]
    BY <1>1
  <1>3. k > n /\ n < Len(a) /\ k - 1 \in 0..Len(a) - 1 /\ n \in 0..Len(a) - 1 /\ (k - 1) + 1 = k
    BY <1>1, <1>2
  <1>4. Index(a, p) = k - 1
    BY <1>1, <1>2, IndexFinds
  <1> DEFINE b == Swap(a, k - 1, n)
             m == [ps |-> b, act |-> n + 1, cur |-> c]
  <1>5. Activated(l, p) = m
    BY <1>3, <1>4 DEF Activated, a, n, c
  <1>6. /\ b \in Seq(S) /\ Len(b) = Len(a) /\ Distinct(b)
        /\ \A i \in 1..Len(a) : b[i] = IF i = n + 1 THEN a[(k - 1) + 1]
                                         ELSE IF i = (k - 1) + 1 THEN a[n + 1] ELSE a[i]
    BY SMTT(60), <1>1, <1>3, SwapKeeps
  <1> HIDE DEF b
  <1>7. \A i \in 1..Len(a) : b[i] = IF i = n + 1 THEN a[k] ELSE IF i = k THEN a[n + 1] ELSE a[i]
    BY <1>3, <1>6
  <1>8. /\ IsList(m, S) /\ Items(m) = {b[i] : i \in 1..Len(b)} /\ Active(m) = {b[i] : i \in 1..n + 1}
        /\ Current(m) = b[c + 1]
    <2>1. n + 1 \in 0..Len(b) /\ (c = 0 \/ c < n + 1)
      BY <1>1, <1>3, <1>6
    <2>2. /\ IsList([ps |-> b, act |-> n + 1, cur |-> c], S)
          /\ Items([ps |-> b, act |-> n + 1, cur |-> c]) = {b[i] : i \in 1..Len(b)}
          /\ Active([ps |-> b, act |-> n + 1, cur |-> c]) = {b[i] : i \in 1..n + 1}
          /\ Current([ps |-> b, act |-> n + 1, cur |-> c]) = b[c + 1]
      <3> HIDE DEF m
      <3>1. QED
        BY SMTT(60), <1>1, <1>6, <2>1, Whole
    <2>3. QED
      BY <2>2
  <1> HIDE DEF m
  <1>9. Items(m) = Items(l)
    <2> DEFINE A == 1..Len(a)
    <2>1. \A i \in A : \E j \in A : b[i] = a[j]
      <3> SUFFICES ASSUME NEW i \in A PROVE \E j \in A : b[i] = a[j]
        OBVIOUS
      <3>1. k \in A /\ n + 1 \in A
        BY <1>1, <1>3
      <3>2. b[i] = a[k] \/ b[i] = a[n + 1] \/ b[i] = a[i]
        BY <1>7
      <3> HIDE DEF A
      <3>3. QED
        BY Zenon, <3>1, <3>2
    <2>2. \A i \in A : \E j \in A : a[i] = b[j]
      <3> SUFFICES ASSUME NEW i \in A PROVE \E j \in A : a[i] = b[j]
        BY Zenon
      <3>1. n + 1 \in 1..Len(a) /\ b[n + 1] = a[k] /\ (k # n + 1 => b[k] = a[n + 1])
        BY SMTT(60), <1>1, <1>3, <1>7
      <3>2. i # k /\ i # n + 1 => b[i] = a[i]
        BY <1>7
      <3>3. CASE i = k
        BY <3>1, <3>3
      <3>4. CASE i = n + 1 /\ i # k
        BY <3>1, <3>4
      <3>5. QED
        BY <3>2, <3>3, <3>4
    <2>3. {b[i] : i \in 1..Len(a)} = {a[i] : i \in 1..Len(a)}
      <3> HIDE DEF A
      <3>1. {b[i] : i \in A} = {a[i] : i \in A}
        <4>1. ASSUME NEW i \in A PROVE b[i] \in {a[j] : j \in A}
          BY <2>1
        <4>2. ASSUME NEW i \in A PROVE a[i] \in {b[j] : j \in A}
          BY <2>2
        <4>3. QED
          BY <4>1, <4>2
      <3>2. QED
        BY Zenon, <3>1 DEF A
    <2>4. QED
      BY Zenon, <1>1, <1>6, <1>8, <2>3
  <1>10. Active(m) = Active(l) \cup {p}
    <2>1. \A i \in 1..n : b[i] = a[i]
      <3> SUFFICES ASSUME NEW i \in 1..n PROVE b[i] = a[i]
        OBVIOUS
      <3>1. i \in 1..Len(a) /\ i # n + 1 /\ i # k
        BY <1>1, <1>3
      <3>2. QED
        BY <1>7, <3>1
    <2>2. b[n + 1] = p
      BY <1>1, <1>2, <1>3, <1>7
    <2>3. 1..n + 1 = 1..n \cup {n + 1}
      BY <1>1
    <2>4. {b[i] : i \in 1..n + 1} = {a[i] : i \in 1..n} \cup {p}
      BY <2>1, <2>2, <2>3
    <2>5. QED
      BY Zenon, <1>1, <1>8, <2>4
  <1>11. n > 0 => Current(m) = Current(l)
    BY <1>1, <1>3, <1>7, <1>8
  <1>12. QED
    BY <1>5, <1>8, <1>9, <1>10, <1>11 DEF n

\* attach: the new pipe is active at once, and the current one stays.
THEOREM AttachedJoins ==
  ASSUME NEW S, NEW l, IsList(l, S), NEW p \in S, p \notin Items(l)
  PROVE  /\ IsList(Attached(l, p), S)
         /\ Items(Attached(l, p)) = Items(l) \cup {p}
         /\ Active(Attached(l, p)) = Active(l) \cup {p}
         /\ l.act > 0 => Current(Attached(l, p)) = Current(l)
  <1> DEFINE m == [ps |-> Append(l.ps, p), act |-> l.act, cur |-> l.cur]
  <1> DEFINE a == l.ps
             n == l.act
             c == l.cur
  <1>1. /\ l = [ps |-> a, act |-> n, cur |-> c] /\ a \in Seq(S) /\ Len(a) \in Nat /\ Distinct(a)
        /\ n \in 0..Len(a) /\ c \in Nat /\ (c = 0 \/ c < n)
        /\ Items(l) = {a[i] : i \in 1..Len(a)} /\ Active(l) = {a[i] : i \in 1..n}
        /\ Current(l) = a[c + 1]
    BY Parts
  <1>2. Attached(l, p) = Activated(m, p)
    BY DEF Attached
  <1> HIDE DEF a, n, c
  <1> DEFINE b == Append(a, p)
  <1>3. m = [ps |-> b, act |-> n, cur |-> c] /\ m.act = n
    BY DEF a, n, c
  <1> HIDE DEF m
  <1>4. /\ b \in Seq(S) /\ Len(b) = Len(a) + 1 /\ b[Len(a) + 1] = p
        /\ \A i \in 1..Len(a) : b[i] = a[i] /\ a[i] # p
    BY <1>1
  <1> HIDE DEF b
  <1>5. Distinct(b)
    BY SMTT(60), <1>1, <1>4 DEF Distinct
  <1>6. /\ IsList(m, S) /\ Items(m) = {b[i] : i \in 1..Len(b)} /\ Active(m) = {b[i] : i \in 1..n}
        /\ Current(m) = b[c + 1]
    <2>1. n \in 0..Len(b)
      BY <1>1, <1>4
    <2>2. QED
      BY <1>1, <1>3, <1>4, <1>5, <2>1, Whole
  <1>7. Items(m) = Items(l) \cup {p}
    <2>1. 1..Len(b) = 1..Len(a) \cup {Len(a) + 1}
      BY <1>1, <1>4
    <2>2. {b[i] : i \in 1..Len(a) \cup {Len(a) + 1}} = {a[i] : i \in 1..Len(a)} \cup {p}
      BY <1>4
    <2>3. QED
      BY Zenon, <1>1, <1>6, <2>1, <2>2
  <1>8. Active(m) = Active(l) /\ p \notin Active(l)
    <2>1. \A i \in 1..n : b[i] = a[i] /\ a[i] # p
      BY <1>1, <1>4
    <2>2. QED
      BY <1>1, <1>6, <2>1
  <1>9. n > 0 => Current(m) = Current(l)
    BY <1>1, <1>4, <1>6
  <1>10. p \in Items(m) \ Active(m)
    BY <1>7, <1>8
  <1>11. /\ IsList(Activated(m, p), S) /\ Items(Activated(m, p)) = Items(m)
         /\ Active(Activated(m, p)) = Active(m) \cup {p}
         /\ m.act > 0 => Current(Activated(m, p)) = Current(m)
    BY <1>6, <1>10, ActivatedJoins
  <1>12. QED
    BY <1>2, <1>3, <1>7, <1>8, <1>9, <1>11 DEF n

\* A pipe that refuses leaves the active ones, alone, and the current one is
\* again active when any is (the loops of sendpipe, recvpipe, has_in, has_out).
THEOREM DeactivateLeaves ==
  ASSUME NEW S, NEW l, IsList(l, S), l.act > 0
  PROVE  /\ IsList(Deactivate(l), S)
         /\ Items(Deactivate(l)) = Items(l)
         /\ Active(Deactivate(l)) = Active(l) \ {Current(l)}
  <1> DEFINE a == l.ps
             n == l.act
             c == l.cur
  <1>1. /\ l = [ps |-> a, act |-> n, cur |-> c] /\ a \in Seq(S) /\ Len(a) \in Nat /\ Distinct(a)
        /\ n \in 0..Len(a) /\ c \in Nat /\ (c = 0 \/ c < n)
        /\ Items(l) = {a[i] : i \in 1..Len(a)} /\ Active(l) = {a[i] : i \in 1..n}
        /\ Current(l) = a[c + 1]
    BY Parts
  <1>2. n > 0 /\ Deactivate(l) = [ps |-> Swap(a, c, n - 1), act |-> n - 1,
                                  cur |-> IF c = n - 1 THEN 0 ELSE c]
    BY DEF Deactivate, CurrentAfter
  <1> HIDE DEF a, n, c
  <1>3. /\ c \in 0..Len(a) - 1 /\ n - 1 \in 0..Len(a) - 1 /\ (n - 1) + 1 = n
        /\ c + 1 \in 1..n /\ n \in 1..Len(a)
    BY <1>1, <1>2
  <1> DEFINE b == Swap(a, c, n - 1)
             d == IF c = n - 1 THEN 0 ELSE c
             m == [ps |-> b, act |-> n - 1, cur |-> d]
  <1>4. /\ b \in Seq(S) /\ Len(b) = Len(a) /\ Distinct(b)
        /\ \A i \in 1..Len(a) : b[i] = IF i = (n - 1) + 1 THEN a[c + 1]
                                         ELSE IF i = c + 1 THEN a[(n - 1) + 1] ELSE a[i]
    BY SMTT(60), <1>1, <1>3, SwapKeeps
  <1> HIDE DEF b
  <1>5. \A i \in 1..Len(a) : b[i] = IF i = n THEN a[c + 1] ELSE IF i = c + 1 THEN a[n] ELSE a[i]
    BY <1>3, <1>4
  <1>6. d \in Nat /\ (d = 0 \/ d < n - 1) /\ n - 1 \in 0..Len(b)
    BY <1>1, <1>3, <1>4
  <1> HIDE DEF d
  <1>7. IsList(m, S) /\ Items(m) = {b[i] : i \in 1..Len(b)} /\ Active(m) = {b[i] : i \in 1..n - 1}
    BY <1>4, <1>6, Whole
  <1>8. Deactivate(l) = m
    BY <1>2 DEF b, d
  <1> HIDE DEF m
  <1>9. Items(m) = Items(l)
    <2> DEFINE A == 1..Len(a)
    <2>1. \A i \in A : \E j \in A : b[i] = a[j]
      <3> SUFFICES ASSUME NEW i \in A PROVE \E j \in A : b[i] = a[j]
        OBVIOUS
      <3>1. c + 1 \in A /\ n \in A
        BY <1>1, <1>3
      <3>2. b[i] = a[c + 1] \/ b[i] = a[n] \/ b[i] = a[i]
        BY <1>5
      <3> HIDE DEF A
      <3>3. QED
        BY Zenon, <3>1, <3>2
    <2>2. \A i \in A : \E j \in A : a[i] = b[j]
      <3> SUFFICES ASSUME NEW i \in A PROVE \E j \in A : a[i] = b[j]
        BY Zenon
      <3>1. b[n] = a[c + 1] /\ (n # c + 1 => b[c + 1] = a[n]) /\ c + 1 \in 1..Len(a)
        BY <1>1, <1>3, <1>5
      <3>2. i # n /\ i # c + 1 => b[i] = a[i]
        BY <1>5
      <3>3. CASE i = c + 1
        BY <1>3, <3>1, <3>3
      <3>4. CASE i = n /\ i # c + 1
        BY <3>1, <3>4
      <3>5. QED
        BY <3>2, <3>3, <3>4
    <2>3. {b[i] : i \in 1..Len(a)} = {a[i] : i \in 1..Len(a)}
      <3> HIDE DEF A
      <3>1. {b[i] : i \in A} = {a[i] : i \in A}
        BY <2>1, <2>2, SameItems
      <3>2. QED
        BY Zenon, <3>1 DEF A
    <2>4. QED
      BY Zenon, <1>1, <1>4, <1>7, <2>3
  <1>10. Active(m) = Active(l) \ {Current(l)}
    <2>1. \A i \in 1..n - 1 : b[i] = (IF i = c + 1 THEN a[n] ELSE a[i]) /\ i \in 1..Len(a) /\ i # n
      BY <1>1, <1>3, <1>5
    <2>2. \A i \in 1..n - 1 : b[i] # a[c + 1]
      BY <1>1, <1>3, <2>1 DEF Distinct
    <2>3. \A i \in 1..n - 1 : \E j \in 1..n : b[i] = a[j]
      BY <1>3, <2>1
    <2>4. \A i \in 1..n : a[i] # a[c + 1] => \E j \in 1..n - 1 : a[i] = b[j]
      <3> SUFFICES ASSUME NEW i \in 1..n, a[i] # a[c + 1] PROVE \E j \in 1..n - 1 : a[i] = b[j]
        OBVIOUS
      <3>1. CASE i = n
        <4>1. c + 1 \in 1..n - 1 /\ b[c + 1] = a[i]
          BY <1>3, <2>1, <3>1
        <4>2. QED
          BY <4>1
      <3>2. CASE i # n
        <4>1. i \in 1..n - 1 /\ i # c + 1
          BY <1>3, <3>2
        <4>2. QED
          BY <2>1, <4>1
      <3>3. QED
        BY <3>1, <3>2
    <2>5. {b[i] : i \in 1..n - 1} = {a[i] : i \in 1..n} \ {a[c + 1]}
      BY <2>2, <2>3, <2>4
    <2>6. QED
      BY Zenon, <1>1, <1>7, <2>5
  <1>11. QED
    BY <1>7, <1>8, <1>9, <1>10

\* pipe_terminated: the pipe goes, whichever section it was in, no other pipe
\* changes its section, and the current one is again active when any is.
THEOREM TerminatedGoes ==
  ASSUME NEW S, NEW l, IsList(l, S), NEW p \in Items(l)
  PROVE  /\ IsList(Terminated(l, p), S)
         /\ Items(Terminated(l, p)) = Items(l) \ {p}
         /\ Active(Terminated(l, p)) = Active(l) \ {p}
  <1> DEFINE a == l.ps
             n == l.act
             c == l.cur
  <1>1. /\ l = [ps |-> a, act |-> n, cur |-> c] /\ a \in Seq(S) /\ Len(a) \in Nat /\ Distinct(a)
        /\ n \in 0..Len(a) /\ c \in Nat /\ (c = 0 \/ c < n)
        /\ Items(l) = {a[i] : i \in 1..Len(a)} /\ Active(l) = {a[i] : i \in 1..n}
        /\ Current(l) = a[c + 1]
    BY Parts
  <1>2. PICK k \in 1..Len(a) : p = a[k]
    BY <1>1
  <1>3. Index(a, p) = k - 1
    BY <1>1, <1>2, IndexFinds
  <1>4. Terminated(l, p) =
          IF k - 1 < n THEN [ps |-> Erase(Swap(a, k - 1, n - 1), p), act |-> n - 1,
                             cur |-> IF c = n - 1 THEN 0 ELSE c]
                       ELSE [ps |-> Erase(a, p), act |-> n, cur |-> c]
    BY <1>3 DEF Terminated, CurrentAfter
  <1> HIDE DEF a, n, c
  <1>5. ASSUME NEW e \in Seq(S), Len(e) = Len(a) - 1,
               \A i \in 1..Len(a) - 1 : e[i] # p /\ \E j \in 1..Len(a) : e[i] = a[j],
               \A i \in 1..Len(a) : a[i] # p => \E j \in 1..Len(a) - 1 : a[i] = e[j]
        PROVE  {e[i] : i \in 1..Len(e)} = Items(l) \ {p}
    <2> DEFINE A == 1..Len(a)
               E == 1..Len(a) - 1
    <2>1. \A i \in E : e[i] # p /\ \E j \in A : e[i] = a[j]
      BY <1>5
    <2>2. \A i \in A : a[i] # p => \E j \in E : a[i] = e[j]
      BY <1>5
    <2>3. {e[i] : i \in E} = {a[i] : i \in A} \ {p}
      <3> HIDE DEF A, E
      <3>1. QED
        BY <2>1, <2>2
    <2>4. QED
      BY Zenon, <1>1, <1>5, <2>3
  <1>6. CASE k <= n
    <2> DEFINE b == Swap(a, k - 1, n - 1)
               e == Erase(b, p)
               d == IF c = n - 1 THEN 0 ELSE c
               m == [ps |-> e, act |-> n - 1, cur |-> d]
    <2>1. /\ k - 1 \in 0..Len(a) - 1 /\ n - 1 \in 0..Len(a) - 1 /\ (k - 1) + 1 = k /\ (n - 1) + 1 = n
          /\ n \in 1..Len(a) /\ k - 1 < n /\ k \in 1..n
      BY <1>1, <1>6
    <2>2. /\ b \in Seq(S) /\ Len(b) = Len(a) /\ Distinct(b)
          /\ \A i \in 1..Len(a) : b[i] = IF i = (n - 1) + 1 THEN a[(k - 1) + 1]
                                           ELSE IF i = (k - 1) + 1 THEN a[(n - 1) + 1] ELSE a[i]
      BY SMTT(60), <1>1, <2>1, SwapKeeps
    <2>3. Terminated(l, p) = m
      BY <1>4, <2>1
    <2> HIDE DEF b
    <2>4. \A i \in 1..Len(a) : b[i] = IF i = n THEN p ELSE IF i = k THEN a[n] ELSE a[i]
      BY <1>2, <2>1, <2>2
    <2>5. n \in 1..Len(b) /\ b[n] = p
      BY <2>1, <2>2, <2>4
    <2>6. /\ e \in Seq(S) /\ Len(e) = Len(b) - 1 /\ Distinct(e)
          /\ \A i \in 1..Len(b) - 1 : e[i] = IF i = n THEN b[Len(b)] ELSE b[i]
      BY ZenonT(60), <2>2, <2>5, EraseKeeps
    <2> HIDE DEF e
    <2>7. \A i \in 1..Len(a) - 1 : e[i] = IF i = n THEN b[Len(a)] ELSE b[i]
      BY <2>2, <2>6
    <2>8. d \in Nat /\ (d = 0 \/ d < n - 1) /\ n - 1 \in 0..Len(e)
      BY <1>1, <2>1, <2>2, <2>6
    <2> HIDE DEF d
    <2>9. IsList(m, S) /\ Items(m) = {e[i] : i \in 1..Len(e)} /\ Active(m) = {e[i] : i \in 1..n - 1}
      BY SMTT(60), <2>6, <2>8, Whole
    <2> HIDE DEF m
    <2>10. \A i \in 1..Len(a) : i # n => b[i] # p /\ \E j \in 1..Len(a) : b[i] = a[j]
      <3> SUFFICES ASSUME NEW i \in 1..Len(a), i # n
                   PROVE  b[i] # p /\ \E j \in 1..Len(a) : b[i] = a[j]
        OBVIOUS
      <3>1. b[i] # p
        BY <2>2, <2>5 DEF Distinct
      <3>2. QED
        BY <2>1, <2>4, <3>1
    <2>11. \A i \in 1..Len(a) - 1 : e[i] # p /\ \E j \in 1..Len(a) : e[i] = a[j]
      <3> TAKE i \in 1..Len(a) - 1
      <3>1. CASE i = n
        <4>1. Len(a) \in 1..Len(a) /\ Len(a) # n /\ e[i] = b[Len(a)]
          BY <1>1, <2>7, <3>1
        <4>2. QED
          BY <2>10, <4>1
      <3>2. CASE i # n
        <4>1. i \in 1..Len(a) /\ e[i] = b[i]
          BY <1>1, <2>7, <3>2
        <4>2. QED
          BY <2>10, <3>2, <4>1
      <3>3. QED
        BY <3>1, <3>2
    <2>12. \A i \in 1..Len(a) : a[i] # p => \E j \in 1..Len(a) - 1 : a[i] = e[j]
      <3> SUFFICES ASSUME NEW i \in 1..Len(a), a[i] # p PROVE \E j \in 1..Len(a) - 1 : a[i] = e[j]
        OBVIOUS
      <3>1. PICK j \in 1..Len(a) : a[i] = b[j] /\ j # n
        <4>1. i # k
          BY <1>2
        <4>2. CASE i = n
          BY <2>1, <2>4, <4>1, <4>2
        <4>3. CASE i # n
          BY <2>4, <4>1, <4>3
        <4>4. QED
          BY <4>2, <4>3
      <3>2. CASE j = Len(a)
        <4>1. n \in 1..Len(a) - 1 /\ e[n] = a[i]
          BY SMTT(60), <1>1, <2>1, <2>7, <3>1, <3>2
        <4>2. QED
          BY <4>1
      <3>3. CASE j # Len(a)
        <4>1. j \in 1..Len(a) - 1 /\ e[j] = a[i]
          BY <1>1, <2>7, <3>1, <3>3
        <4>2. QED
          BY <4>1
      <3>4. QED
        BY <3>2, <3>3
    <2>13. Items(m) = Items(l) \ {p}
      <3>1. e \in Seq(S) /\ Len(e) = Len(a) - 1
        BY <2>2, <2>6
      <3>2. {e[i] : i \in 1..Len(e)} = Items(l) \ {p}
        BY Zenon, <1>5, <2>11, <2>12, <3>1
      <3>3. QED
        BY <2>9, <3>2
    <2>14. Active(m) = Active(l) \ {p}
      <3>1. \A i \in 1..n - 1 : e[i] = IF i = k THEN a[n] ELSE a[i]
        <4> TAKE i \in 1..n - 1
        <4>1. i \in 1..Len(a) - 1 /\ i \in 1..Len(a) /\ i # n
          BY SMTT(60), <1>1, <2>1
        <4>2. e[i] = b[i]
          BY <2>7, <4>1
        <4>3. QED
          BY <2>4, <4>1, <4>2
      <3>2. \A i \in 1..n - 1 : e[i] # p
        BY <1>1, <2>1, <2>11
      <3>3. \A i \in 1..n - 1 : \E j \in 1..n : e[i] = a[j]
        BY <2>1, <3>1
      <3>4. \A i \in 1..n : a[i] # p => \E j \in 1..n - 1 : a[i] = e[j]
        <4> SUFFICES ASSUME NEW i \in 1..n, a[i] # p PROVE \E j \in 1..n - 1 : a[i] = e[j]
          OBVIOUS
        <4>1. CASE i = n
          <5>1. k \in 1..n - 1 /\ e[k] = a[i]
            BY <1>2, <2>1, <3>1, <4>1
          <5>2. QED
            BY <5>1
        <4>2. CASE i # n
          <5>1. i \in 1..n - 1 /\ e[i] = a[i]
            BY <1>2, <2>1, <3>1, <4>2
          <5>2. QED
            BY <5>1
        <4>3. QED
          BY <4>1, <4>2
      <3>5. {e[i] : i \in 1..n - 1} = {a[i] : i \in 1..n} \ {p}
        BY <3>2, <3>3, <3>4
      <3>6. QED
        BY Zenon, <1>1, <2>9, <3>5
    <2>15. QED
      BY <2>3, <2>9, <2>13, <2>14
  <1>7. CASE k > n
    <2> DEFINE e == Erase(a, p)
               m == [ps |-> e, act |-> n, cur |-> c]
    <2>1. Terminated(l, p) = m
      <3>1. ~(k - 1 < n)
        BY <1>1, <1>7
      <3>2. QED
        BY <1>4, <3>1
    <2>2. /\ e \in Seq(S) /\ Len(e) = Len(a) - 1 /\ Distinct(e)
          /\ \A i \in 1..Len(a) - 1 : e[i] = IF i = k THEN a[Len(a)] ELSE a[i]
      <3>1. a \in Seq(S) /\ k \in 1..Len(a) /\ Distinct(a)
        BY <1>1, <1>2
      <3>2. e = Erase(a, a[k])
        BY <1>2
      <3> HIDE DEF e
      <3>3. QED
        BY ZenonT(60), <3>1, <3>2, EraseKeeps
    <2> HIDE DEF e
    <2>3. n \in 0..Len(e)
      BY <1>1, <1>7, <2>2
    <2>4. IsList(m, S) /\ Items(m) = {e[i] : i \in 1..Len(e)} /\ Active(m) = {e[i] : i \in 1..n}
      <3>1. c \in Nat /\ (c = 0 \/ c < n) /\ e \in Seq(S) /\ Distinct(e)
        BY <1>1, <2>2
      <3>2. QED
        BY <2>3, <3>1, Whole
    <2> HIDE DEF m
    <2>5. \A i \in 1..Len(a) : i # k => a[i] # p
      BY <1>1, <1>2 DEF Distinct
    <2>6. \A i \in 1..Len(a) - 1 : e[i] # p /\ \E j \in 1..Len(a) : e[i] = a[j]
      <3> TAKE i \in 1..Len(a) - 1
      <3>1. CASE i = k
        <4>1. Len(a) \in 1..Len(a) /\ Len(a) # k /\ e[i] = a[Len(a)]
          BY <1>1, <2>2, <3>1
        <4>2. QED
          BY <2>5, <4>1
      <3>2. CASE i # k
        <4>1. i \in 1..Len(a) /\ e[i] = a[i]
          BY <1>1, <2>2, <3>2
        <4>2. QED
          BY <2>5, <3>2, <4>1
      <3>3. QED
        BY <3>1, <3>2
    <2>7. \A i \in 1..Len(a) : a[i] # p => \E j \in 1..Len(a) - 1 : a[i] = e[j]
      <3> SUFFICES ASSUME NEW i \in 1..Len(a), a[i] # p PROVE \E j \in 1..Len(a) - 1 : a[i] = e[j]
        OBVIOUS
      <3>1. CASE i = Len(a)
        <4>1. k \in 1..Len(a) - 1 /\ e[k] = a[i]
          BY <1>1, <1>2, <2>2, <3>1
        <4>2. QED
          BY <4>1
      <3>2. CASE i # Len(a)
        <4>1. i \in 1..Len(a) - 1 /\ e[i] = a[i]
          BY <1>1, <1>2, <2>2, <3>2
        <4>2. QED
          BY <4>1
      <3>3. QED
        BY <3>1, <3>2
    <2>8. Items(m) = Items(l) \ {p}
      BY Zenon, <1>5, <2>2, <2>4, <2>6, <2>7
    <2>9. Active(m) = Active(l) \ {p}
      <3>1. \A i \in 1..n : e[i] = a[i] /\ a[i] # p
        BY SMTT(60), <1>1, <1>7, <2>2, <2>5
      <3>2. {e[i] : i \in 1..n} = {a[i] : i \in 1..n} \ {p}
        BY <3>1
      <3>3. QED
        BY Zenon, <1>1, <2>4, <3>2
    <2>10. QED
      BY <2>1, <2>4, <2>8, <2>9
  <1>8. QED
    BY <1>1, <1>2, <1>6, <1>7
=============================================================================
