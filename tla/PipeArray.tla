----------------------------- MODULE PipeArray ------------------------------
(***************************************************************************)
(* array_t (array.hpp), the array of pipes of lb_t, fq_t and dist_t: a     *)
(* sequence of distinct items, indexed from 0, whose items know their      *)
(* position; and what lb_t and fq_t do alike with theirs.  A list is       *)
(* [ps, act, cur]: the pipes, of which the first act are active (_active), *)
(* and the index of the current one (_current).                            *)
(***************************************************************************)
EXTENDS Naturals, Sequences

At(a, i) == a[i + 1]
Index(a, x) == (CHOOSE i \in 1..Len(a) : a[i] = x) - 1
Swap(a, i, j) == [a EXCEPT ![i + 1] = a[j + 1], ![j + 1] = a[i + 1]]

\* erase: the last item takes the erased one's place.
Erase(a, x) ==
    LET n == Len(a) IN
    SubSeq([a EXCEPT ![Index(a, x) + 1] = a[n]], 1, n - 1)

-----------------------------------------------------------------------------
Empty == [ps |-> <<>>, act |-> 0, cur |-> 0]
Items(l) == {l.ps[i] : i \in 1..Len(l.ps)}
Active(l) == {l.ps[i] : i \in 1..Len(l.ps) \cap 1..l.act}
Current(l) == At(l.ps, l.cur)

\* activated: the pipe moves to the end of the active ones.  (Of a swap past
\* the end of the array, undefined in C++, only the count is kept.)
Activated(l, p) ==
    [ps |-> IF l.act < Len(l.ps) THEN Swap(l.ps, Index(l.ps, p), l.act) ELSE l.ps,
     act |-> l.act + 1, cur |-> l.cur]
Attached(l, p) == Activated([ps |-> Append(l.ps, p), act |-> l.act, cur |-> l.cur], p)

\* Mutant of CurrentAfter: _current may point past the active pipes.
CurrentKept(l) == l.cur
CurrentAfter(l) == IF l.cur = l.act - 1 THEN 0 ELSE l.cur

\* pipe_terminated: an active pipe first leaves the active ones.
Terminated(l, p) ==
    LET i == Index(l.ps, p) IN
    IF i < l.act
    THEN [ps |-> Erase(Swap(l.ps, i, l.act - 1), p), act |-> l.act - 1,
          cur |-> CurrentAfter(l)]
    ELSE [ps |-> Erase(l.ps, p), act |-> l.act, cur |-> l.cur]

\* The loops of sendpipe, recvpipe, has_out and has_in: pipes that refuse
\* leave the active ones until one of the pipes in "ready" is current.
Deactivate(l) ==
    [ps |-> Swap(l.ps, l.cur, l.act - 1), act |-> l.act - 1,
     cur |-> CurrentAfter(l)]
Settled(l, ready) ==
    LET after[k \in 0..l.act] ==
            IF k = 0 THEN l
            ELSE IF \/ after[k - 1].act = 0 \/ Current(after[k - 1]) \in ready
            THEN after[k - 1] ELSE Deactivate(after[k - 1])
    IN  after[l.act]

WellFormed(l) ==
    /\ \A i, j \in 1..Len(l.ps) : l.ps[i] = l.ps[j] => i = j
    /\ l.act \in 0..Len(l.ps)
    /\ l.cur = 0 \/ l.cur < l.act
=============================================================================
