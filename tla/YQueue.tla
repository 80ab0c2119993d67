------------------------------- MODULE YQueue -------------------------------
(***************************************************************************)
(* yqueue_t (yqueue.hpp): the slots of a ypipe_t, kept in a doubly linked  *)
(* list of chunks of N slots.  The reader recycles a chunk it has emptied  *)
(* through the spare chunk, the only word both threads touch; the writer   *)
(* frees chunks that unpush makes obsolete.  A pointer to a slot is a pair *)
(* <<chunk, position>>.  The user (ypipe_t) guarantees that only released  *)
(* slots are popped and only unreleased ones unpushed (YPipe!Pointers).    *)
(***************************************************************************)
EXTENDS Integers, Sequences, FiniteSets

CONSTANTS
    Chunk,      \* addresses the allocator can return
    N,          \* slots in a chunk
    Val,        \* values written to slots
    NULL,
    Junk,       \* what uninitialised memory holds
    MaxPushed   \* bound on the slots in use since the start

VARIABLES
    heap,       \* allocated chunks; NULL where the address is not allocated
    begin,      \* front(): reader only
    back,       \* back(): writer only
    end,        \* writer only
    spare,      \* _spare_chunk, exchanged atomically
    wpc,        \* "xchg" between ++_end_pos == N and the exchange in push
    old,        \* the chunk pop is about to make the spare, or NULL
    log,        \* values written and not taken back
    released,   \* slots the writer has made readable
    out,        \* values popped
    dead        \* the destructor has run

vars == <<heap, begin, back, end, spare, wpc, old, log, released, out, dead>>

Fresh == [values |-> [i \in 0 .. N - 1 |-> Junk], prev |-> Junk, next |-> Junk]
Free == {ch \in Chunk : heap[ch] = NULL}

\* The constructor, followed by the push of the pipe's terminator.
Init ==
    \E ch \in Chunk :
        /\ heap = [x \in Chunk |-> IF x = ch THEN Fresh ELSE NULL]
        /\ begin = <<ch, 0>> /\ back = <<ch, 0>> /\ end = <<ch, 1>>
        /\ spare = NULL /\ wpc = "idle" /\ old = NULL
        /\ log = <<>> /\ released = 0 /\ out = <<>> /\ dead = FALSE

\* Mutant of BackSlot: the value is written where the next one belongs.
BackSlotIsEnd == end
BackSlot == back
\* back() = v; push(), up to the test ++_end_pos != N.
Push(v) ==
    /\ ~dead /\ wpc = "idle" /\ Len(log) < MaxPushed
    /\ heap' = [heap EXCEPT ![BackSlot[1]].values[BackSlot[2]] = v]
    /\ log' = Append(log, v)
    /\ back' = end
    /\ IF end[2] + 1 # N
       THEN end' = <<end[1], end[2] + 1>> /\ UNCHANGED wpc
       ELSE wpc' = "xchg" /\ UNCHANGED end
    /\ UNCHANGED <<begin, spare, old, released, out, dead>>

\* The rest of push: link the spare chunk, or a newly allocated one.
PushChunk ==
    /\ wpc = "xchg"
    /\ spare' = NULL
    /\ \E sc \in IF spare # NULL THEN {spare} ELSE Free :
        /\ heap' = [heap EXCEPT
                        ![sc] = [(IF spare # NULL THEN heap[sc] ELSE Fresh)
                                    EXCEPT !.prev = end[1]],
                        ![end[1]].next = sc]
        /\ end' = <<sc, 0>>
    /\ wpc' = "idle"
    /\ UNCHANGED <<begin, back, old, log, released, out, dead>>

StepBack(p) == IF p[2] # 0 THEN <<p[1], p[2] - 1>> ELSE <<heap[p[1]].prev, N - 1>>

\* Mutant of FreesEnd: the obsolete end chunk is forgotten instead of freed.
NeverFreesEnd == FALSE
FreesEnd == end[2] = 0
Unpush ==
    /\ ~dead /\ wpc = "idle" /\ Len(log) > released
    /\ back' = StepBack(back) /\ end' = StepBack(end)
    /\ heap' = IF ~FreesEnd THEN heap
               ELSE [heap EXCEPT ![end[1]] = NULL, ![end'[1]].next = NULL]
    /\ log' = SubSeq(log, 1, Len(log) - 1)
    /\ UNCHANGED <<begin, spare, wpc, old, released, out, dead>>

\* flush of the pipe: what was pushed may now be popped.
Release ==
    /\ ~dead /\ wpc = "idle" /\ released < Len(log)
    /\ released' = Len(log)
    /\ UNCHANGED <<heap, begin, back, end, spare, wpc, old, log, out, dead>>

\* front(); pop(), up to the exchange of the spare chunk.
Pop ==
    /\ ~dead /\ old = NULL /\ Len(out) < released
    /\ out' = Append(out, heap[begin[1]].values[begin[2]])
    /\ IF begin[2] + 1 # N
       THEN begin' = <<begin[1], begin[2] + 1>> /\ UNCHANGED <<heap, old>>
       ELSE /\ old' = begin[1]
            /\ begin' = <<heap[begin[1]].next, 0>>
            /\ heap' = [heap EXCEPT ![heap[begin[1]].next].prev = NULL]
    /\ UNCHANGED <<back, end, spare, wpc, log, released, dead>>

\* The rest of pop: the emptied chunk becomes the spare, the former is freed.
PopChunk ==
    /\ old # NULL
    /\ spare' = old /\ old' = NULL
    /\ heap' = IF spare = NULL THEN heap ELSE [heap EXCEPT ![spare] = NULL]
    /\ UNCHANGED <<begin, back, end, wpc, log, released, out, dead>>

\* The chunks of the list, first to last, by the absolute index of the slots.
Live == (Len(log) + 1) \div N - Len(out) \div N
Chain[i \in 0 .. MaxPushed] ==
    IF i = 0 THEN begin[1] ELSE heap[Chain[i - 1]].next
ChainSet == {Chain[i] : i \in 0 .. (IF wpc = "idle" THEN Live ELSE Live - 1)}

\* Mutant of Owned: the spare chunk is not freed.
OwnedWithoutSpare == ChainSet
Owned == ChainSet \cup {spare}
\* The destructor walks the list from begin to end, then frees the spare.
Destroy ==
    /\ ~dead /\ wpc = "idle" /\ old = NULL
    /\ heap' = [ch \in Chunk |-> IF ch \in Owned THEN NULL ELSE heap[ch]]
    /\ dead' = TRUE
    /\ UNCHANGED <<begin, back, end, spare, wpc, old, log, released, out>>

Next ==
    \/ \E v \in Val : Push(v)
    \/ PushChunk \/ Unpush \/ Release \/ Pop \/ PopChunk \/ Destroy

Spec == Init /\ [][Next]_vars

-----------------------------------------------------------------------------
\* Slots come out in the order and with the values they were pushed, although
\* their memory is recycled: the premise on which YPipe abstracts from chunks.
Fifo == Len(out) <= Len(log) /\ out = SubSeq(log, 1, Len(out))

\* Every allocated chunk is in the list, is the spare or is about to become it,
\* and is only one of these: no chunk is used twice, leaked or used when freed.
ChunksAccounted ==
    ~dead =>
        /\ Cardinality(ChainSet) = (IF wpc = "idle" THEN Live + 1 ELSE Live)
        /\ Chain[Cardinality(ChainSet) - 1] = end[1]
        /\ ChainSet \cap {spare, old} = {}
        /\ spare = old => spare = NULL
        /\ ChainSet \cup ({spare, old} \ {NULL}) = Chunk \ Free

\* Once destroyed the queue owns no memory.
NoLeak == dead => Free = Chunk
=============================================================================
