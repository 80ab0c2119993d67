------------------------------- MODULE Tries --------------------------------
(***************************************************************************)
(* The subscription tables as data structures: trie_t (trie.cpp), which    *)
(* counts the subscriptions of a SUB socket, and generic_mtrie_t           *)
(* (generic_mtrie_impl.hpp), which holds the pipes subscribed at a         *)
(* publisher.  A node has a table of the children for a range of           *)
(* characters; adding a key extends the range, removing one prunes nodes   *)
(* and compacts tables.  Both are checked against a plain map.             *)
(* radix_tree_t is the second part of the module.                          *)
(***************************************************************************)
EXTENDS Naturals, Sequences, FiniteSets, FiniteSetsExt, SequencesExt

CONSTANTS Keys,      \* what is subscribed to, as sequences of characters
          Data,      \* what is looked up
          Holder,    \* the pipes of a generic_mtrie_t
          MaxRefs    \* subscriptions to one key in a trie_t

VARIABLE st

\* A table entry is <<>> (a null pointer) or <<node>>.  "refs" is of trie_t, "pipes" of
\* generic_mtrie_t; _count is the length of the table.
NewNode == [refs |-> 0, pipes |-> {}, min |-> 0, table |-> <<>>, live |-> 0]

Null == <<>>

Init ==
    \E kind \in {"trie", "mtrie"} :
      st = [kind |-> kind, root |-> NewNode, refs |-> [k \in Keys |-> 0],
            holders |-> [k \in Keys |-> {}], ok |-> TRUE]

Count(n) == Len(n.table)

Subscribed(n) == n.refs > 0 \/ n.pipes # {}

is_redundant(n) == ~Subscribed(n) /\ n.live = 0

\* The characters a table has room for.
Handles(n, c) == c >= n.min /\ c < n.min + Count(n)

Child(n, c) == n.table[c - n.min + 1]

Nulls(k) == [i \in 1..k |-> Null]

\*---------------------------------------------------------------------------
\* add

\* The table grows to the new character, above or below.
Extended(n, c) ==
    CASE Handles(n, c) -> n
      [] Count(n) = 0 -> [n EXCEPT !.min = c, !.table = <<Null>>]
      [] Count(n) > 0 /\ c < n.min -> [n EXCEPT !.min = c, !.table = Nulls(n.min - c) \o @]
      [] Count(n) > 0 /\ c >= n.min + Count(n) ->
           [n EXCEPT !.table = @ \o Nulls(c - n.min + 1 - Count(n))]

RECURSIVE add(_, _, _)
\* Returns the node, whether the key is new, and whether the assertions held.
add(n, key, who) ==
    IF key = <<>>
      THEN [node |-> IF st.kind = "trie" THEN [n EXCEPT !.refs = @ + 1]
                                         ELSE [n EXCEPT !.pipes = @ \cup {who}],
            new |-> ~Subscribed(n), ok |-> TRUE]
    ELSE LET c == Head(key)
             e == Extended(n, c)
             made == Child(e, c) = Null
             m == IF made THEN [e EXCEPT !.live = @ + 1] ELSE e
             r == add(IF made THEN NewNode ELSE Child(e, c)[1], Tail(key), who)
         IN [r EXCEPT !.node = [m EXCEPT !.table[c - m.min + 1] = <<r.node>>],
                      !.ok = @ /\ (made => (m.live = 1) = (Count(m) = 1))]

\*---------------------------------------------------------------------------
\* rm of one key

Full(n) == {i \in DOMAIN n.table : n.table[i] # Null}

Only(n, i) == [n EXCEPT !.min = @ + i - 1, !.table = <<n.table[i]>>]

\* The table after the entry of c has become null: one node is kept without a table, and a null
\* at either end is cut off with those next to it.
Compacted(n, c) ==
    CASE n.live = 1 /\ st.kind = "trie" -> Only(n, IF c = n.min THEN Count(n) ELSE 1)
      [] n.live = 1 /\ st.kind = "mtrie" -> Only(n, Min(Full(n)))
      [] n.live > 1 /\ c = n.min ->
           [n EXCEPT !.min = @ + Min(Full(n)) - 1, !.table = SubSeq(@, Min(Full(n)), Count(n))]
      [] n.live > 1 /\ c # n.min /\ c = n.min + Count(n) - 1 ->
           [n EXCEPT !.table = SubSeq(@, 1, Max(Full(n)))]
      [] OTHER -> n

\* A deletion that leaves the table as it is.
PrunedOnly(n, c) ==
    LET m == [n EXCEPT !.table[c - n.min + 1] = Null, !.live = @ - 1]
    IN IF Count(n) = 1 THEN [m EXCEPT !.table = <<>>] ELSE m

\* The child for c is deleted.
Pruned(n, c) ==
    LET m == [n EXCEPT !.table[c - n.min + 1] = Null, !.live = @ - 1]
    IN IF Count(n) = 1 THEN [m EXCEPT !.table = <<>>] ELSE Compacted(m, c)

\* The assertions on the way: one live node in a table of one, more in a larger one, and what is
\* kept is not null.
PruneOk(n, m, c) ==
    /\ IF Count(n) = 1 THEN m.live = 0 ELSE n.live > 1
    /\ m.live = 1 => m.table[1] # Null
    /\ m.live = 1 /\ st.kind = "trie" => c \in {n.min, n.min + Count(n) - 1}

Erased(n, who) ==
    IF st.kind = "trie" THEN IF n.refs = 0 THEN n ELSE [n EXCEPT !.refs = @ - 1]
                        ELSE [n EXCEPT !.pipes = @ \ {who}]

RECURSIVE rm(_, _, _)
\* Returns the node and what became of the key: the last of its subscriptions was removed, some
\* remain, or it was not there.
rm(n, key, who) ==
    IF key = <<>>
      THEN LET m == Erased(n, who)
           IN [node |-> m, ok |-> TRUE,
               found |-> CASE m = n -> "not_found"
                           [] m # n /\ Subscribed(m) -> "values_remain"
                           [] m # n /\ ~Subscribed(m) -> "last_value_removed"]
    ELSE LET c == Head(key) IN
         IF ~Handles(n, c) \/ (Handles(n, c) /\ Child(n, c) = Null)
           THEN [node |-> n, ok |-> TRUE, found |-> "not_found"]
         ELSE LET r == rm(Child(n, c)[1], Tail(key), who)
                  m == IF is_redundant(r.node) THEN Pruned(n, c)
                       ELSE [n EXCEPT !.table[c - n.min + 1] = <<r.node>>]
              IN [r EXCEPT !.node = m, !.ok = @ /\ (is_redundant(r.node) => PruneOk(n, m, c))]

\*---------------------------------------------------------------------------
\* rm of a pipe from the whole of a generic_mtrie_t

\* rm_helper_multiple_subnodes after its loop: the table from the first to the last live node.
Shrunk(n) ==
    CASE n.live = 0 -> [n EXCEPT !.table = <<>>]
      [] n.live = 1 -> Only(n, Min(Full(n)))
      [] n.live > 1 -> [n EXCEPT !.min = @ + Min(Full(n)) - 1,
                                 !.table = SubSeq(@, Min(Full(n)), Max(Full(n)))]

RECURSIVE rm_pipe(_, _, _, _)
\* Returns the node and the keys the callback was called with.
rm_pipe(n, p, prefix, call_on_uniq) ==
    LET m == [n EXCEPT !.pipes = @ \ {p}]
        sub == [i \in Full(n) |-> rm_pipe(n.table[i][1], p, Append(prefix, n.min + i - 1), call_on_uniq)]
        gone == {i \in Full(n) : is_redundant(sub[i].node)}
        t == [i \in DOMAIN n.table |-> IF i \in Full(n) \ gone THEN <<sub[i].node>> ELSE Null]
    IN [node |-> Shrunk([m EXCEPT !.table = t, !.live = @ - Cardinality(gone)]),
        calls |-> (IF p \in n.pipes /\ (call_on_uniq => m.pipes = {}) THEN {prefix} ELSE {})
                    \cup UNION {sub[i].calls : i \in Full(n)}]

\*---------------------------------------------------------------------------
\* Looking up

RECURSIVE match(_, _)
\* The nodes on the path of the data, which trie_t::check stops at the first subscription of.
match(n, data) ==
    {n} \cup (IF data = <<>> THEN {}
              ELSE LET c == Head(data)
                   IN IF ~Handles(n, c) THEN {}
                      ELSE IF Child(n, c) = Null THEN {} ELSE match(Child(n, c)[1], Tail(data)))

check(data) == \E n \in match(st.root, data) : n.refs > 0

RECURSIVE apply(_, _)
\* The keys trie_t::apply calls the function with.
apply(n, prefix) ==
    (IF Subscribed(n) THEN {prefix} ELSE {})
      \cup UNION {apply(n.table[i][1], Append(prefix, n.min + i - 1)) : i \in Full(n)}

\*---------------------------------------------------------------------------

Add(k, who) ==
    /\ st.refs[k] < MaxRefs
    /\ LET r == add(st.root, k, who)
       IN st' = [st EXCEPT !.root = r.node, !.refs[k] = IF st.kind = "trie" THEN @ + 1 ELSE 0,
                           !.holders[k] = IF st.kind = "trie" THEN {} ELSE @ \cup {who},
                           !.ok = @ /\ r.ok /\ (r.new = (st.refs[k] = 0 /\ st.holders[k] = {}))]

Rm(k, who) ==
    LET r == rm(st.root, k, who)
        left == IF st.kind = "trie" THEN st.refs[k] > 1 ELSE st.holders[k] \ {who} # {}
        found == IF st.kind = "trie" THEN st.refs[k] > 0 ELSE who \in st.holders[k]
    IN st' = [st EXCEPT !.root = r.node, !.refs[k] = IF @ = 0 THEN 0 ELSE @ - 1,
                        !.holders[k] = @ \ {who},
                        !.ok = @ /\ r.ok
                                 /\ r.found = (IF ~found THEN "not_found"
                                               ELSE IF left THEN "values_remain" ELSE "last_value_removed")]

RmPipe(p, call_on_uniq) ==
    /\ st.kind = "mtrie"
    /\ LET r == rm_pipe(st.root, p, <<>>, call_on_uniq)
       IN st' = [st EXCEPT !.root = r.node, !.holders = [k \in Keys |-> @[k] \ {p}],
                           !.ok = @ /\ r.calls = {k \in Keys : /\ p \in st.holders[k]
                                                               /\ call_on_uniq => st.holders[k] = {p}}]

Next ==
    \/ \E k \in Keys, who \in Holder : Add(k, who) \/ Rm(k, who)
    \/ \E p \in Holder, u \in BOOLEAN : RmPipe(p, u)

Spec == Init /\ [][Next]_st

\*---------------------------------------------------------------------------

RECURSIVE WellFormed(_)
\* Tables begin and end with a live node and nodes without a purpose are gone: what the
\* assertions of rm and of the destructors rely on.
WellFormed(n) ==
    /\ n.live = Cardinality(Full(n))
    /\ n.table # <<>> => 1 \in Full(n) /\ Count(n) \in Full(n)
    /\ \A i \in Full(n) : ~is_redundant(n.table[i][1]) /\ WellFormed(n.table[i][1])

\* Both tries do what a map from keys to subscriptions would: the results of add and rm, what a
\* message matches, what is enumerated, and which keys a lost pipe leaves.
LikeMap ==
    /\ st.ok /\ WellFormed(st.root)
    /\ \A d \in Data :
         IF st.kind = "trie"
           THEN check(d) = (\E k \in Keys \cap Prefixes(d) : st.refs[k] > 0)
           ELSE UNION {n.pipes : n \in match(st.root, d)}
                  = UNION {st.holders[k] : k \in Keys \cap Prefixes(d)}
    /\ apply(st.root, <<>>) = {k \in Keys : st.refs[k] > 0 \/ st.holders[k] # {}}

-----------------------------------------------------------------------------
(***************************************************************************)
(* radix_tree_t (radix_tree.cpp): the subscriptions of an XSUB socket in   *)
(* builds with the radix tree.  Nodes are blocks of memory whose resizing  *)
(* may move them, so that every operation has to store the new address     *)
(* where the old one was.  Checked against a plain map from keys to        *)
(* reference counts.                                                       *)
(***************************************************************************)

CONSTANTS Words,     \* what is subscribed to, as sequences of characters
          Texts,     \* what is looked up
          MaxSize,   \* subscriptions held at a time
          Blocks     \* addresses: two more than a tree needs nodes


\* Memory that belongs to nobody.
Free == [refs |-> 0, prefix |-> <<>>, edges |-> <<>>, used |-> FALSE]

make_node(refs, prefix, edges) == [refs |-> refs, prefix |-> prefix, edges |-> edges, used |-> TRUE]

\* An edge is the first byte of a child's prefix and the child's address.
Edge(byte, to) == [byte |-> byte, to |-> to]

\* moves: whether realloc gives a new address.
RadixInit ==
    \E moves \in BOOLEAN :
      st = [heap |-> [a \in 1..Blocks |-> IF a = 1 THEN make_node(0, <<>>, <<>>) ELSE Free],
            root |-> 1, size |-> 0, refs |-> [k \in Words |-> 0], moves |-> moves, ok |-> TRUE]

Fresh(heap) == Min({a \in DOMAIN heap : ~heap[a].used})

\* A new node: the heap with it, and its address.
Made(heap, node) == [heap |-> [heap EXCEPT ![Fresh(heap)] = node], at |-> Fresh(heap)]

\* resize of the node at a, which then has the contents given.
Resized(heap, a, node) ==
    IF st.moves THEN LET m == Made(heap, node) IN [m EXCEPT !.heap[a] = Free]
                ELSE [heap |-> [heap EXCEPT ![a] = node], at |-> a]

\* set_node_at, of a node that must exist.
Pointed(heap, a, i, to) == [heap EXCEPT ![a].edges[i].to = to]

\*---------------------------------------------------------------------------
\* match

Common(s, t) ==
    Max({i \in 0..Len(s) : i <= Len(t) /\ SubSeq(s, 1, i) = SubSeq(t, 1, i)})

EdgesOf(node, byte) == {i \in DOMAIN node.edges : node.edges[i].byte = byte}

RECURSIVE Walk(_, _, _)
\* key: bytes of the key matched; bytes: those of the current node's prefix.
Walk(m, k, is_lookup) ==
    LET node == st.heap[m.current]
        c == Common(node.prefix, SubSeq(k, m.key + 1, Len(k)))
        n == [m EXCEPT !.key = @ + c, !.bytes = c]
        whole == c = Len(node.prefix)
    IN IF node.prefix = <<>> /\ node.edges = <<>> THEN m
       ELSE IF is_lookup /\ whole /\ node.refs > 0 THEN [n EXCEPT !.key = Len(k)]
       ELSE IF ~whole \/ n.key = Len(k) THEN n
       ELSE IF EdgesOf(node, k[n.key + 1]) = {} THEN n
       ELSE LET i == Min(EdgesOf(node, k[n.key + 1]))
            IN Walk([n EXCEPT !.up = m.edge, !.edge = i, !.grandparent = m.parent,
                              !.parent = m.current, !.current = node.edges[i].to], k, is_lookup)

radix_match(k, is_lookup) ==
    Walk([key |-> 0, bytes |-> 0, edge |-> 1, up |-> 1, current |-> st.root, parent |-> st.root,
          grandparent |-> st.root], k, is_lookup)

\*---------------------------------------------------------------------------
\* add

\* The rest of the key becomes a leaf below the current node.
AddedLeaf(k, m) ==
    LET node == st.heap[m.current]
        leaf == Made(st.heap, make_node(1, SubSeq(k, m.key + 1, Len(k)), <<>>))
        r == Resized(leaf.heap, m.current,
                     [node EXCEPT !.edges = Append(@, Edge(k[m.key + 1], leaf.at))])
    IN IF node.prefix = <<>>
         THEN [st EXCEPT !.heap = r.heap, !.root = r.at]
         ELSE [st EXCEPT !.heap = Pointed(r.heap, m.parent, m.edge, r.at)]

\* The current node keeps the matched part of its prefix; the rest goes to a node below it, next
\* to a leaf for the rest of the key if there is one.
Split(k, m) ==
    LET node == st.heap[m.current]
        rest == SubSeq(node.prefix, m.bytes + 1, Len(node.prefix))
        tail == SubSeq(k, m.key + 1, Len(k))
        leaf == IF tail = <<>> THEN [heap |-> st.heap, at |-> 0]
                               ELSE Made(st.heap, make_node(1, tail, <<>>))
        split == Made(leaf.heap, make_node(node.refs, rest, node.edges))
        edges == (IF tail = <<>> THEN <<>> ELSE <<Edge(tail[1], leaf.at)>>)
                   \o <<Edge(rest[1], split.at)>>
        r == Resized(split.heap, m.current,
                     make_node(IF tail = <<>> THEN 1 ELSE 0, SubSeq(node.prefix, 1, m.bytes), edges))
    IN [st EXCEPT !.heap = Pointed(r.heap, m.parent, m.edge, r.at)]

\* The state after, and whether the key is new.
added(k) ==
    LET m == radix_match(k, FALSE)
        node == st.heap[m.current]
    IN CASE m.key # Len(k) /\ m.bytes = Len(node.prefix) -> [s |-> AddedLeaf(k, m), new |-> TRUE]
         [] m.bytes # Len(node.prefix) -> [s |-> Split(k, m), new |-> TRUE]
         [] m.key = Len(k) /\ m.bytes = Len(node.prefix) ->
              [s |-> [st EXCEPT !.heap[m.current].refs = @ + 1], new |-> node.refs = 0]

\*---------------------------------------------------------------------------
\* rm

\* The node at a takes over the prefix, the edges and the count of its only child.
Merged(heap, a, child) ==
    LET c == heap[child]
    IN Resized([heap EXCEPT ![child] = Free], a, make_node(c.refs, heap[a].prefix \o c.prefix, c.edges))

\* The edge to the current node is replaced by the last one.
Unlinked(heap, m) ==
    LET p == heap[m.parent]
        r == Resized([heap EXCEPT ![m.current] = Free], m.parent,
                     [p EXCEPT !.edges = Front([p.edges EXCEPT ![m.edge] = Last(p.edges)])])
    IN IF p.prefix = <<>> THEN [st EXCEPT !.heap = r.heap, !.root = r.at]
       ELSE [st EXCEPT !.heap = Pointed(r.heap, m.grandparent, m.up, r.at)]

\* The last subscription to the key of the current node has gone.
Removed(heap, m) ==
    LET node == heap[m.current]
        p == heap[m.parent]
    IN CASE m.current = st.root \/ Len(node.edges) > 1 -> [st EXCEPT !.heap = heap]
         [] m.current # st.root /\ Len(node.edges) = 1 ->
              LET r == Merged(heap, m.current, node.edges[1].to)
              IN [st EXCEPT !.heap = Pointed(r.heap, m.parent, m.edge, r.at)]
         [] m.current # st.root /\ node.edges = <<>> ->
              IF Len(p.edges) = 2 /\ p.refs = 0 /\ m.parent # st.root
                THEN LET r == Merged([heap EXCEPT ![m.current] = Free], m.parent,
                                     p.edges[3 - m.edge].to)
                     IN [st EXCEPT !.heap = Pointed(r.heap, m.grandparent, m.up, r.at)]
                ELSE Unlinked(heap, m)

\* The state after, and whether the key has gone.
removed(k) ==
    LET m == radix_match(k, FALSE)
        node == st.heap[m.current]
        heap == [st.heap EXCEPT ![m.current].refs = @ - 1]
    IN CASE m.key # Len(k) \/ m.bytes # Len(node.prefix) \/ node.refs = 0 -> [s |-> st, gone |-> FALSE]
         [] m.key = Len(k) /\ m.bytes = Len(node.prefix) /\ node.refs > 1 ->
              [s |-> [st EXCEPT !.heap = heap], gone |-> FALSE]
         [] m.key = Len(k) /\ m.bytes = Len(node.prefix) /\ node.refs = 1 ->
              [s |-> Removed(heap, m), gone |-> TRUE]

\*---------------------------------------------------------------------------

radix_check(k) ==
    \/ st.heap[st.root].refs > 0
    \/ LET m == radix_match(k, TRUE)
       IN /\ m.key = Len(k) /\ m.bytes = Len(st.heap[m.current].prefix)
          /\ st.heap[m.current].refs > 0

RECURSIVE visit_keys(_, _)
\* The keys apply calls the function with.
visit_keys(a, buffer) ==
    LET node == st.heap[a]
        b == buffer \o node.prefix
    IN (IF node.refs > 0 THEN {b} ELSE {}) \cup UNION {visit_keys(e.to, b) : e \in Range(node.edges)}

\*---------------------------------------------------------------------------

radix_add(k) ==
    /\ st.size < MaxSize
    /\ LET r == added(k)
       IN st' = [r.s EXCEPT !.refs[k] = @ + 1, !.size = @ + 1,
                            !.ok = @ /\ (r.new = (st.refs[k] = 0))]

radix_rm(k) ==
    LET r == removed(k)
        there == st.refs[k] > 0
    IN st' = [r.s EXCEPT !.refs[k] = IF there THEN @ - 1 ELSE 0, !.size = IF there THEN @ - 1 ELSE @,
                         !.ok = @ /\ (r.gone = (st.refs[k] = 1))]

RadixNext == \E k \in Words : radix_add(k) \/ radix_rm(k)

RadixSpec == RadixInit /\ [][RadixNext]_st

\*---------------------------------------------------------------------------

RECURSIVE Reached(_)
Reached(a) == {a} \cup UNION {Reached(e.to) : e \in Range(st.heap[a].edges)}

\* No pointer leads to memory that was returned, none is lost, and edges lead to children that
\* begin with their byte.
PointersGood ==
    /\ \A a \in DOMAIN st.heap : \A e \in Range(st.heap[a].edges) :
         st.heap[e.to].used /\ st.heap[e.to].prefix # <<>> /\ st.heap[e.to].prefix[1] = e.byte
    /\ Reached(st.root) = {a \in DOMAIN st.heap : st.heap[a].used}

\* The tree does what a map from keys to counts would: the results of add and rm, what a message
\* matches and what is enumerated, wherever its nodes are moved.
RadixLikeMap ==
    /\ st.ok /\ PointersGood
    /\ \A d \in Texts : radix_check(d) = (\E k \in Words \cap Prefixes(d) : st.refs[k] > 0)
    /\ visit_keys(st.root, <<>>) = {k \in Words : st.refs[k] > 0}
=============================================================================
