-------------------------------- MODULE Msg ---------------------------------
(***************************************************************************)
(* Messages and the memory they share (msg.cpp, metadata.cpp, and the      *)
(* receive buffers of decoder_allocators.cpp).  A msg_t is a value that    *)
(* belongs to one thread.  Copies of a long message share its content      *)
(* ("lmsg"), messages received without copying have theirs in the buffer   *)
(* they came in ("zc"), and messages of one connection share its metadata. *)
(* Counters are atomic; what a thread does after it has changed one is a   *)
(* step of its own.                                                        *)
(***************************************************************************)
EXTENDS Naturals, Sequences, FiniteSets

CONSTANTS Slot,         \* the msg_t variables: of applications, pipes and engines
          MaxContents,  \* contents made
          MaxBuffers,   \* receive buffers allocated
          Counters      \* contents a receive buffer has room for

VARIABLE st

Void == [type |-> "void", c |-> 0, shared |-> FALSE, meta |-> FALSE]
Empty == [Void EXCEPT !.type = "vsm"]
Idle == [m |-> "none", left |-> 0, failed |-> 0]

TypeOK ==
    /\ st.msg \in [Slot -> [type : {"void", "vsm", "lmsg", "zc"}, c : 0..MaxContents,
                            shared : BOOLEAN, meta : BOOLEAN]]
    /\ st.closing \in [Slot -> {"no", "free", "buffer"}]
    /\ \A i \in DOMAIN st.content :
         st.content[i] \in [refs : 0..(Cardinality(Slot) + 2), buf : 0..MaxBuffers, freed : BOOLEAN]
    /\ \A i \in DOMAIN st.buffer :
         st.buffer[i] \in [refs : 0..(Counters + 1), freed : BOOLEAN]
    /\ st.cur \in 0..MaxBuffers /\ st.used \in 0..Counters
    /\ st.alloc \in {"none", "ready", "next"} /\ st.meta \in 0..(Cardinality(Slot) + 1)

Init ==
    st = [msg |-> [m \in Slot |-> Void], closing |-> [m \in Slot |-> "no"], content |-> <<>>,
          buffer |-> <<>>, cur |-> 0, used |-> 0, alloc |-> "next", meta |-> 1,
          engine |-> TRUE, dist |-> Idle, assert |-> TRUE]

Asserting(s, p) == [s EXCEPT !.assert = @ /\ p]

Long(msg) == msg.type \in {"lmsg", "zc"}

\* Memory may be used that has not been returned; a content in a receive buffer goes with it.
Alive(s, c) ==
    /\ ~s.content[c].freed
    /\ s.content[c].buf # 0 => ~s.buffer[s.content[c].buf].freed

Content(buf) == [refs |-> 0, buf |-> buf, freed |-> FALSE]

\* A slot nobody uses.
Fresh(m) == st.msg[m].type = "void" /\ st.closing[m] = "no"

\* One that its owner may operate on.
Usable(m) == st.msg[m].type # "void" /\ st.closing[m] = "no" /\ st.dist.m # m

\*---------------------------------------------------------------------------
\* Making messages

\* init, init_size and init_data ("vsm" stands for all types that share nothing: short, constant
\* and control messages).
init(m, type) ==
    /\ Fresh(m)
    /\ IF type # "lmsg" THEN st' = [st EXCEPT !.msg[m] = [Void EXCEPT !.type = type]]
       ELSE /\ Len(st.content) < MaxContents
            /\ st' = [st EXCEPT !.content = Append(@, Content(0)),
                                !.msg[m] = [Void EXCEPT !.type = "lmsg", !.c = Len(st.content) + 1]]

\* size_ready of a decoder, for a message that fits in what the buffer holds: the buffer provides
\* the content and counts the message (init_external_storage, advance_content, inc_ref).
size_ready(m) ==
    /\ Fresh(m) /\ st.alloc = "ready" /\ st.engine
    /\ st.used < Counters /\ Len(st.content) < MaxContents
    /\ st' = Asserting([st EXCEPT !.content = Append(@, Content(st.cur)),
                                  !.msg[m] = [Void EXCEPT !.type = "zc", !.c = Len(st.content) + 1],
                                  !.used = @ + 1, !.buffer[st.cur].refs = @ + 1],
                       ~st.buffer[st.cur].freed)

\* set_metadata, when the engine passes a message on.
set_metadata(m) ==
    /\ Usable(m) /\ st.engine /\ ~st.msg[m].meta
    /\ st' = Asserting([st EXCEPT !.msg[m].meta = TRUE, !.meta = @ + 1], st.meta > 0)

\*---------------------------------------------------------------------------
\* copy, move and close

\* The other message is a fresh or closed one: a close would come first.
Shared(s, m) ==
    LET msg == s.msg[m]
    IN IF ~Long(msg) THEN s
       ELSE IF msg.shared
              THEN Asserting([s EXCEPT !.content[msg.c].refs = @ + 1], Alive(s, msg.c))
              ELSE Asserting([s EXCEPT !.content[msg.c].refs = 2, !.msg[m].shared = TRUE],
                             Alive(s, msg.c))

copy(m, n) ==
    /\ Usable(m) /\ Fresh(n)
    /\ LET s == Shared(st, m)
       IN st' = [s EXCEPT !.msg[n] = s.msg[m], !.meta = IF s.msg[m].meta THEN @ + 1 ELSE @]

\* move, and a pipe that passes a message by value.
move(m, n) ==
    /\ Usable(m) /\ Fresh(n)
    /\ st' = [st EXCEPT !.msg[n] = st.msg[m], !.msg[m] = Empty]

\* The end of close: metadata_t::drop_ref, and the message is invalid.
Closed(s, m) ==
    Asserting([s EXCEPT !.msg[m] = Void, !.closing[m] = "no",
                        !.meta = IF s.msg[m].meta THEN @ - 1 ELSE @],
              s.msg[m].meta => s.meta > 0)

\* The counter is changed, and tells whether this was the last reference.
close(m) ==
    /\ Usable(m)
    /\ LET msg == st.msg[m]
           refs == st.content[msg.c].refs
           less == [st EXCEPT !.content[msg.c].refs = @ - 1]
       IN st' = IF ~Long(msg) THEN Closed(st, m)
                ELSE Asserting(IF ~msg.shared THEN [st EXCEPT !.closing[m] = "free"]
                               ELSE IF refs = 1 THEN [less EXCEPT !.closing[m] = "free"]
                               ELSE Closed(less, m),
                               Alive(st, msg.c) /\ (msg.shared => refs > 0))

\* The last one returns the content, by the free function if there is one; that of a message in
\* a receive buffer is call_dec_ref.
CloseFrees(m) ==
    /\ st.closing[m] = "free"
    /\ LET c == st.msg[m].c
           b == st.content[c].buf
           freed == Asserting([st EXCEPT !.content[c].freed = TRUE], Alive(st, c))
           less == [freed EXCEPT !.buffer[b].refs = @ - 1]
       IN st' = IF b = 0 THEN Closed(freed, m)
                ELSE IF st.buffer[b].refs > 1 THEN Closed(less, m)
                ELSE [less EXCEPT !.closing[m] = "buffer"]

FreesBuffer(m) ==
    /\ st.closing[m] = "buffer"
    /\ LET b == st.content[st.msg[m].c].buf
       IN st' = Asserting(Closed([st EXCEPT !.buffer[b].freed = TRUE], m), ~st.buffer[b].freed)

\*---------------------------------------------------------------------------
\* The receive buffer of a decoder

\* An allocate that takes the buffer again whoever uses it.
AllocateKeeps ==
    /\ st.alloc = "ready" /\ st.engine
    /\ st' = [st EXCEPT !.alloc = "next", !.buffer[st.cur].refs = @ - 1]

\* allocate: the decoder gives up its reference, and the buffer if a message still uses it.
allocate ==
    /\ st.alloc = "ready" /\ st.engine
    /\ st' = [st EXCEPT !.alloc = "next", !.buffer[st.cur].refs = @ - 1,
                        !.cur = IF st.buffer[st.cur].refs > 1 THEN 0 ELSE @]

\* A new buffer, or the old one with its counter set anew.
Allocated ==
    /\ st.alloc = "next" /\ st.engine
    /\ \/ /\ st.cur = 0 /\ Len(st.buffer) < MaxBuffers
          /\ st' = [st EXCEPT !.buffer = Append(@, [refs |-> 1, freed |-> FALSE]),
                              !.cur = Len(st.buffer) + 1, !.used = 0, !.alloc = "ready"]
       \/ /\ st.cur # 0
          /\ st' = Asserting([st EXCEPT !.buffer[st.cur].refs = 1, !.used = 0, !.alloc = "ready"],
                             ~st.buffer[st.cur].freed)

\* The destructors of the engine and its decoder.
deallocate ==
    /\ st.engine /\ st.alloc = "ready"
    /\ LET last == st.buffer[st.cur].refs = 1
       IN st' = [st EXCEPT !.engine = FALSE, !.alloc = "none", !.cur = 0, !.meta = @ - 1,
                           !.buffer[st.cur].refs = @ - 1, !.buffer[st.cur].freed = @ \/ last]

\*---------------------------------------------------------------------------
\* dist_t::distribute: a message goes to several pipes

add_refs(s, m, n) ==
    LET msg == s.msg[m]
    IN IF n = 0 \/ ~Long(msg) THEN s
       ELSE [s EXCEPT !.content[msg.c].refs = IF msg.shared THEN @ + n ELSE n + 1,
                      !.msg[m].shared = TRUE]

\* The last reference of a content is given up, and its share of a receive buffer.
Released(s, c) ==
    LET b == s.content[c].buf
    IN IF b = 0 THEN [s EXCEPT !.content[c].freed = TRUE]
       ELSE [s EXCEPT !.content[c].freed = TRUE, !.buffer[b].refs = @ - 1,
                      !.buffer[b].freed = s.buffer[b].refs = 1]

rm_refs(s, m, n) ==
    LET msg == s.msg[m]
    IN IF n = 0 \/ ~Long(msg) THEN s
       ELSE IF ~msg.shared \/ s.content[msg.c].refs = n
              THEN Released([s EXCEPT !.content[msg.c].refs = 0], msg.c)
              ELSE [s EXCEPT !.content[msg.c].refs = @ - n]

\* socket_base_t::send takes off the metadata first.
distribute(m, n) ==
    /\ Usable(m) /\ st.dist = Idle
    /\ LET bare == [st EXCEPT !.msg[m].meta = FALSE, !.meta = IF st.msg[m].meta THEN @ - 1 ELSE @]
       IN st' = [add_refs(bare, m, n - 1) EXCEPT !.dist = [m |-> m, left |-> n, failed |-> 0]]

\* write: a pipe takes the message by value, or is full.
Written(n) ==
    /\ st.dist.left > 0 /\ Fresh(n)
    /\ st' = Asserting([st EXCEPT !.msg[n] = st.msg[st.dist.m], !.dist.left = @ - 1],
                       Long(st.msg[st.dist.m]) => Alive(st, st.msg[st.dist.m].c))

Refused == st.dist.left > 0 /\ st' = [st EXCEPT !.dist.left = @ - 1, !.dist.failed = @ + 1]

Distributed ==
    /\ st.dist # Idle /\ st.dist.left = 0
    /\ st' = [rm_refs(st, st.dist.m, st.dist.failed) EXCEPT !.msg[st.dist.m] = Empty, !.dist = Idle]

Next ==
    \/ \E m \in Slot, type \in {"vsm", "lmsg"} : init(m, type)
    \/ \E m \in Slot : size_ready(m) \/ set_metadata(m) \/ close(m) \/ CloseFrees(m) \/ FreesBuffer(m)
    \/ \E m, n \in Slot : copy(m, n) \/ move(m, n)
    \/ allocate \/ Allocated \/ deallocate
    \/ \E m \in Slot, n \in 1..2 : distribute(m, n)
    \/ \E n \in Slot : Written(n)
    \/ Refused \/ Distributed

Spec == Init /\ [][Next]_st

\*---------------------------------------------------------------------------

\* The messages that refer to a content, a message being distributed as often as it still has to
\* be written or was refused.
Holders(c) ==
    Cardinality({m \in Slot : Long(st.msg[m]) /\ st.msg[m].c = c /\ st.closing[m] = "no"
                              /\ st.dist.m # m})
      + (IF st.dist # Idle /\ st.msg[st.dist.m].c = c /\ Long(st.msg[st.dist.m])
           THEN st.dist.left + st.dist.failed ELSE 0)

\* Memory is never used or returned after it was returned, whichever thread closes the last copy of
\* a message and whenever the decoder takes its buffer again.
NothingUsedAfterFree ==
    /\ st.assert
    /\ \A c \in DOMAIN st.content : Holders(c) > 0 => Alive(st, c)

\* Memory is returned: a content with its last message, a receive buffer with its last content and
\* its decoder, the metadata with its engine and the last message of the connection.
NothingLeaks ==
    /\ \A c \in DOMAIN st.content :
         \/ Holders(c) > 0 \/ st.content[c].freed
         \/ \E m \in Slot : st.closing[m] = "free" /\ st.msg[m].c = c
    /\ \A b \in DOMAIN st.buffer :
         \/ st.buffer[b].freed \/ st.cur = b
         \/ \E c \in DOMAIN st.content : st.content[c].buf = b /\ ~st.content[c].freed
         \/ \E m \in Slot : st.closing[m] = "buffer" /\ st.content[st.msg[m].c].buf = b
    /\ st.meta = Cardinality({m \in Slot : st.msg[m].meta}) + (IF st.engine THEN 1 ELSE 0)
=============================================================================
