------------------------------- MODULE Codec --------------------------------
(***************************************************************************)
(* Frames on a connection: the encoder of one peer (encoder.hpp,           *)
(* v1_encoder.cpp, v2_encoder.cpp) as stream_engine_base_t::out_event      *)
(* drives it, and the decoder of the other (decoder.hpp, v1_decoder.cpp,   *)
(* v2_decoder.cpp) as in_event drives it.  Batches end inside frames,      *)
(* writes and reads take any number of bytes, large frames are sent from   *)
(* and received into the memory of the message.                            *)
(*                                                                         *)
(* A frame is its sequence of bytes and whether more follow.  The largest  *)
(* one-byte size and the length of a long size are constants, so that      *)
(* small frames meet every boundary.  WebSocket frames are the second part *)
(* of the module.                                                          *)
(***************************************************************************)
EXTENDS Sequences, SequencesExt, Integers

CONSTANTS UcharMax,    \* 255 in the code
          LongBytes,   \* 8 in the code
          Batch,       \* out_batch_size and in_batch_size
          Sizes,       \* sizes of the frames sent
          Frames       \* how many of them

VARIABLE st

MoreFlag == 1
LargeFlag == 2

Unlimited == UcharMax * 2 + 1

Idle == [data |-> <<>>, body |-> <<>>, new |-> TRUE, busy |-> FALSE]

\* One byte of a frame: no two of them are the same, nor like a byte of a header.
Byte(i, j) == 100 * i + j

Body(i, size) == [j \in 1..size |-> Byte(i, j)]

Init ==
    \E proto \in {"v1", "v2"}, limit \in {UcharMax, Unlimited},
       sizes \in [1..Frames -> Sizes], more \in [1..Frames -> {0, MoreFlag}] :
         st = [proto |-> proto, limit |-> limit, loaded |-> 0,
               frame |-> [i \in 1..Frames |-> [body |-> Body(i, sizes[i]), more |-> more[i]]],
               enc |-> Idle, out |-> <<>>, lent |-> FALSE, wire |-> <<>>, cap |-> Batch,
               dec |-> [step |-> "first", need |-> 1, tmp |-> <<>>, size |-> 0,
                        body |-> <<>>, more |-> 0],
               rcvd |-> <<>>, failed |-> FALSE, assert |-> TRUE]

Asserting(s, p) == [s EXCEPT !.assert = @ /\ p]

\*---------------------------------------------------------------------------
\* Encoding

Long(n) == [i \in 1..LongBytes |-> IF i = LongBytes THEN n ELSE 0]

\* v1_encoder_t::message_ready: the size counts the flags.
HeaderV1(f) ==
    LET size == Len(f.body) + 1
    IN (IF size < UcharMax THEN <<size>> ELSE <<UcharMax>> \o Long(size)) \o <<f.more>>

\* v2_encoder_t::message_ready.
HeaderV2(f) ==
    LET size == Len(f.body)
    IN IF size > UcharMax THEN <<f.more + LargeFlag>> \o Long(size) ELSE <<f.more, size>>

\* load_msg.
load_msg(s) ==
    LET f == s.frame[s.loaded + 1]
    IN Asserting([s EXCEPT !.loaded = @ + 1,
                           !.enc = [data |-> IF s.proto = "v1" THEN HeaderV1(f) ELSE HeaderV2(f),
                                    body |-> f.body, new |-> FALSE, busy |-> TRUE]],
                 ~s.enc.busy)

RECURSIVE Copied(_, _)
\* The loop of encode: into a buffer with room for n bytes, or straight from the message if that
\* fills the whole buffer of the encoder.  A message is closed when its last byte was handed out.
Copied(s, n) ==
    IF n = 0 THEN s
    ELSE IF s.enc.data = <<>> /\ s.enc.new
      THEN Asserting([s EXCEPT !.enc = Idle], ~s.lent)
    ELSE LET e == IF s.enc.data # <<>> THEN s.enc
                  ELSE [s.enc EXCEPT !.data = s.enc.body, !.body = <<>>, !.new = TRUE]
             k == IF Len(e.data) < n THEN Len(e.data) ELSE n
         IN IF s.out = <<>> /\ Len(e.data) >= Batch
              THEN [s EXCEPT !.out = e.data, !.enc = [e EXCEPT !.data = <<>>], !.lent = TRUE]
              ELSE Copied([s EXCEPT !.out = @ \o SubSeq(e.data, 1, k),
                                    !.enc = [e EXCEPT !.data = SubSeq(@, k + 1, Len(@))]], n - k)

encode(s) == IF s.enc.busy THEN Copied(s, Batch - Len(s.out)) ELSE s

RECURSIVE Filled(_)
\* The loop of out_event: messages are added until the batch is full or there is none.
Filled(s) ==
    IF Len(s.out) >= Batch \/ s.loaded = Frames THEN s
    ELSE LET e == encode(load_msg(Asserting(s, ~s.lent)))
         IN Filled(Asserting(e, Len(e.out) > Len(s.out)))

\* out_event, with a write that takes n bytes.
out_event(n) ==
    /\ LET s == IF st.out = <<>> THEN Filled(encode(st)) ELSE st
       IN /\ s.out # <<>> /\ n <= Len(s.out)
          /\ st' = [s EXCEPT !.wire = @ \o SubSeq(s.out, 1, n), !.out = SubSeq(@, n + 1, Len(@)),
                             !.lent = @ /\ n < Len(s.out)]

\*---------------------------------------------------------------------------
\* Decoding

Value(tmp) == Last(tmp)

\* What comes next is read into tmp (a header) or body.
NextStep(d, step, need) == [d EXCEPT !.step = step, !.need = need, !.tmp = <<>>]

Begin(d) == NextStep(d, "first", 1)

Result(rc, d) == [rc |-> rc, d |-> d]

\* v1_decoder_t: the steps after the first byte, a long size, the flags and the body.
StepV1(s, d) ==
    LET sized(n) == IF n = 0 \/ n - 1 > s.limit THEN Result("error", d)
                    ELSE Result("ok", [NextStep(d, "flags", 1) EXCEPT !.size = n - 1])
    IN CASE d.step = "first" /\ d.tmp[1] = UcharMax -> Result("ok", NextStep(d, "long", LongBytes))
         [] d.step = "first" /\ d.tmp[1] # UcharMax -> sized(d.tmp[1])
         [] d.step = "long" -> sized(Value(d.tmp))
         [] d.step = "flags" -> Result("ok", [NextStep(d, "message", d.size)
                                                EXCEPT !.more = d.tmp[1] % 2])
         [] d.step = "message" -> Result("message", Begin(d))

\* v2_decoder_t.
StepV2(s, d) ==
    LET sized(n) == IF n > s.limit THEN Result("error", d)
                    ELSE Result("ok", NextStep(d, "message", n))
    IN CASE d.step = "first" ->
              Result("ok", [NextStep(d, IF (d.tmp[1] \div LargeFlag) % 2 = 1 THEN "long" ELSE "short",
                                     IF (d.tmp[1] \div LargeFlag) % 2 = 1 THEN LongBytes ELSE 1)
                              EXCEPT !.more = d.tmp[1] % 2])
         [] d.step \in {"short", "long"} -> sized(Value(d.tmp))
         [] d.step = "message" -> Result("message", Begin(d))

Step(s, d) == IF s.proto = "v1" THEN StepV1(s, d) ELSE StepV2(s, d)

RECURSIVE Steps(_, _)
\* while (!_to_read): a step that wants no bytes is followed by the next.
Steps(s, d) ==
    IF d.need > 0 THEN Result("ok", d)
    ELSE LET r == Step(s, d) IN IF r.rc = "ok" THEN Steps(s, r.d) ELSE r

Takes(d, bytes) ==
    IF d.step = "message" THEN [d EXCEPT !.body = @ \o bytes, !.need = @ - Len(bytes)]
                          ELSE [d EXCEPT !.tmp = @ \o bytes, !.need = @ - Len(bytes)]

RECURSIVE decode(_, _)
\* decode, again and again until the bytes are used up (in_event_internal).
decode(s, data) ==
    IF data = <<>> THEN s
    ELSE LET k == IF s.dec.need < Len(data) THEN s.dec.need ELSE Len(data)
             r == Steps(s, Takes(s.dec, SubSeq(data, 1, k)))
             rest == SubSeq(data, k + 1, Len(data))
         IN CASE r.rc = "error" -> [s EXCEPT !.failed = TRUE]
              [] r.rc = "ok" -> decode([s EXCEPT !.dec = r.d], rest)
              [] r.rc = "message" ->
                   decode([s EXCEPT !.dec = [r.d EXCEPT !.body = <<>>],
                                    !.rcvd = Append(@, [body |-> r.d.body, more |-> r.d.more])], rest)

\* get_buffer: the buffer of the decoder, or the message itself if it would fill the buffer.  The
\* buffer of v1_decoder_t is as large as the last read was long (c_single_allocator::resize).
Room(s) == IF s.dec.need >= s.cap THEN s.dec.need ELSE s.cap

in_event(n) ==
    /\ ~st.failed /\ n <= Len(st.wire) /\ n <= Room(st)
    /\ LET s == [st EXCEPT !.wire = SubSeq(@, n + 1, Len(@)),
                           !.cap = IF st.proto = "v1" THEN n ELSE Batch]
       IN st' = decode(s, SubSeq(st.wire, 1, n))

Next == \E n \in 1..(Batch * 2) : out_event(n) \/ in_event(n)

Spec == Init /\ [][Next]_st

\*---------------------------------------------------------------------------

\* The assertions hold: one message is encoded at a time, every message yields bytes, the memory
\* of a message that is being sent is neither returned nor written to.
AssertionsHold == st.assert

TooLong(i) == Len(st.frame[i].body) > st.limit

\* What was received is what was sent, frame by frame, however the bytes were cut.
Decoded == \A i \in DOMAIN st.rcvd : st.rcvd[i] = st.frame[i]

\* Nothing stays inside: when all bytes have gone through, all frames have; and the connection
\* fails at a frame that is too long and no other.
Complete ==
    /\ st.failed => Len(st.rcvd) < Frames /\ TooLong(Len(st.rcvd) + 1)
    /\ ~st.failed => \A i \in DOMAIN st.rcvd : ~TooLong(i)
    /\ st.loaded = Frames /\ ~st.enc.busy /\ st.out = <<>> /\ st.wire = <<>> /\ ~st.failed =>
         Len(st.rcvd) = Frames

-----------------------------------------------------------------------------
(* ws_encoder_t and ws_decoder_t: one frame from a message to the message the   *)
(* peer decodes.  A frame is its fields: opcode, 7 bit size and mask bit, longer *)
(* size, mask, flags, body; the decoder takes them one step at a time.  A body   *)
(* is the sequence of which mask byte each of its bytes was combined with (0:    *)
(* none), so that masking twice alike restores it.  Sizes are exact; Big stands  *)
(* for 0xFFFF, the last size of the short form.                                  *)

CONSTANTS
    Small,      \* the largest size in the first size byte (125)
    Big,        \* the largest size in two bytes (0xFFFF)
    WsSizes,      \* the message sizes explored
    Limits      \* values of options.maxmsgsize (-1: none)


(* A client masks and a server demands it.  A control message (ping, pong,       *)
(* close) is one of msg_t's command messages.                                    *)
WsInit ==
    \E kind \in {"binary", "ping", "pong", "close"}, size \in WsSizes, client \in BOOLEAN,
       more, command \in BOOLEAN, limit \in Limits :
        /\ kind # "binary" => command /\ ~ more
        /\ st = [msg |-> [kind |-> kind, size |-> size, more |-> more, command |-> command],
                 client |-> client, limit |-> limit, stage |-> "message_ready",
                 frame |-> <<>>, opcode |-> "", size |-> 0, flags |-> {}, out |-> <<>>, rc |-> 0]

-----------------------------------------------------------------------------
(* The encoder's message_ready: every frame carries a flags byte, control frames *)
(* too, and it counts for the size.                                              *)
Field(name, v) == [field |-> name, v |-> v]
size_fields(size) ==
    IF size <= Small THEN <<Field("size", size)>>
    ELSE IF size <= Big THEN <<Field("size", Small + 1), Field("short", size)>>
    ELSE <<Field("size", Small + 2), Field("long", size)>>

Flags(m) == (IF m.more THEN {"more"} ELSE {}) \cup (IF m.command THEN {"command"} ELSE {})

message_ready ==
    /\ st.stage = "message_ready"
    /\ LET size == st.msg.size + 1
       IN  st' = [st EXCEPT !.stage = "encoded",
                  !.frame = <<Field("opcode", st.msg.kind)>> \o size_fields(size)
                            \o (IF st.client THEN <<Field("mask", 0)>> ELSE <<>>)
                            \o <<Field("flags", Flags(st.msg))>>]

(* size_ready: the body is combined with the mask from its second byte on.       *)
MaskedFrom(first, size) == [i \in 1 .. size |-> ((first + i - 1) % 4) + 1]
encoder_size_ready ==
    /\ st.stage = "encoded"
    /\ st' = [st EXCEPT !.stage = "opcode_ready",
              !.out = IF st.client THEN MaskedFrom(1, st.msg.size) ELSE [i \in 1 .. st.msg.size |-> 0]]

-----------------------------------------------------------------------------
(* The decoder, which masks if and only if the peer is a client.                 *)
Rejects(s) == [s EXCEPT !.rc = -1, !.stage = "rejected"]
Rest(s) == [s EXCEPT !.frame = Tail(@)]

size_ready(s) ==
    IF s.limit >= 0 /\ s.size > s.limit THEN Rejects(s)
    ELSE [s EXCEPT !.stage = "body"]

(* After the size, the mask if there is one, then the flags of a binary frame;   *)
(* an empty binary frame has no room for them.                                   *)
SizeKnown(s) ==
    IF s.client /\ s.stage # "mask_ready" THEN [s EXCEPT !.stage = "mask_ready"]
    ELSE IF s.opcode = "binary"
      THEN IF s.size = 0 THEN Rejects(s) ELSE [s EXCEPT !.stage = "flags_ready"]
    ELSE size_ready(s)

opcode_ready ==
    /\ st.stage = "opcode_ready"
    /\ st' = [Rest(st) EXCEPT !.opcode = Head(st.frame).v, !.stage = "size_first_byte_ready",
              !.flags = IF Head(st.frame).v = "binary" THEN {} ELSE {"command", Head(st.frame).v}]

size_first_byte_ready ==
    /\ st.stage = "size_first_byte_ready"
    /\ LET size == Head(st.frame).v
           s == [Rest(st) EXCEPT !.size = size]
       IN  st' = IF size <= Small THEN SizeKnown(s)
                 ELSE [s EXCEPT !.stage = IF size = Small + 1 THEN "short_size_ready"
                                                              ELSE "long_size_ready"]

short_size_ready ==
    /\ st.stage = "short_size_ready"
    /\ st' = SizeKnown([Rest(st) EXCEPT !.size = Head(st.frame).v % (Big + 1)])

long_size_ready ==
    /\ st.stage = "long_size_ready"
    /\ st' = SizeKnown([Rest(st) EXCEPT !.size = Head(st.frame).v])

mask_ready ==
    /\ st.stage = "mask_ready"
    /\ st' = SizeKnown(Rest(st))

flags_ready ==
    /\ st.stage = "flags_ready"
    /\ st' = size_ready([Rest(st) EXCEPT !.size = @ - 1, !.flags = @ \cup Head(st.frame).v])

(* Unmasking starts at the second mask byte behind the flags byte of a binary    *)
(* frame and at the first one for control frames, whose flags byte is body.      *)
decoded ==
    /\ st.stage = "body"
    /\ LET taken == IF st.opcode = "binary" THEN 0 ELSE 1
           bytes == (IF taken = 1 THEN <<IF st.client THEN 1 ELSE 0>> ELSE <<>>) \o st.out
           mask == IF st.client THEN MaskedFrom(1 - taken, st.size) ELSE [i \in 1 .. st.size |-> 0]
       IN  st' = [st EXCEPT !.rc = 1, !.stage = "done",
                  !.out = [i \in 1 .. st.size |-> IF bytes[i] = mask[i] THEN 0 ELSE 9]]

Done == st.stage \in {"done", "rejected"} /\ UNCHANGED st

WsNext ==
    \/ message_ready \/ encoder_size_ready \/ opcode_ready \/ size_first_byte_ready
    \/ short_size_ready \/ long_size_ready \/ mask_ready \/ flags_ready \/ decoded \/ Done

WsSpec == WsInit /\ [][WsNext]_st

-----------------------------------------------------------------------------
TypeOK == st.rc \in {-1, 0, 1} /\ st.size \in Nat /\ st.stage \in STRING

(* A message crosses the wire whole: its size (one more for control frames, that *)
(* carry the flags byte in front), its flags and every byte unmasked, at each    *)
(* size boundary and for either side; it is refused exactly when it is longer    *)
(* than maxmsgsize.                                                              *)
RoundTrip ==
    LET size == st.msg.size + (IF st.msg.kind = "binary" THEN 0 ELSE 1)
    IN  /\ st.rc = 1 => /\ st.size = size /\ Len(st.out) = size
                        /\ \A i \in 1 .. size : st.out[i] = 0
                        /\ "more" \in st.flags <=> st.msg.more
                        /\ "command" \in st.flags <=> st.msg.command
                        /\ st.flags \ {"more", "command"} = {st.msg.kind} \ {"binary"}
                        /\ Len(st.frame) = IF st.msg.kind = "binary" THEN 0 ELSE 1
        /\ st.rc # 0 => (st.rc = -1 <=> st.limit >= 0 /\ size > st.limit)
=============================================================================
