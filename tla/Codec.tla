------------------------------- MODULE Codec --------------------------------
(***************************************************************************)
(* The frame codec of src/codec.rs on both ends of a connection: a client  *)
(* that encodes a script of frames, a server that decodes them from        *)
(* whatever pieces the transport delivers and sends every frame it gets    *)
(* straight back, and the client's own decoder.  Frames of other           *)
(* implementations, which may break the rules, are given as bytes.         *)
(*                                                                         *)
(* A decoder is the buffer `src` of tokio's Framed, the ReadState `state`, *)
(* `idle` (the last decode asked for more bytes and none came since; the   *)
(* negation of Framed's is_readable) and `end` (the error that ended it).  *)
(***************************************************************************)
EXTENDS Mask

CONSTANTS Scripts,   \* sequences of frames for the client to send
          Foreign,   \* [to, bytes, ahead]: a stream of another implementation
          Limits,    \* values of max_payload_read
          Keys,      \* what rand::random may give as a masking key
          Addresses, \* payload addresses modulo 8
          MaxCut     \* the transport cuts a stream anywhere up to this byte

VARIABLES build, limit, script, up, down, sent, received, echoed, returned,
          written    \* all bytes ever put on the wire, per direction

vars == <<build, limit, script, up, down, sent, received, echoed, returned, written>>

NoMask == << >>
OpCode == [Continuation |-> 0, Text |-> 1, Binary |-> 2, Close |-> 8, Ping |-> 9, Pong |-> 10]
is_control(op) == op \in {"Close", "Ping", "Pong"}
\* The place in the enum, which `opcode as u8' gives; not the number on the wire.
Discriminant == [Continuation |-> 0, Text |-> 1, Binary |-> 2, Close |-> 3, Ping |-> 4, Pong |-> 5]
try_from(value) == {op \in DOMAIN OpCode : OpCode[op] = value}

Frame(fin, op, rsv1, mask, payload) ==
    [fin |-> fin, op |-> op, rsv1 |-> rsv1, mask |-> mask, payload |-> payload]
NoFrame == Frame(TRUE, "Text", FALSE, NoMask, << >>)

Bit(b) == IF b THEN 1 ELSE 0
\* put_u16, put_u64, and the get_ of the same widths: big-endian.
BigEndian(n, value) == [i \in 1..n |-> (value \div 256^(n - i)) % 256]
FromBigEndian(bytes) == FoldLeft(LAMBDA acc, b : acc * 256 + b, 0, bytes)

\* A payload longer than 2^31 is out of TLC's integers: the upper half of
\* the 64-bit length is zero.
write_head(f) ==
    LET len == Len(f.payload)
        masked == IF f.mask = NoMask THEN 0 ELSE 128
    IN <<128 * Bit(f.fin) + 64 * Bit(f.rsv1) + OpCode[f.op]>>
       \o (IF len < 126 THEN <<len + masked>>
           ELSE IF len < 65536 THEN <<126 + masked>> \o BigEndian(2, len)
           ELSE <<127 + masked>> \o <<0, 0, 0, 0>> \o BigEndian(4, len))
       \o f.mask

\* Encoder::encode of a frame with its final mask.
encode(f) ==
    write_head(f) \o (IF f.mask = NoMask THEN f.payload
                      ELSE copy_mask(f.payload, f.mask, build))

\* set_random_mask_if_not_set: the masks an encoder of this role may use.
MasksFor(role, f) == IF role = "Client" /\ f.mask = NoMask THEN Keys ELSE {f.mask}

\* ReadState::new packs the header into one byte of flags.
NoState == [flags |-> 0, mask |-> NoMask, payload_len |-> -1]
\* (fault) The flag that says a mask follows is not kept.
ReadStateUnmasked(fin, rsv1, op, mask, payload_len) ==
    [flags |-> 128 * Bit(fin) + 64 * Bit(rsv1) + Discriminant[op],
     mask |-> IF mask = NoMask THEN <<0, 0, 0, 0>> ELSE mask,
     payload_len |-> payload_len]
ReadState(fin, rsv1, op, mask, payload_len) ==
    [flags |-> 128 * Bit(fin) + 64 * Bit(rsv1)
               + Discriminant[op] + (IF mask = NoMask THEN 0 ELSE 16),
     mask |-> IF mask = NoMask THEN <<0, 0, 0, 0>> ELSE mask,
     payload_len |-> payload_len]
fin_of(s) == s.flags \div 128 = 1
rsv1_of(s) == (s.flags \div 64) % 2 = 1
opcode_of(s) == CHOOSE op \in DOMAIN Discriminant : Discriminant[op] = s.flags % 16
mask_of(s) == IF (s.flags \div 16) % 2 = 1 THEN s.mask ELSE NoMask

Result(src, state, out, frame) == [src |-> src, state |-> state, out |-> out, frame |-> frame]

\* The end of decode, when the whole payload is in src.
Finish(src, role, fin, rsv1, op, mask, len, addr) ==
    IF role = "Server" /\ mask = NoMask THEN Result(src, NoState, "InvalidFragment", NoFrame)
    ELSE LET payload == SubSeq(src, 1, len)
         IN Result(SubSeq(src, len + 1, Len(src)), NoState, "frame",
                   Frame(fin, op, rsv1, mask,
                         IF role = "Server" THEN apply_mask(payload, mask, addr, build)
                         ELSE payload))

TooLong(len) == len >= limit
\* decode with a complete header of header_size bytes in front of src.
Header(src, role, op, addr, header_size) ==
    LET fin == src[1] >= 128
        rsv1 == (src[1] \div 64) % 2 = 1
        code == src[2] % 128
        mask == IF src[2] >= 128 THEN SubSeq(src, header_size - 3, header_size) ELSE NoMask
        len == CASE code = 126 -> FromBigEndian(SubSeq(src, 3, 4))
                 [] code = 127 -> FromBigEndian(SubSeq(src, 3, 10))
                 [] OTHER -> code
        rest == SubSeq(src, header_size + 1, Len(src))
        fail(error) == Result(rest, NoState, error, NoFrame)
    IN IF is_control(op) /\ ~fin THEN fail("ControlFrameFragmented")
       ELSE IF op = "Ping" /\ len > 125 THEN fail("PingFrameTooLarge")
       ELSE IF TooLong(len) THEN fail("FrameTooLarge")
       ELSE IF Len(rest) < len
            THEN Result(rest, ReadState(fin, rsv1, op, mask, len), "none", NoFrame)
       ELSE Finish(rest, role, fin, rsv1, op, mask, len, addr)

HeaderSize(src) ==
    2 + (CASE src[2] % 128 = 126 -> 2 [] src[2] % 128 = 127 -> 8 [] OTHER -> 0)
      + (IF src[2] >= 128 THEN 4 ELSE 0)

\* Decoder::decode.
decode(src, state, role, addr) ==
    IF state # NoState
    THEN IF Len(src) < state.payload_len THEN Result(src, state, "none", NoFrame)
         ELSE Finish(src, role, fin_of(state), rsv1_of(state), opcode_of(state),
                     mask_of(state), state.payload_len, addr)
    ELSE IF Len(src) < 2 THEN Result(src, NoState, "none", NoFrame)
    ELSE IF (src[1] \div 16) % 4 # 0
         THEN Result(src, NoState, "ReservedBitsNotZero", NoFrame)
    ELSE IF try_from(src[1] % 16) = {} THEN Result(src, NoState, "InvalidOpCode", NoFrame)
    ELSE IF Len(src) < HeaderSize(src) THEN Result(src, NoState, "none", NoFrame)
    ELSE Header(src, role, CHOOSE op \in try_from(src[1] % 16) : TRUE, addr, HeaderSize(src))

\* ReadHalf::poll_frame removes the mask of a frame the decoder returns.
poll_frame(f) == [f EXCEPT !.mask = NoMask]

-----------------------------------------------------------------------------
\* (fault) Bytes the handshake read are buffered but not called readable.
DecodingLater(wire, src) ==
    [wire |-> wire, src |-> src, state |-> NoState, idle |-> TRUE, end |-> "open"]

\* Streaming::new: Framed::from_parts calls the bytes read behind the
\* handshake response readable.
Decoding(wire, src) ==
    [wire |-> wire, src |-> src, state |-> NoState, idle |-> src = << >>, end |-> "open"]
Fresh == Decoding(<< >>, << >>)

InitForeign(s) ==
    LET d == Decoding(SubSeq(s.bytes, s.ahead + 1, Len(s.bytes)), SubSeq(s.bytes, 1, s.ahead))
    IN /\ script = << >>
       /\ up = IF s.to = "Server" THEN d ELSE Fresh
       /\ down = IF s.to = "Client" THEN d ELSE Fresh
       /\ written = [up |-> IF s.to = "Server" THEN s.bytes ELSE << >>,
                     down |-> IF s.to = "Client" THEN s.bytes ELSE << >>]

InitScript(fs) ==
    /\ script = fs
    /\ up = Fresh /\ down = Fresh
    /\ written = [up |-> << >>, down |-> << >>]

Init ==
    /\ build \in Builds /\ limit \in Limits
    /\ \/ \E s \in Foreign : InitForeign(s)
       \/ \E fs \in Scripts : InitScript(fs)
    /\ sent = << >> /\ received = << >> /\ echoed = << >> /\ returned = << >>

\* The client encodes its next frame.
Send ==
    /\ script # << >>
    /\ \E key \in MasksFor("Client", Head(script)) :
         LET f == [Head(script) EXCEPT !.mask = key]
             bytes == encode(f)
         IN /\ up' = [up EXCEPT !.wire = @ \o bytes]
            /\ written' = [written EXCEPT !.up = @ \o bytes]
            /\ sent' = Append(sent, f)
    /\ script' = Tail(script)
    /\ UNCHANGED <<build, limit, down, received, echoed, returned>>

\* The server sends back the next frame it received.
Echo ==
    /\ Len(echoed) < Len(received)
    /\ LET f == received[Len(echoed) + 1]
       IN \E mask \in MasksFor("Server", f) :
            LET bytes == encode([f EXCEPT !.mask = mask])
            IN /\ down' = [down EXCEPT !.wire = @ \o bytes]
               /\ written' = [written EXCEPT !.down = @ \o bytes]
               /\ echoed' = Append(echoed, [f EXCEPT !.mask = mask])
    /\ UNCHANGED <<build, limit, script, up, sent, received, returned>>

\* The transport delivers the next n bytes of a stream; far into a stream it
\* delivers all that is there, or all but the last byte.
Cut(d, all) ==
    LET n == Len(d.wire)
    IN {k \in 1..n : Len(all) - n + k <= MaxCut} \cup ({n - 1, n} \ {0})
Arrived(d, k) ==
    [d EXCEPT !.wire = SubSeq(@, k + 1, Len(@)), !.src = @ \o SubSeq(d.wire, 1, k),
              !.idle = FALSE]
ArriveUp ==
    /\ up.end = "open" /\ up.wire # << >>
    /\ \E k \in Cut(up, written.up) : up' = Arrived(up, k)
    /\ UNCHANGED <<build, limit, script, down, sent, received, echoed, returned, written>>
ArriveDown ==
    /\ down.end = "open" /\ down.wire # << >>
    /\ \E k \in Cut(down, written.down) : down' = Arrived(down, k)
    /\ UNCHANGED <<build, limit, script, up, sent, received, echoed, returned, written>>

\* One call of decode by Framed, with the outcome it gets.
Decoded(d, r) ==
    [d EXCEPT !.src = r.src, !.state = r.state, !.idle = r.out = "none",
              !.end = IF r.out \in {"none", "frame"} THEN "open" ELSE r.out]
Handed(frames, r) == IF r.out = "frame" THEN Append(frames, poll_frame(r.frame)) ELSE frames

ServerDecode ==
    /\ up.end = "open" /\ ~up.idle
    /\ \E addr \in Addresses :
         LET r == decode(up.src, up.state, "Server", addr)
         IN up' = Decoded(up, r) /\ received' = Handed(received, r)
    /\ UNCHANGED <<build, limit, script, down, sent, echoed, returned, written>>
ClientDecode ==
    /\ down.end = "open" /\ ~down.idle
    /\ LET r == decode(down.src, down.state, "Client", 0)
       IN down' = Decoded(down, r) /\ returned' = Handed(returned, r)
    /\ UNCHANGED <<build, limit, script, up, sent, received, echoed, written>>

Next == Send \/ Echo \/ ArriveUp \/ ArriveDown \/ ServerDecode \/ ClientDecode
Spec == Init /\ [][Next]_vars

-----------------------------------------------------------------------------
Content(frames) ==
    [i \in DOMAIN frames |->
       <<frames[i].fin, frames[i].op, frames[i].rsv1, frames[i].payload>>]

RECURSIVE Drain(_, _, _, _)
\* The frames, and the end, of decoding a buffer that nothing is added to.
Drain(src, state, role, frames) ==
    LET r == decode(src, state, role, 0)
    IN IF r.out = "frame" THEN Drain(r.src, r.state, role, Append(frames, r.frame))
       ELSE [frames |-> Content(frames), end |-> IF r.out = "none" THEN "open" ELSE r.out]

Outcome(d, frames, role) ==
    IF d.end # "open" THEN [frames |-> Content(frames), end |-> d.end]
    ELSE Drain(d.src \o d.wire, d.state, role, frames)

\* The server is handed the frames the client sent, in order, with their
\* FIN, opcode, RSV1 and unmasked payload, however the transport cut the
\* stream and whichever masking routines the two ends used; sent back, they
\* arrive at the client as it first sent them, so the mask a frame came with
\* is gone before it is encoded again.
FramesIntact ==
    sent # << >> => \A ends \in {received, returned} : IsPrefix(Content(ends), Content(sent))

\* The payload a client puts on the wire is XORed with the key byte by byte,
\* from the payload's first byte, as RFC 6455 says: what any other server
\* undoes.
MaskedByteWise ==
    sent # << >> =>
        LET f == sent[Len(sent)]
            n == Len(f.payload)
        IN \A i \in 1..n :
             written.up[Len(written.up) - n + i] = XorByte(f.payload[i], f.mask[((i - 1) % 4) + 1])

\* Where the transport cuts a stream makes no difference: what was handed out
\* so far, and what decoding all the rest at once would add, are the frames
\* and the error of decoding the whole stream at once.
ChunkingIrrelevant ==
    /\ Outcome(up, received, "Server") = Drain(written.up, NoState, "Server", << >>)
    /\ Outcome(down, returned, "Client") = Drain(written.down, NoState, "Client", << >>)

\* A decoder that waits for bytes has handed out every frame whose last byte
\* arrived, the bytes read behind the handshake included.
NothingWithheld ==
    /\ up.idle => Content(received)
                   = Drain(SubSeq(written.up, 1, Len(written.up) - Len(up.wire)),
                           NoState, "Server", << >>).frames
    /\ down.idle => Content(returned)
                     = Drain(SubSeq(written.down, 1, Len(written.down) - Len(down.wire)),
                             NoState, "Client", << >>).frames
=============================================================================
