------------------------------- MODULE Frames -------------------------------
(***************************************************************************)
(* Frames as the layers above the codec see them: an opcode, FIN and a     *)
(* payload of symbolic bytes.  RSV1 and the mask are the codec's business. *)
(***************************************************************************)
EXTENDS Integers, Sequences

ControlOps == {"Ping", "Pong", "Close"}
Ops == {"Text", "Binary", "Cont"} \cup ControlOps
\* A frame that the decoder or Streaming::on_frame refuses: reserved bits,
\* opcode, length, mask, compression that was not negotiated.
Malformed == [op |-> "Malformed", fin |-> TRUE, data |-> << >>]
Frame == [op : Ops, fin : BOOLEAN, data : Seq(Nat)]

IsControl(f) == f.op \in ControlOps

\* CloseCode::is_allowed of a code as From<u16> reads it.
is_allowed(code) == code \in ((1000..1013) \ {1004, 1005, 1006}) \cup (3000..4999)

\* (fault) The cut is taken one byte late.
into_fragments_late(f, max) ==
    LET n == Len(f.data)
        k == (n + max - 1) \div max
    IN IF n <= max THEN <<f>>
       ELSE [i \in 1..k |->
               [op |-> IF i = 1 THEN f.op ELSE "Cont",
                fin |-> i = k,
                data |-> SubSeq(f.data, (i - 1) * max + 1,
                                IF i = k THEN n ELSE i * max + 1)]]

\* Frame::into_fragments.
into_fragments(f, max) ==
    LET n == Len(f.data)
        k == (n + max - 1) \div max
    IN IF n <= max THEN <<f>>
       ELSE [i \in 1..k |->
               [op |-> IF i = 1 THEN f.op ELSE "Cont",
                fin |-> i = k,
                data |-> SubSeq(f.data, (i - 1) * max + 1,
                                IF i = k THEN n ELSE i * max)]]
=============================================================================
