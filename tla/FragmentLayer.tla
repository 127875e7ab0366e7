--------------------------- MODULE FragmentLayer ---------------------------
(***************************************************************************)
(* One direction of a connection between two WebSockets: start_send cuts a *)
(* message into fragments, poll_flush_fragments puts them on the wire with *)
(* control frames in between, and at the other end the payload limit of    *)
(* Streaming::on_frame, FragmentLayer::assemble_incoming and the UTF-8     *)
(* check of WebSocket::on_frame put it together again.  An application     *)
(* that gets an error may go on reading.                                   *)
(***************************************************************************)
EXTENDS Frames

CONSTANTS Messages,       \* messages the application may send
          RawFrames,      \* data frames of a peer that is not a WebSocket of ours
          FragmentSize,   \* Options::max_fragment_size, 0 for None
          MaxPayload,     \* Options::max_payload_read
          MaxReadBuffer,  \* Options::max_read_buffer
          HasTimeout,     \* Fragmentation::timeout is set
          CheckUtf8,      \* Options::check_utf8
          MaxOffered,     \* bound: messages sent
          MaxRaw,         \* bound: frames of such a peer
          MaxWire         \* bound: frames on the wire

Lead == 2
Trail == 3
\* UTF-8 with characters of one byte and of two, Lead and Trail.
Utf8(s) == \A i \in 1..Len(s) :
    /\ s[i] = Lead => i < Len(s) /\ s[i + 1] = Trail
    /\ s[i] = Trail => i > 1 /\ s[i - 1] = Lead

ASSUME FragmentAssumption ==
    /\ Messages \subseteq [op : {"Text", "Binary"}, data : Seq(Nat)]
    /\ RawFrames \subseteq {f \in Frame : ~IsControl(f)}
    /\ FragmentSize \in Nat /\ MaxPayload \in Nat /\ MaxReadBuffer \in Nat
    /\ HasTimeout \in BOOLEAN /\ CheckUtf8 \in BOOLEAN
    /\ MaxOffered \in Nat /\ MaxRaw \in Nat /\ MaxWire \in Nat

VARIABLES
    outgoing_fragments,  \* the sender's FragmentLayer
    wire,
    raw,                 \* history: frames of RawFrames sent
    incoming_fragment,   \* the receiver's FragmentationState
    incoming_buffer,     \* the receiver's FragmentLayer.incoming_buffer
    is_closed,           \* the receiver's ReadHalf.is_closed
    offered,             \* history: messages handed to start_send
    started,             \* history: messages whose first frame was received
    delivered,           \* history: messages poll_next_frame returned
    refused              \* history: messages it returned an error for

received == <<incoming_fragment, incoming_buffer, is_closed, started, delivered, refused>>
vars == <<outgoing_fragments, wire, raw, received, offered>>

\* The FragmentationState that is not there.
NoFragment == [opcode |-> "None", bytes_read |-> 0, late |-> FALSE]
Assembling == incoming_fragment # NoFragment

Init ==
    /\ outgoing_fragments = << >> /\ wire = << >> /\ raw = 0
    /\ incoming_fragment = NoFragment /\ incoming_buffer = << >>
    /\ is_closed = FALSE
    /\ offered = << >> /\ started = 0 /\ delivered = << >> /\ refused = {}

-----------------------------------------------------------------------------
(* The sender. *)

\* FragmentLayer::fragment_outgoing; without a fragment size the frame is whole.
fragment_outgoing(m) ==
    LET frame == [op |-> m.op, fin |-> TRUE, data |-> m.data]
    IN IF FragmentSize = 0 THEN <<frame>> ELSE into_fragments(frame, FragmentSize)

\* poll_ready has flushed every fragment, and start_send takes a message.
Send(m) ==
    /\ outgoing_fragments = << >> /\ Len(offered) < MaxOffered /\ raw = 0
    /\ outgoing_fragments' = fragment_outgoing(m)
    /\ offered' = Append(offered, m)
    /\ UNCHANGED <<wire, raw, received>>

\* (fault) The flush stops one fragment early.
FlushAllButLast ==
    /\ Len(outgoing_fragments) > 1 /\ Len(wire) < MaxWire
    /\ wire' = Append(wire, Head(outgoing_fragments))
    /\ outgoing_fragments' = Tail(outgoing_fragments)
    /\ UNCHANGED <<raw, received, offered>>

\* poll_flush_fragments.
FlushFragment ==
    /\ outgoing_fragments # << >> /\ Len(wire) < MaxWire
    /\ wire' = Append(wire, Head(outgoing_fragments))
    /\ outgoing_fragments' = Tail(outgoing_fragments)
    /\ UNCHANGED <<raw, received, offered>>

\* poll_flush_obligated may put a Pong between two fragments.
Pong == [op |-> "Pong", fin |-> TRUE, data |-> <<9>>]
SendPong ==
    /\ Len(wire) < MaxWire
    /\ wire' = Append(wire, Pong)
    /\ UNCHANGED <<outgoing_fragments, raw, received, offered>>

\* A peer of another kind, in the place of ours, may send any data frame.
SendRaw(f) ==
    /\ Len(wire) < MaxWire /\ raw < MaxRaw /\ offered = << >>
    /\ wire' = Append(wire, f)
    /\ raw' = raw + 1
    /\ UNCHANGED <<outgoing_fragments, received, offered>>

-----------------------------------------------------------------------------
(* The receiver: one iteration of WebSocket::poll_next_frame. *)

Incoming == Head(wire)
Starts(f) == f.op \in {"Text", "Binary"}

\* FragmentLayer::remaining_read_capacity.
remaining_read_capacity ==
    IF MaxReadBuffer >= incoming_fragment.bytes_read
    THEN MaxReadBuffer - incoming_fragment.bytes_read ELSE 0

\* (fault) Fragments are measured against the limit for whole frames.
MaxOutputSizeWhole(f) == MaxPayload

\* Streaming::on_frame's limit for a data frame.
MaxOutputSize(f) ==
    IF (~f.fin \/ f.op = "Cont") /\ remaining_read_capacity < MaxPayload
    THEN remaining_read_capacity ELSE MaxPayload
FrameTooLarge(f) == ~IsControl(f) /\ Len(f.data) >= MaxOutputSize(f)

\* The next frame, if Streaming lets it through.
Take ==
    /\ ~is_closed /\ wire # << >>
    /\ wire' = Tail(wire)
    /\ started' = IF Starts(Incoming) THEN started + 1 ELSE started
    /\ UNCHANGED <<outgoing_fragments, raw, offered>>
TakeFrame == Take /\ ~FrameTooLarge(Incoming) /\ UNCHANGED is_closed

\* poll_next_frame returns an error for the current message.
Refuse == refused' = refused \cup {started'} /\ UNCHANGED delivered

\* WebSocket::on_frame: the message is complete.
Return(opcode, data) ==
    IF opcode = "Text" /\ CheckUtf8 /\ ~Utf8(data)
    THEN Refuse
    ELSE /\ delivered' = Append(delivered, [at |-> started', msg |-> [op |-> opcode, data |-> data]])
         /\ UNCHANGED refused

\* Too large for the read limits: Streaming closes the reading half.
ReceiveTooLarge ==
    /\ Take /\ FrameTooLarge(Incoming)
    /\ is_closed' = TRUE
    /\ Refuse
    /\ UNCHANGED <<incoming_fragment, incoming_buffer>>

\* Control frames pass through, also in the middle of a message.
ReceiveControl ==
    /\ TakeFrame /\ IsControl(Incoming)
    /\ UNCHANGED <<incoming_fragment, incoming_buffer, delivered, refused>>

\* A message begins inside another, or continues none: InvalidFragment.
ReceiveStray ==
    /\ TakeFrame /\ ~IsControl(Incoming)
    /\ Starts(Incoming) <=> Assembling
    /\ Refuse
    /\ UNCHANGED <<incoming_fragment, incoming_buffer>>

ReceiveWhole ==
    /\ TakeFrame /\ Starts(Incoming) /\ ~Assembling /\ Incoming.fin
    /\ Return(Incoming.op, Incoming.data)
    /\ UNCHANGED <<incoming_fragment, incoming_buffer>>

ReceiveFirst ==
    /\ TakeFrame /\ Starts(Incoming) /\ ~Assembling /\ ~Incoming.fin
    /\ incoming_buffer' = Incoming.data
    /\ incoming_fragment' = [opcode |-> Incoming.op, bytes_read |-> Len(Incoming.data), late |-> FALSE]
    /\ UNCHANGED <<delivered, refused>>

\* (fault) A late continuation is ignored without an error.
ReceiveLateSilently ==
    /\ TakeFrame /\ Incoming.op = "Cont" /\ Assembling
    /\ incoming_fragment.late
    /\ incoming_fragment' = NoFragment
    /\ UNCHANGED <<incoming_buffer, delivered, refused>>

\* The continuation is past the size limit or late: the message is given up.
ReceiveLate ==
    /\ TakeFrame /\ Incoming.op = "Cont" /\ Assembling
    /\ incoming_fragment.late \/ incoming_fragment.bytes_read + Len(Incoming.data) >= MaxReadBuffer
    /\ incoming_fragment' = NoFragment
    /\ Refuse
    /\ UNCHANGED incoming_buffer

ReceiveContinuation ==
    LET bytes_read == incoming_fragment.bytes_read + Len(Incoming.data)
        payload == incoming_buffer \o Incoming.data
    IN /\ TakeFrame /\ Incoming.op = "Cont" /\ Assembling
       /\ ~incoming_fragment.late /\ bytes_read < MaxReadBuffer
       /\ IF Incoming.fin
          THEN /\ incoming_buffer' = << >>
               /\ incoming_fragment' = NoFragment
               /\ Return(incoming_fragment.opcode, payload)
          ELSE /\ incoming_buffer' = payload
               /\ incoming_fragment' = [incoming_fragment EXCEPT !.bytes_read = bytes_read]
               /\ UNCHANGED <<delivered, refused>>

Receive ==
    \/ ReceiveTooLarge \/ ReceiveControl \/ ReceiveStray \/ ReceiveWhole
    \/ ReceiveFirst \/ ReceiveLate \/ ReceiveContinuation

\* fragment.started.elapsed() exceeds the timeout from now on.
Elapse ==
    /\ HasTimeout /\ Assembling /\ ~incoming_fragment.late
    /\ incoming_fragment' = [incoming_fragment EXCEPT !.late = TRUE]
    /\ UNCHANGED <<outgoing_fragments, wire, raw, incoming_buffer, is_closed, offered,
                   started, delivered, refused>>

Next ==
    \/ \E m \in Messages : Send(m)
    \/ FlushFragment
    \/ SendPong
    \/ \E f \in RawFrames : SendRaw(f)
    \/ Receive
    \/ Elapse

Spec == Init /\ [][Next]_vars

\* Both applications keep polling: fragments are flushed, frames are read.  A
\* flush waits for room that Pongs may take, so it needs strong fairness.
FairSpec == Spec /\ SF_vars(FlushFragment) /\ WF_vars(Receive)

-----------------------------------------------------------------------------
(* Properties. *)

\* The two ends together keep MessageChannel's promise: a message is delivered
\* whole, unmixed, with its opcode and in order, also after errors.  A peer of
\* another kind offers no messages, and what it gets delivered does not count.
Channel == INSTANCE MessageChannel
           WITH Messages <- Messages, offered <- offered,
                delivered <- IF raw = 0 THEN delivered ELSE << >>
Messaging == Channel!Spec

\* The state matches the code's types; bytes_read counts the buffered bytes.
TypeOK ==
    /\ outgoing_fragments \in Seq(Frame) /\ wire \in Seq(Frame) /\ raw \in Nat
    /\ incoming_fragment \in [opcode : {"None", "Text", "Binary"}, bytes_read : Nat, late : BOOLEAN]
    /\ incoming_buffer \in Seq(Nat)
    /\ Assembling => /\ incoming_fragment.opcode # "None"
                     /\ incoming_fragment.bytes_read = Len(incoming_buffer)
    /\ is_closed \in BOOLEAN
    /\ offered \in Seq(Messages)
    /\ started \in Nat /\ refused \subseteq 0..started

\* max_read_buffer: whatever the peer sends, the fragments held for a message
\* stay below the limit.
BufferBounded == MaxReadBuffer > 0 => Len(incoming_buffer) < MaxReadBuffer

\* No message of ours vanishes: one whose first frame was received, and which is not
\* being received or returned, was answered with an error.
NoSilentLoss ==
    raw = 0 => \A i \in 1..started :
        \/ i \in refused
        \/ \E j \in 1..Len(delivered) : delivered[j].at = i
        \/ i = started /\ Assembling

\* A message may be answered with an error: cut and late, not UTF-8, or too long.
MayFail(m) ==
    \/ HasTimeout /\ FragmentSize # 0 /\ Len(m.data) > FragmentSize
    \/ CheckUtf8 /\ m.op = "Text" /\ ~Utf8(m.data)
    \/ Len(m.data) >= MaxReadBuffer

\* poll_next_frame: every message taken by start_send comes out in the end, or is
\* answered with an error it may have, unless reading was closed before.
AllAnswered ==
    \A i \in 1..MaxOffered :
        Len(offered) >= i ~>
            \/ is_closed
            \/ \E j \in 1..Len(delivered) : delivered[j].at = i
            \/ i \in refused /\ i <= Len(offered) /\ MayFail(offered[i])
=============================================================================
