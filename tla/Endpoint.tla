------------------------------ MODULE Endpoint ------------------------------
(***************************************************************************)
(* One side of an established connection: the WebSocket sink and stream,   *)
(* the Streaming layer below it, ReadHalf, WriteHalf, and the framed       *)
(* transport they share.                                                   *)
(*                                                                         *)
(* The reader task polls poll_next_frame and the writer task polls the     *)
(* sink (poll_ready + start_send, poll_flush, poll_close).  A poll runs to *)
(* its return before the other task may poll: `poll' names the call that   *)
(* is running, and the loops inside a call are one step per iteration,     *)
(* during which only the transport and the peer move.                      *)
(*                                                                         *)
(* A frame's payload is a sequence of symbolic bytes.  The framed write    *)
(* buffer and the transport are counted in frames: a frame leaves the      *)
(* buffer when its last byte is accepted.  permessage-deflate is off here. *)
(***************************************************************************)
EXTENDS Frames

CONSTANTS UserFrames,    \* frames the application may hand to the sink
          PeerFrames,    \* frames the peer may put on the wire
          FragmentSize,  \* Options::max_fragment_size, 0 for None
          Boundary,      \* backpressure boundary of the write buffer, in frames
          Capacity,      \* frames the transport holds for the peer
          MaxAccepted,   \* bound: frames the application sends
          MaxInbound     \* bound: frames the peer sends

NormalCode == 1000
ProtocolCode == 1002
ErrorCode == 1011
CloseWith(code) == [op |-> "Close", fin |-> TRUE, data |-> <<code>>]
PongOf(f) == [op |-> "Pong", fin |-> TRUE, data |-> f.data]
\* on_close accepts an empty payload or an allowed code.
CloseAllowed(f) == f.data = << >> \/ is_allowed(f.data[1])

ASSUME EndpointAssumption ==
    /\ UserFrames \subseteq Frame
    /\ PeerFrames \subseteq Frame \cup {Malformed}
    /\ FragmentSize \in Nat
    /\ FragmentSize > 0 => \A f \in UserFrames : f.fin
    /\ Boundary \in Nat \ {0}
    /\ Capacity \in Nat \ {0}
    /\ MaxAccepted \in Nat
    /\ MaxInbound \in Nat

VARIABLES
    inbound,            \* frames the transport holds for this side
    in_eof,             \* the peer has shut its direction down
    outbound,           \* frames the transport holds for the peer
    shut,               \* this side's direction is shut down
    broken,             \* the transport fails from now on
    wbuf,               \* Framed's write buffer
    outgoing_fragments, \* FragmentLayer.outgoing_fragments
    obligated_sends,    \* Streaming.obligated_sends
    flush_sends,        \* Streaming.flush_sends
    close_state,        \* WriteHalf.close_state
    is_closed,          \* ReadHalf.is_closed
    incoming_fragment,  \* FragmentLayer.incoming_fragment.is_some()
    poll,               \* the poll call in progress
    read_result,        \* what the last completed read poll returned
    close_owed,         \* history: emit_close has been called
    received,           \* history: frames read from the transport
    accepted,           \* history: frames start_send took from the application
    sent                \* history: frames handed to the transport

transport == <<inbound, in_eof, outbound, shut, broken>>
writer == <<wbuf, outgoing_fragments, obligated_sends, flush_sends, close_state>>
reader == <<is_closed, incoming_fragment, read_result, close_owed, received>>
vars == <<inbound, in_eof, outbound, shut, broken, wbuf, outgoing_fragments,
          obligated_sends, flush_sends, close_state, is_closed,
          incoming_fragment, poll, read_result, close_owed, received,
          accepted, sent>>

Init ==
    /\ inbound = << >> /\ in_eof = FALSE
    /\ outbound = << >> /\ shut = FALSE /\ broken = FALSE
    /\ wbuf = << >> /\ outgoing_fragments = << >>
    /\ obligated_sends = << >> /\ flush_sends = FALSE
    /\ close_state = "None"
    /\ is_closed = FALSE /\ incoming_fragment = FALSE
    /\ poll = "idle" /\ read_result = "none" /\ close_owed = FALSE
    /\ received = << >> /\ accepted = << >> /\ sent = << >>

-----------------------------------------------------------------------------
(* The framed transport. *)

\* How many buffered frames a flush can hand over.
Written == IF Len(wbuf) <= Capacity - Len(outbound)
           THEN Len(wbuf) ELSE Capacity - Len(outbound)

\* Framed::poll_flush: write what fits; ready once the buffer is empty.
FlushReady == IF broken THEN wbuf = << >> ELSE Written = Len(wbuf)
FlushPending == ~broken /\ Written < Len(wbuf)
FlushErr == broken /\ wbuf # << >>
Drain ==
    /\ outbound' = outbound \o SubSeq(wbuf, 1, Written)
    /\ sent' = sent \o SubSeq(wbuf, 1, Written)
    /\ wbuf' = SubSeq(wbuf, Written + 1, Len(wbuf))

\* Framed::poll_ready: polls the transport only at the boundary.
FramedReady == Len(wbuf) < Boundary \/ FlushReady
\* ... and what it leaves in the buffer and on the wire when it is ready.
ReadyDrain(rest) ==
    IF Len(wbuf) < Boundary
    THEN wbuf' = wbuf \o rest /\ UNCHANGED <<outbound, sent>>
    ELSE /\ wbuf' = rest
         /\ outbound' = outbound \o wbuf
         /\ sent' = sent \o wbuf

\* (fault) poll_ready does not look at close_state.
WriteReadyAfterDone == FramedReady

\* WriteHalf::poll_ready.
WriteReady == close_state # "Done" /\ FramedReady
WritePending == close_state # "Done" /\ Len(wbuf) >= Boundary /\ FlushPending
WriteErr == close_state = "Done" \/ (Len(wbuf) >= Boundary /\ FlushErr)

\* WriteHalf::start_send, after a poll_ready that returned ready.
StartSend(f) ==
    /\ ReadyDrain(<<f>>)
    /\ close_state' = IF f.op = "Close" THEN "Flushing" ELSE close_state

-----------------------------------------------------------------------------
(* WebSocket::poll_next_frame and the layers below it. *)

\* A task polls: the reader next_frame, the writer feed, flush or close.
BeginPoll(call) ==
    /\ poll = "idle"
    /\ poll' = call
    /\ UNCHANGED <<transport, writer, reader, accepted, sent>>

BeginRead == BeginPoll("read")
BeginSend == Len(accepted) < MaxAccepted /\ BeginPoll("send")
BeginFlush == BeginPoll("flush")
BeginClose == BeginPoll("close")

\* The read poll returns to its task.
ReadReturns(result) == poll' = "idle" /\ read_result' = result

\* Streaming::emit_close.
emit_close(frame) ==
    /\ obligated_sends' = Append(obligated_sends, frame)
    /\ is_closed' = TRUE
    /\ close_owed' = TRUE

\* ReadHalf::poll_frame takes the next decoded frame off the transport.
Incoming == Head(inbound)
ReadFrame(op) ==
    /\ poll = "read" /\ ~is_closed /\ inbound # << >>
    /\ Incoming.op = op
    /\ inbound' = Tail(inbound)
    /\ received' = Append(received, Incoming)
    /\ UNCHANGED <<in_eof, outbound, shut, broken, wbuf, outgoing_fragments,
                   flush_sends, accepted, sent, close_state>>

\* (fault) The Pong is queued in front of the earlier ones.
ReadPingInFront ==
    /\ ReadFrame("Ping")
    /\ obligated_sends' = <<PongOf(Incoming)>> \o obligated_sends
    /\ ReadReturns("frame")
    /\ UNCHANGED <<is_closed, incoming_fragment, close_owed>>

\* on_ping: the Pong is queued, the Ping goes to the application.
ReadPing ==
    /\ ReadFrame("Ping")
    /\ obligated_sends' = Append(obligated_sends, PongOf(Incoming))
    /\ ReadReturns("frame")
    /\ UNCHANGED <<is_closed, incoming_fragment, close_owed>>

ReadPong ==
    /\ ReadFrame("Pong")
    /\ ReadReturns("frame")
    /\ UNCHANGED <<obligated_sends, is_closed, incoming_fragment, close_owed>>

\* on_close echoes an acceptable Close and answers any other with an error code.
ReadClose ==
    /\ ReadFrame("Close")
    /\ IF CloseAllowed(Incoming)
       THEN emit_close(Incoming) /\ ReadReturns("frame")
       ELSE emit_close(CloseWith(ProtocolCode)) /\ ReadReturns("error")
    /\ UNCHANGED incoming_fragment

\* A refused frame is answered with a Close and ends the reading.
ReadMalformed ==
    /\ ReadFrame("Malformed")
    /\ emit_close(CloseWith(ProtocolCode))
    /\ ReadReturns("error")
    /\ UNCHANGED incoming_fragment

\* assemble_incoming: a new message must not start inside another.  A first
\* fragment keeps the poll running; a whole message is returned.
ReadText ==
    /\ ReadFrame("Text")
    /\ \/ incoming_fragment /\ ReadReturns("error") /\ UNCHANGED incoming_fragment
       \/ /\ ~incoming_fragment
          /\ incoming_fragment' = ~Incoming.fin
          /\ IF Incoming.fin THEN ReadReturns("frame") ELSE UNCHANGED <<poll, read_result>>
    /\ UNCHANGED <<obligated_sends, is_closed, close_owed>>

\* assemble_incoming: a continuation needs a message to continue.
ReadContinuation ==
    /\ ReadFrame("Cont")
    /\ \/ ~incoming_fragment /\ ReadReturns("error") /\ UNCHANGED incoming_fragment
       \/ /\ incoming_fragment
          /\ incoming_fragment' = ~Incoming.fin
          /\ IF Incoming.fin THEN ReadReturns("frame") ELSE UNCHANGED <<poll, read_result>>
    /\ UNCHANGED <<obligated_sends, is_closed, close_owed>>

\* The transport reports an I/O error to the reader.
ReadIoError ==
    /\ poll = "read" /\ ~is_closed /\ broken
    /\ emit_close(CloseWith(ErrorCode))
    /\ ReadReturns("error")
    /\ UNCHANGED <<transport, wbuf, outgoing_fragments, flush_sends, close_state,
                   incoming_fragment, received, accepted, sent>>

\* (fault) A pending read returns without looking at its obligations.
ReadNothingForgets ==
    /\ poll = "read"
    /\ is_closed \/ inbound = << >>
    /\ is_closed' = (is_closed \/ in_eof)
    /\ poll' = IF is_closed' THEN "read_closed" ELSE "idle"
    /\ UNCHANGED <<transport, writer, incoming_fragment, read_result, close_owed,
                   received, accepted, sent>>

\* Nothing to decode: closed (now or before) or pending, after the obligations.
ReadNothing ==
    /\ poll = "read"
    /\ is_closed \/ inbound = << >>
    /\ is_closed' = (is_closed \/ in_eof)
    /\ poll' = IF is_closed' THEN "read_closed" ELSE "read_pending"
    /\ UNCHANGED <<transport, writer, incoming_fragment, read_result, close_owed,
                   received, accepted, sent>>

\* (fault) The end is reported once the queue is empty, flushed or not.
ReadReturnsUnflushed ==
    /\ poll \in {"read_closed", "read_pending"}
    /\ obligated_sends = << >>
    /\ ReadReturns(IF poll = "read_closed" THEN "closed" ELSE "pending")
    /\ UNCHANGED <<transport, writer, is_closed, incoming_fragment, close_owed,
                   received, accepted, sent>>

\* The obligations are met: the read poll reports what it found.
ReadNothingReturns ==
    /\ poll \in {"read_closed", "read_pending"}
    /\ obligated_sends = << >> /\ ~flush_sends
    /\ ReadReturns(IF poll = "read_closed" THEN "closed" ELSE "pending")
    /\ UNCHANGED <<transport, writer, is_closed, incoming_fragment, close_owed,
                   received, accepted, sent>>

-----------------------------------------------------------------------------
(* Streaming::poll_flush_obligated, run by the read poll and by poll_ready. *)

\* poll_ready is called to accept a frame, and once per queued fragment.
PollingReady == poll = "send" \/ (poll = "flush" /\ outgoing_fragments # << >>)
Obliged == obligated_sends # << >> \/ flush_sends
FlushingObligated ==
    /\ poll \in {"read_closed", "read_pending"} \/ PollingReady
    /\ Obliged

\* A poll that stops early: pending, or the error the call reports.
Returns(result) ==
    /\ poll' = "idle"
    /\ read_result' = IF poll \in {"read_closed", "read_pending"}
                      THEN result ELSE read_result

ObligatedSend ==
    /\ FlushingObligated /\ obligated_sends # << >>
    /\ WriteReady
    /\ StartSend(Head(obligated_sends))
    /\ obligated_sends' = Tail(obligated_sends)
    /\ flush_sends' = TRUE
    /\ UNCHANGED <<inbound, in_eof, shut, broken, outgoing_fragments, reader, poll, accepted>>

ObligatedFlush ==
    /\ FlushingObligated /\ obligated_sends = << >>
    /\ FlushReady
    /\ Drain
    /\ flush_sends' = FALSE
    /\ UNCHANGED <<inbound, in_eof, shut, broken, outgoing_fragments, obligated_sends,
                   close_state, reader, poll, accepted>>

\* (fault) A Close is popped before poll_ready says there is room for it.
ObligatedPendingPops ==
    /\ FlushingObligated
    /\ IF obligated_sends # << >> THEN WritePending ELSE FlushPending
    /\ Drain
    /\ Returns("pending")
    /\ obligated_sends' = SelectSeq(obligated_sends, LAMBDA f : f.op # "Close")
    /\ UNCHANGED <<inbound, in_eof, shut, broken, outgoing_fragments,
                   flush_sends, close_state, is_closed, incoming_fragment,
                   close_owed, received, accepted>>

ObligatedPending ==
    /\ FlushingObligated
    /\ IF obligated_sends # << >> THEN WritePending ELSE FlushPending
    /\ Drain
    /\ Returns("pending")
    /\ UNCHANGED <<inbound, in_eof, shut, broken, outgoing_fragments, obligated_sends,
                   flush_sends, close_state, is_closed, incoming_fragment,
                   close_owed, received, accepted>>

\* A finished close is reported to the reader as ConnectionClosed, too.
ObligatedErr ==
    /\ FlushingObligated
    /\ IF obligated_sends # << >> THEN WriteErr ELSE FlushErr
    /\ Returns(IF obligated_sends # << >> /\ close_state = "Done" THEN "closed" ELSE "error")
    /\ UNCHANGED <<transport, writer, is_closed, incoming_fragment, close_owed,
                   received, accepted, sent>>

-----------------------------------------------------------------------------
(* The sink: poll_ready + start_send, poll_flush, poll_close. *)

\* poll_flush_fragments moves a queued fragment into the write buffer.
SendFragment ==
    /\ PollingReady /\ ~Obliged /\ outgoing_fragments # << >>
    /\ WriteReady
    /\ StartSend(Head(outgoing_fragments))
    /\ outgoing_fragments' = Tail(outgoing_fragments)
    /\ UNCHANGED <<inbound, in_eof, shut, broken, obligated_sends, flush_sends, reader,
                   poll, accepted>>

\* poll_ready is ready and start_send takes the application's frame.
Accept(f) ==
    /\ poll = "send" /\ ~Obliged /\ outgoing_fragments = << >>
    /\ WriteReady
    /\ IF FragmentSize = 0
       THEN StartSend(f) /\ UNCHANGED outgoing_fragments
       ELSE /\ ReadyDrain(<< >>)
            /\ outgoing_fragments' = into_fragments(f, FragmentSize)
            /\ UNCHANGED close_state
    /\ accepted' = Append(accepted, f)
    /\ poll' = "idle"
    /\ UNCHANGED <<inbound, in_eof, shut, broken, obligated_sends, flush_sends, reader>>

\* (fault) The fragment is popped before the write half is ready for it.
NotReadyPops ==
    /\ PollingReady /\ ~Obliged
    /\ \/ WritePending /\ Drain
       \/ WriteErr /\ UNCHANGED <<outbound, sent, wbuf>>
    /\ outgoing_fragments' = IF outgoing_fragments = << >> THEN << >> ELSE Tail(outgoing_fragments)
    /\ poll' = "idle"
    /\ UNCHANGED <<inbound, in_eof, shut, broken, obligated_sends,
                   flush_sends, close_state, reader, accepted>>

\* poll_ready cannot accept a frame: pending, or closed, or an I/O error.
NotReady ==
    /\ PollingReady /\ ~Obliged
    /\ \/ WritePending /\ Drain
       \/ WriteErr /\ UNCHANGED <<outbound, sent, wbuf>>
    /\ poll' = "idle"
    /\ UNCHANGED <<inbound, in_eof, shut, broken, outgoing_fragments, obligated_sends,
                   flush_sends, close_state, reader, accepted>>

\* poll_flush, once no fragment is queued.  Obligations are not its business.
Flush ==
    /\ poll = "flush" /\ outgoing_fragments = << >>
    /\ IF FlushErr THEN UNCHANGED <<outbound, sent, wbuf>> ELSE Drain
    /\ poll' = "idle"
    /\ UNCHANGED <<inbound, in_eof, shut, broken, outgoing_fragments, obligated_sends,
                   flush_sends, close_state, reader, accepted>>

\* WriteHalf::poll_close is a loop over close_state.  None: a Close is due.
CloseBegin ==
    /\ poll = "close" /\ close_state = "None"
    /\ close_state' = "Sending"
    /\ UNCHANGED <<transport, wbuf, outgoing_fragments, obligated_sends,
                   flush_sends, reader, poll, accepted, sent>>

\* Sending: wait for room; an error of poll_ready is not looked at.
CloseSend ==
    /\ poll = "close" /\ close_state = "Sending"
    /\ IF FramedReady
       THEN ReadyDrain(<<CloseWith(NormalCode)>>)
       ELSE /\ FlushErr
            /\ wbuf' = Append(wbuf, CloseWith(NormalCode))
            /\ UNCHANGED <<outbound, sent>>
    /\ close_state' = "Flushing"
    /\ UNCHANGED <<inbound, in_eof, shut, broken, outgoing_fragments,
                   obligated_sends, flush_sends, reader, poll, accepted>>

\* (fault) Flushing waits for a flush that succeeds.
CloseFlushOnly ==
    /\ poll = "close" /\ close_state = "Flushing"
    /\ \/ FlushReady /\ Drain /\ close_state' = "Closing" /\ UNCHANGED poll
       \/ broken /\ poll' = "idle" /\ UNCHANGED <<wbuf, outbound, sent, close_state>>
    /\ UNCHANGED <<inbound, in_eof, shut, broken, outgoing_fragments,
                   obligated_sends, flush_sends, reader, accepted>>

\* Flushing: an error of poll_flush is not looked at either.
CloseFlush ==
    /\ poll = "close" /\ close_state = "Flushing"
    /\ \/ FlushReady /\ Drain
       \/ broken /\ UNCHANGED <<wbuf, outbound, sent>>
    /\ close_state' = "Closing"
    /\ UNCHANGED <<inbound, in_eof, shut, broken, outgoing_fragments,
                   obligated_sends, flush_sends, reader, poll, accepted>>

\* (fault) Done is reached although the transport has not taken everything.
CloseShutdownEarly ==
    /\ poll = "close" /\ close_state = "Closing"
    /\ \/ ~broken /\ Drain /\ shut' = TRUE
       \/ broken /\ UNCHANGED <<wbuf, outbound, sent, shut>>
    /\ close_state' = "Done"
    /\ UNCHANGED <<inbound, in_eof, broken, outgoing_fragments,
                   obligated_sends, flush_sends, reader, poll, accepted>>

\* Closing: Framed flushes again and shuts the transport down; the same holds
\* for an error of poll_close.
CloseShutdown ==
    /\ poll = "close" /\ close_state = "Closing"
    /\ \/ FlushReady /\ Drain /\ shut' = TRUE
       \/ broken /\ UNCHANGED <<wbuf, outbound, sent, shut>>
    /\ close_state' = "Done"
    /\ UNCHANGED <<inbound, in_eof, broken, outgoing_fragments,
                   obligated_sends, flush_sends, reader, poll, accepted>>

\* The transport is not ready for the stage at hand: poll_close is pending.
ClosePending ==
    /\ poll = "close"
    /\ \/ close_state = "Sending" /\ ~FramedReady /\ FlushPending /\ Drain
       \/ close_state \in {"Flushing", "Closing"} /\ FlushPending /\ Drain
       \/ close_state = "Closing" /\ FlushReady /\ Drain \* poll_shutdown pends
    /\ poll' = "idle"
    /\ UNCHANGED <<inbound, in_eof, shut, broken, outgoing_fragments,
                   obligated_sends, flush_sends, close_state, reader, accepted>>

CloseReturns ==
    /\ poll = "close" /\ close_state = "Done"
    /\ poll' = "idle"
    /\ UNCHANGED <<transport, writer, reader, accepted, sent>>

-----------------------------------------------------------------------------
ReadStep ==
    \/ ReadPing \/ ReadPong \/ ReadClose \/ ReadMalformed \/ ReadText
    \/ ReadContinuation \/ ReadIoError \/ ReadNothing \/ ReadNothingReturns
ObligatedStep ==
    ObligatedSend \/ ObligatedFlush \/ ObligatedPending \/ ObligatedErr
SinkStep ==
    SendFragment \/ (\E f \in UserFrames : Accept(f)) \/ NotReady \/ Flush
CloseStep ==
    CloseBegin \/ CloseSend \/ CloseFlush \/ CloseShutdown \/ ClosePending \/ CloseReturns
\* The rest of a poll that has begun.
PollStep == ReadStep \/ ObligatedStep \/ SinkStep \/ CloseStep
EndpointNext == BeginRead \/ BeginSend \/ BeginFlush \/ BeginClose \/ PollStep

\* The peer writes a frame, or takes one, or shuts its direction down; the
\* transport fails.
internals == <<shut, wbuf, outgoing_fragments, obligated_sends, flush_sends,
               close_state, reader, poll, accepted, sent>>
PeerSend(f) ==
    /\ ~in_eof /\ ~broken
    /\ Len(received) + Len(inbound) < MaxInbound
    /\ inbound' = Append(inbound, f)
    /\ UNCHANGED <<in_eof, outbound, broken, internals>>
PeerTake ==
    /\ outbound # << >> /\ ~broken
    /\ outbound' = Tail(outbound)
    /\ UNCHANGED <<inbound, in_eof, broken, internals>>
PeerEof ==
    /\ ~in_eof /\ ~broken
    /\ in_eof' = TRUE
    /\ UNCHANGED <<inbound, outbound, broken, internals>>
Break ==
    /\ ~broken
    /\ broken' = TRUE
    /\ UNCHANGED <<inbound, in_eof, outbound, internals>>
PeerNext == (\E f \in PeerFrames : PeerSend(f)) \/ PeerTake \/ PeerEof \/ Break

Next == EndpointNext \/ PeerNext
Spec == Init /\ [][Next]_vars

\* The reader keeps polling whatever the writer does, a poll runs to its
\* return, the peer keeps reading, and a transport that is asked to shut down
\* again and again does.
LiveSpec ==
    /\ Spec /\ WF_vars(PollStep) /\ SF_vars(BeginRead) /\ WF_vars(PeerTake)
    /\ SF_vars(CloseShutdown)

-----------------------------------------------------------------------------
(* Properties. *)

HasClose(s) == \E i \in 1..Len(s) : s[i].op = "Close"
Data(s) == SelectSeq(s, LAMBDA f : ~IsControl(f))

\* Every variable stays in the set of values the code gives it, and the
\* transport never holds more than it has room for.
TypeOK ==
    /\ inbound \in Seq(Frame \cup {Malformed}) /\ in_eof \in BOOLEAN
    /\ outbound \in Seq(Frame) /\ Len(outbound) <= Capacity
    /\ shut \in BOOLEAN /\ broken \in BOOLEAN
    /\ wbuf \in Seq(Frame) /\ outgoing_fragments \in Seq(Frame)
    /\ obligated_sends \in Seq(Frame) /\ flush_sends \in BOOLEAN
    /\ close_state \in {"None", "Sending", "Flushing", "Closing", "Done"}
    /\ is_closed \in BOOLEAN /\ incoming_fragment \in BOOLEAN
    /\ poll \in {"idle", "read", "read_closed", "read_pending", "send", "flush", "close"}
    /\ read_result \in {"none", "frame", "pending", "closed", "error"}
    /\ close_owed \in BOOLEAN
    /\ received \in Seq(Frame \cup {Malformed})
    /\ accepted \in Seq(Frame) /\ sent \in Seq(Frame)

\* on_ping and poll_flush_obligated: whatever the two tasks do, each Ping that
\* was read has exactly one Pong, with its payload, in the order of the Pings,
\* either queued, buffered or handed to the transport.
PongsAnswerPings ==
    LET Pongs == SelectSeq(sent \o wbuf \o obligated_sends, LAMBDA f : f.op = "Pong")
        Pings == SelectSeq(received, LAMBDA f : f.op = "Ping")
    IN /\ Len(Pongs) = Len(Pings)
       /\ \A i \in 1..Len(Pings) : Pongs[i].data = Pings[i].data

\* start_send, poll_flush_fragments and the write buffer: the data frames on
\* the wire and still queued are the fragments of the accepted frames, none
\* lost, repeated, reordered or mixed with those of another message.
DataInOrder ==
    LET Fragments(f) == IF FragmentSize = 0 THEN <<f>> ELSE into_fragments(f, FragmentSize)
        Concat[n \in 0..Len(accepted)] ==
            IF n = 0 THEN << >> ELSE Concat[n - 1] \o Fragments(accepted[n])
    IN Data(sent \o wbuf \o outgoing_fragments) = Data(Concat[Len(accepted)])

\* The Close this side owes, or has begun to send, is never lost: emit_close's
\* is queued, buffered with a flush due, or on the wire; from Flushing on one is
\* at least buffered, and from Closing on it is on the wire.
CloseKept ==
    /\ close_owed => \/ HasClose(sent) \/ HasClose(obligated_sends)
                     \/ HasClose(wbuf) /\ flush_sends
    /\ close_state = "Flushing" => HasClose(sent) \/ HasClose(wbuf)
    /\ close_state = "Closing" /\ ~broken => HasClose(sent)

\* When the read poll reports ConnectionClosed although this side owed the
\* peer a Close (a reply or an error code) or had finished its own close, a
\* Close has already been handed to the transport, unless that failed.
CloseReplyOnWire ==
    read_result = "closed" /\ (close_owed \/ close_state = "Done") /\ ~broken
        => HasClose(sent)

\* poll_close reaches Done only after Framed has written out everything it
\* had accepted, a Close included, or the transport failed.
DoneMeansFlushed ==
    close_state = "Done" /\ ~broken => wbuf = << >> /\ HasClose(sent) /\ shut

\* Once poll_close is done, neither task puts another frame on the wire.
SilentAfterDone == [][close_state = "Done" => sent' = sent]_vars

\* While the reader polls and the peer reads, every obligation (a Pong, a
\* Close reply) is eventually flushed, or the connection is closed or broken.
ObligationsMet == Obliged ~> (~Obliged \/ broken \/ close_state = "Done")

\* A task that keeps polling poll_close gets to Done, whatever is buffered, read
\* or broken meanwhile and at whatever stage each poll was left.
CloseCompletes == []<>(poll = "close") => <>(close_state = "Done")

-----------------------------------------------------------------------------
(* What the documentation says and the code does not do. *)

\* "a close response is automatically sent (if not already closing)": no
\* second Close follows the first one onto the wire.
AtMostOneClose ==
    \A i, j \in 1..Len(sent) : sent[i].op = "Close" /\ sent[j].op = "Close" => i = j

\* poll_close "Ensures the Close frame and any pending frames are fully
\* flushed": no accepted frame is left in the fragment queue when it is done.
CloseFlushesAccepted == close_state = "Done" /\ ~broken => outgoing_fragments = << >>

\* Control frames "Cannot be fragmented (the FIN bit must be set)".
ControlFramesWhole == \A i \in 1..Len(sent) : IsControl(sent[i]) => sent[i].fin
=============================================================================
