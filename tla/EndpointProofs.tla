--------------------------- MODULE EndpointProofs ---------------------------
(***************************************************************************)
(* Proofs about Endpoint, for every set of frames, boundary, capacity and  *)
(* fragment size.                                                          *)
(***************************************************************************)
EXTENDS Endpoint, FramesProofs

-----------------------------------------------------------------------------
(* Sequences of frames. *)

\* HasClose looks into both parts of a concatenation.
LEMMA HasCloseConcat ==
    ASSUME NEW S, NEW s \in Seq(S), NEW t \in Seq(S)
    PROVE  HasClose(s \o t) <=> HasClose(s) \/ HasClose(t)
<1>1. Len(s \o t) = Len(s) + Len(t) /\ Len(s) \in Nat /\ Len(t) \in Nat
  BY ConcatProperties
<1>2. ASSUME NEW i \in 1..Len(s) PROVE (s \o t)[i] = s[i] /\ i \in 1..Len(s \o t)
  BY <1>1
<1>3. ASSUME NEW i \in 1..Len(t)
      PROVE (s \o t)[i + Len(s)] = t[i] /\ i + Len(s) \in 1..Len(s \o t)
  BY <1>1
<1>4. ASSUME HasClose(s) \/ HasClose(t) PROVE HasClose(s \o t)
  BY <1>2, <1>3, <1>4 DEF HasClose
<1>5. ASSUME HasClose(s \o t) PROVE HasClose(s) \/ HasClose(t)
  <2>1. PICK i \in 1..Len(s \o t) : (s \o t)[i].op = "Close"
    BY <1>5 DEF HasClose
  <2>2. CASE i <= Len(s)
    BY <2>1, <2>2, <1>1, <1>2 DEF HasClose
  <2>3. CASE i > Len(s)
    <3>1. i - Len(s) \in 1..Len(t) /\ t[i - Len(s)] = (s \o t)[i]
      BY <2>3, <1>1
    <3>2. QED BY <3>1, <2>1 DEF HasClose
  <2>4. QED BY <2>2, <2>3, <1>1
<1>6. QED BY <1>4, <1>5

\* ... and at the last element of an Append.
LEMMA HasCloseAppend ==
    ASSUME NEW S, NEW s \in Seq(S), NEW f \in S
    PROVE  /\ HasClose(s) \/ f.op = "Close" => HasClose(Append(s, f))
           /\ f.op = "Close" => HasClose(<<f>>)
<1>1. Len(Append(s, f)) = Len(s) + 1 /\ Len(s) \in Nat
      /\ Append(s, f)[Len(s) + 1] = f
      /\ \A i \in 1..Len(s) : Append(s, f)[i] = s[i]
  OBVIOUS
<1>2. Len(<<f>>) = 1 /\ <<f>>[1] = f
  OBVIOUS
<1>3. QED BY <1>1, <1>2 DEF HasClose

\* A Close in a queue is at its head or in its tail.
LEMMA HasCloseTail ==
    ASSUME NEW S, NEW s \in Seq(S), s # << >>, HasClose(s)
    PROVE  Head(s).op = "Close" \/ HasClose(Tail(s))
<1>1. Len(s) \in Nat \ {0} /\ Head(s) = s[1] /\ Tail(s) \in Seq(S)
      /\ Len(Tail(s)) = Len(s) - 1
      /\ \A i \in 1..Len(s) - 1 : Tail(s)[i] = s[i + 1]
  OBVIOUS
<1>2. PICK i \in 1..Len(s) : s[i].op = "Close"
  BY DEF HasClose
<1>3. CASE i = 1
  BY <1>1, <1>2, <1>3
<1>4. CASE i # 1
  <2>1. i - 1 \in 1..Len(Tail(s)) /\ Tail(s)[i - 1] = s[i]
    BY <1>1, <1>4
  <2>2. QED BY <2>1, <1>2, Zenon DEF HasClose
<1>5. QED BY <1>3, <1>4

\* A queue cut in two loses nothing.
LEMMA CutSeq ==
    ASSUME NEW S, NEW s \in Seq(S), NEW k \in 0..Len(s)
    PROVE  /\ SubSeq(s, 1, k) \in Seq(S) /\ SubSeq(s, k + 1, Len(s)) \in Seq(S)
           /\ Len(SubSeq(s, 1, k)) = k
           /\ s = SubSeq(s, 1, k) \o SubSeq(s, k + 1, Len(s))
           /\ k = Len(s) => SubSeq(s, k + 1, Len(s)) = << >>
<1>1. Len(s) \in Nat /\ k \in Nat
  OBVIOUS
<1>2. SubSeq(s, 1, k) \in Seq(S) /\ Len(SubSeq(s, 1, k)) = k
      /\ \A i \in 1..k : SubSeq(s, 1, k)[i] = s[i]
  BY <1>1, SubSeqProperties
<1>3. SubSeq(s, k + 1, Len(s)) \in Seq(S) /\ Len(SubSeq(s, k + 1, Len(s))) = Len(s) - k
      /\ \A i \in 1..Len(s) - k : SubSeq(s, k + 1, Len(s))[i] = s[k + i]
  BY <1>1, SubSeqProperties
<1>4. s = SubSeq(s, 1, k) \o SubSeq(s, k + 1, Len(s))
  <2>1. SubSeq(s, 1, Len(s)) = s
    BY SubSeqFull
  <2>2. SubSeq(s, 1, k) \o SubSeq(s, k + 1, Len(s)) = SubSeq(s, 1, Len(s))
    <3>1. 1 \in 1..Len(s) + 1 /\ k \in (1 - 1)..Len(s) /\ Len(s) \in k..Len(s)
      BY <1>1
    <3>2. QED BY <3>1, ConcatAdjacentSubSeq, Zenon
  <2>3. QED BY <2>1, <2>2, Zenon
<1>5. k = Len(s) => SubSeq(s, k + 1, Len(s)) = << >>
  BY <1>1, <1>3, EmptySeq
<1>6. QED BY <1>2, <1>3, <1>4, <1>5, Zenon

-----------------------------------------------------------------------------
(* The framed transport. *)

\* A flush moves a prefix of the buffer to the wire: a Close in it is not lost,
\* and the transport is not overfilled.
LEMMA DrainMoves ==
    ASSUME TypeOK, Drain
    PROVE  /\ wbuf' \in Seq(Frame) /\ outbound' \in Seq(Frame) /\ sent' \in Seq(Frame)
           /\ Len(outbound') <= Capacity
           /\ HasClose(sent) => HasClose(sent')
           /\ HasClose(wbuf) => HasClose(wbuf') \/ HasClose(sent')
           /\ Written = Len(wbuf) => wbuf' = << >>
           /\ wbuf = << >> => sent' = sent /\ wbuf' = << >>
<1>1. Len(wbuf) \in Nat /\ Len(outbound) \in Nat /\ Len(outbound) <= Capacity /\ Capacity \in Nat
  BY EndpointAssumption DEF TypeOK
<1>2. Written \in 0..Len(wbuf) /\ Written <= Capacity - Len(outbound)
  BY <1>1 DEF Written
<1>3. /\ SubSeq(wbuf, 1, Written) \in Seq(Frame)
      /\ SubSeq(wbuf, Written + 1, Len(wbuf)) \in Seq(Frame)
      /\ Len(SubSeq(wbuf, 1, Written)) = Written
      /\ wbuf = SubSeq(wbuf, 1, Written) \o SubSeq(wbuf, Written + 1, Len(wbuf))
      /\ Written = Len(wbuf) => SubSeq(wbuf, Written + 1, Len(wbuf)) = << >>
  <2>1. wbuf \in Seq(Frame)
    BY DEF TypeOK
  <2>2. QED BY <1>2, <2>1, CutSeq, Zenon
<1>4. wbuf' \in Seq(Frame) /\ outbound' \in Seq(Frame) /\ sent' \in Seq(Frame)
  BY <1>3, ConcatProperties, Zenon DEF Drain, TypeOK
<1>5. Len(outbound') <= Capacity
  BY <1>1, <1>2, <1>3, ConcatProperties DEF Drain, TypeOK
<1>6. /\ HasClose(sent) => HasClose(sent')
      /\ HasClose(wbuf) => HasClose(wbuf') \/ HasClose(sent')
  <2> DEFINE a == SubSeq(wbuf, 1, Written)
             b == SubSeq(wbuf, Written + 1, Len(wbuf))
  <2>1. sent \in Seq(Frame) /\ a \in Seq(Frame) /\ b \in Seq(Frame)
    BY <1>3, Zenon DEF TypeOK
  <2>2. wbuf = a \o b /\ sent' = sent \o a /\ wbuf' = b
    BY <1>3, Zenon DEF Drain
  <2> HIDE DEF a, b
  <2>3. HasClose(sent') <=> HasClose(sent) \/ HasClose(a)
    BY <2>1, <2>2, HasCloseConcat
  <2>4. HasClose(wbuf) <=> HasClose(a) \/ HasClose(b)
    BY <2>1, <2>2, HasCloseConcat
  <2>5. QED BY <2>2, <2>3, <2>4
<1>7. wbuf = << >> => sent' = sent /\ wbuf' = << >>
  <2>1. SUFFICES ASSUME wbuf = << >> PROVE sent' = sent /\ wbuf' = << >>
    OBVIOUS
  <2>2. Written = 0 /\ Len(wbuf) = 0
    BY <2>1, <1>2
  <2>3. SubSeq(wbuf, 1, Written) = << >>
    BY <2>2, <1>3, EmptySeq
  <2>4. sent' = sent
    BY <2>3, ConcatEmptySeq, Zenon DEF Drain, TypeOK
  <2>5. QED BY <2>2, <2>4, <1>3 DEF Drain
<1>8. QED BY <1>3, <1>4, <1>5, <1>6, <1>7, Zenon DEF Drain

\* Making room and then buffering `rest' loses no Close either.
LEMMA ReadyDrainMoves ==
    ASSUME TypeOK, FramedReady, NEW rest \in Seq(Frame), ReadyDrain(rest)
    PROVE  /\ wbuf' \in Seq(Frame) /\ outbound' \in Seq(Frame) /\ sent' \in Seq(Frame)
           /\ Len(outbound') <= Capacity
           /\ HasClose(sent) => HasClose(sent')
           /\ HasClose(wbuf) => HasClose(wbuf') \/ HasClose(sent')
           /\ HasClose(rest) => HasClose(wbuf')
<1> USE DEF ReadyDrain
<1>1. wbuf \in Seq(Frame) /\ outbound \in Seq(Frame) /\ sent \in Seq(Frame)
      /\ Len(outbound) <= Capacity /\ Capacity \in Nat /\ Boundary \in Nat \ {0}
      /\ Len(wbuf) \in Nat /\ Len(outbound) \in Nat
  BY EndpointAssumption DEF TypeOK
<1>2. CASE Len(wbuf) < Boundary
  <2>1. wbuf' = wbuf \o rest /\ sent' = sent /\ outbound' = outbound
    BY <1>2
  <2>2. HasClose(wbuf') <=> HasClose(wbuf) \/ HasClose(rest)
    BY <1>1, <2>1, HasCloseConcat
  <2>3. wbuf' \in Seq(Frame)
    BY <1>1, <2>1, ConcatProperties
  <2>4. QED BY <1>1, <2>1, <2>2, <2>3
<1>3. CASE ~(Len(wbuf) < Boundary)
  <2>1. wbuf' = rest /\ outbound' = outbound \o wbuf /\ sent' = sent \o wbuf
    BY <1>3
  <2>2. Len(wbuf) <= Capacity - Len(outbound)
    <3>1. wbuf # << >>
      BY <1>1, <1>3
    <3>2. Written = Len(wbuf)
      BY <3>1, <1>3 DEF FramedReady, FlushReady
    <3>3. QED BY <3>2, <1>1 DEF Written
  <2>3. Len(outbound \o wbuf) = Len(outbound) + Len(wbuf)
    BY <1>1, ConcatProperties
  <2>4. HasClose(sent') <=> HasClose(sent) \/ HasClose(wbuf)
    BY <1>1, <2>1, HasCloseConcat
  <2>5. QED BY <1>1, <2>1, <2>2, <2>3, <2>4, ConcatProperties
<1>4. QED BY <1>2, <1>3

-----------------------------------------------------------------------------
(* Type correctness. *)

\* The frames the code makes up itself are frames, and so is a decoded frame
\* that is not refused.
LEMMA FrameFacts ==
    ASSUME TypeOK
    PROVE  /\ CloseWith(NormalCode) \in Frame /\ CloseWith(ProtocolCode) \in Frame
           /\ CloseWith(ErrorCode) \in Frame
           /\ inbound # << >> => Incoming \in Frame \cup {Malformed}
           /\ inbound # << >> /\ Incoming.op # "Malformed" => /\ Incoming \in Frame
                                                              /\ PongOf(Incoming) \in Frame
<1>1. /\ CloseWith(NormalCode) \in Frame /\ CloseWith(ProtocolCode) \in Frame
      /\ CloseWith(ErrorCode) \in Frame
  BY DEF CloseWith, Frame, Ops, ControlOps, NormalCode, ProtocolCode, ErrorCode
<1>2. inbound # << >> => Incoming \in Frame \cup {Malformed}
  BY DEF TypeOK, Incoming
<1>3. ASSUME NEW f \in Frame PROVE PongOf(f) \in Frame
  BY DEF PongOf, Frame, Ops, ControlOps
<1>4. Malformed.op = "Malformed"
  BY DEF Malformed
<1>5. QED BY <1>1, <1>2, <1>3, <1>4

\* StartSend keeps the types and loses no Close.
LEMMA StartSendMoves ==
    ASSUME TypeOK, FramedReady, NEW f \in Frame, StartSend(f)
    PROVE  /\ wbuf' \in Seq(Frame) /\ outbound' \in Seq(Frame) /\ sent' \in Seq(Frame)
           /\ Len(outbound') <= Capacity
           /\ close_state' \in {"None", "Sending", "Flushing", "Closing", "Done"}
           /\ HasClose(sent) => HasClose(sent')
           /\ HasClose(wbuf) => HasClose(wbuf') \/ HasClose(sent')
           /\ f.op = "Close" => HasClose(wbuf')
<1>1. <<f>> \in Seq(Frame) /\ ReadyDrain(<<f>>)
  BY DEF StartSend
<1>2. f.op = "Close" => HasClose(<<f>>)
  <2>1. << >> \in Seq(Frame)
    OBVIOUS
  <2>2. QED BY <2>1, HasCloseAppend, Zenon
<1>3. close_state' \in {"None", "Sending", "Flushing", "Closing", "Done"}
  BY DEF StartSend, TypeOK
<1>4. QED BY <1>1, <1>2, <1>3, ReadyDrainMoves, Zenon

\* Init and every step keep the type invariant.
LEMMA TypeInductive == TypeOK /\ [Next]_vars => TypeOK'
<1> SUFFICES ASSUME TypeOK, [Next]_vars PROVE TypeOK'
  OBVIOUS
<1>f. /\ CloseWith(NormalCode) \in Frame /\ CloseWith(ProtocolCode) \in Frame
      /\ CloseWith(ErrorCode) \in Frame
      /\ inbound # << >> => Incoming \in Frame \cup {Malformed}
      /\ inbound # << >> /\ Incoming.op # "Malformed" => /\ Incoming \in Frame
                                                         /\ PongOf(Incoming) \in Frame
  BY FrameFacts
<1>u. CASE UNCHANGED vars
  BY <1>u DEF vars, TypeOK
<1>b. ASSUME NEW call \in {"read", "send", "flush", "close"}, BeginPoll(call) PROVE TypeOK'
  BY <1>b DEF BeginPoll, TypeOK, transport, writer, reader
<1>1. CASE BeginRead \/ BeginSend \/ BeginFlush \/ BeginClose
  BY <1>1, <1>b DEF BeginRead, BeginSend, BeginFlush, BeginClose
<1>r. ASSUME NEW op, ReadFrame(op)
      PROVE  /\ inbound' \in Seq(Frame \cup {Malformed})
             /\ received' \in Seq(Frame \cup {Malformed})
  BY <1>r, <1>f DEF ReadFrame, TypeOK
<1>2. CASE ReadPing
  <2>1. ReadFrame("Ping") /\ inbound # << >> /\ Incoming.op = "Ping"
    BY <1>2 DEF ReadPing, ReadFrame
  <2>2. QED BY <1>2, <2>1, <1>r, <1>f DEF ReadPing, ReadFrame, ReadReturns, TypeOK
<1>3. CASE ReadPong
  <2>1. ReadFrame("Pong") /\ inbound # << >> /\ Incoming.op = "Pong"
    BY <1>3 DEF ReadPong, ReadFrame
  <2>2. QED BY <1>3, <2>1, <1>r, <1>f DEF ReadPong, ReadFrame, ReadReturns, TypeOK
<1>4. CASE ReadMalformed
  <2>1. ReadFrame("Malformed") /\ inbound # << >> /\ Incoming.op = "Malformed"
    BY <1>4 DEF ReadMalformed, ReadFrame
  <2>2. QED BY <1>4, <2>1, <1>r, <1>f DEF ReadMalformed, ReadFrame, ReadReturns, emit_close, TypeOK
<1>5. CASE ReadText
  <2>1. ReadFrame("Text") /\ inbound # << >> /\ Incoming.op = "Text"
    BY <1>5 DEF ReadText, ReadFrame
  <2>2. incoming_fragment' \in BOOLEAN
    BY <1>5, <2>1, <1>f, Zenon DEF ReadText, TypeOK
  <2>3. poll' \in {poll, "idle"} /\ read_result' \in {read_result, "error", "frame"}
    BY <1>5 DEF ReadText, ReadReturns
  <2>4. UNCHANGED <<in_eof, outbound, shut, broken, wbuf, outgoing_fragments, flush_sends, accepted,
                    sent, close_state, obligated_sends, is_closed, close_owed>>
    BY <1>5 DEF ReadText, ReadFrame
  <2>5. QED BY <2>1, <2>2, <2>3, <2>4, <1>r DEF TypeOK
<1>6. CASE ReadContinuation
  <2>1. ReadFrame("Cont") /\ inbound # << >> /\ Incoming.op = "Cont"
    BY <1>6 DEF ReadContinuation, ReadFrame
  <2>2. QED BY <1>6, <2>1, <1>r, <1>f DEF ReadContinuation, ReadFrame, ReadReturns, TypeOK
<1>7. CASE ReadClose
  <2>1. ReadFrame("Close") /\ inbound # << >> /\ Incoming.op = "Close"
    BY <1>7 DEF ReadClose, ReadFrame
  <2>2. \E f \in Frame : emit_close(f)
    <3>1. CASE CloseAllowed(Incoming)
      BY <1>7, <2>1, <1>f, <3>1 DEF ReadClose
    <3>2. CASE ~CloseAllowed(Incoming)
      BY <1>7, <2>1, <1>f, <3>2 DEF ReadClose
    <3>3. QED BY <3>1, <3>2
  <2>3. is_closed' \in BOOLEAN /\ close_owed' \in BOOLEAN
    BY <2>2, Zenon DEF emit_close
  <2>4. obligated_sends' \in Seq(Frame)
    BY <2>2 DEF emit_close, TypeOK
  <2>5. poll' = "idle" /\ read_result' \in {"frame", "error"}
    BY <1>7 DEF ReadClose, ReadReturns
  <2>6. QED BY <1>7, <2>1, <2>3, <2>4, <2>5, <1>r DEF ReadClose, ReadFrame, TypeOK
<1>8. CASE ReadIoError
  BY <1>8, <1>f DEF ReadIoError, ReadReturns, emit_close, transport, TypeOK
<1>9. CASE ReadNothing
  BY <1>9, <1>f DEF ReadNothing, transport, writer, TypeOK
<1>10. CASE ReadNothingReturns
  BY <1>10, <1>f DEF ReadNothingReturns, ReadReturns, transport, writer, TypeOK
<1>11. CASE ObligatedSend
  <2>1. Head(obligated_sends) \in Frame /\ Tail(obligated_sends) \in Seq(Frame)
        /\ FramedReady /\ StartSend(Head(obligated_sends))
    BY <1>11 DEF ObligatedSend, WriteReady, TypeOK
  <2>2. /\ wbuf' \in Seq(Frame) /\ outbound' \in Seq(Frame) /\ sent' \in Seq(Frame)
        /\ Len(outbound') <= Capacity
        /\ close_state' \in {"None", "Sending", "Flushing", "Closing", "Done"}
    BY <2>1, StartSendMoves
  <2>3. QED BY <1>11, <2>1, <2>2 DEF ObligatedSend, reader, TypeOK
<1>d. Drain => /\ wbuf' \in Seq(Frame) /\ outbound' \in Seq(Frame) /\ sent' \in Seq(Frame)
               /\ Len(outbound') <= Capacity
  BY DrainMoves
<1>12. CASE ObligatedFlush
  <2>1. Drain /\ flush_sends' \in BOOLEAN
    BY <1>12, Zenon DEF ObligatedFlush
  <2>2. QED BY <1>12, <1>d, <2>1 DEF ObligatedFlush, reader, TypeOK
<1>13. CASE ObligatedPending
  BY <1>13, <1>d DEF ObligatedPending, Returns, TypeOK
<1>14. CASE ObligatedErr
  BY <1>14, <1>d DEF ObligatedErr, Returns, transport, writer, TypeOK
<1>15. CASE SendFragment
  <2>1. Head(outgoing_fragments) \in Frame /\ Tail(outgoing_fragments) \in Seq(Frame)
        /\ FramedReady /\ StartSend(Head(outgoing_fragments))
    BY <1>15 DEF SendFragment, WriteReady, TypeOK
  <2>2. /\ wbuf' \in Seq(Frame) /\ outbound' \in Seq(Frame) /\ sent' \in Seq(Frame)
        /\ Len(outbound') <= Capacity
        /\ close_state' \in {"None", "Sending", "Flushing", "Closing", "Done"}
    BY <2>1, StartSendMoves
  <2>3. QED BY <1>15, <2>1, <2>2 DEF SendFragment, reader, TypeOK
<1>16. ASSUME NEW f \in UserFrames, Accept(f) PROVE TypeOK'
  <2>1. f \in Frame /\ FramedReady
    BY <1>16, EndpointAssumption DEF Accept, WriteReady
  <2>2. CASE FragmentSize = 0
    <3>1. StartSend(f) /\ outgoing_fragments' = outgoing_fragments
      BY <1>16, <2>2 DEF Accept
    <3>2. /\ wbuf' \in Seq(Frame) /\ outbound' \in Seq(Frame) /\ sent' \in Seq(Frame)
          /\ Len(outbound') <= Capacity
          /\ close_state' \in {"None", "Sending", "Flushing", "Closing", "Done"}
      BY <2>1, <3>1, StartSendMoves
    <3>3. QED BY <1>16, <2>1, <3>1, <3>2 DEF Accept, reader, TypeOK
  <2>3. CASE FragmentSize # 0
    <3>1. ReadyDrain(<< >>) /\ outgoing_fragments' = into_fragments(f, FragmentSize)
      BY <1>16, <2>3 DEF Accept
    <3>2. outgoing_fragments' \in Seq(Frame)
      BY <2>1, <2>3, <3>1, FragmentsType, EndpointAssumption
    <3>3. << >> \in Seq(Frame)
      OBVIOUS
    <3>4. /\ wbuf' \in Seq(Frame) /\ outbound' \in Seq(Frame) /\ sent' \in Seq(Frame)
          /\ Len(outbound') <= Capacity
      BY <2>1, <3>1, <3>3, ReadyDrainMoves, Zenon
    <3>5. QED BY <1>16, <2>1, <2>3, <3>2, <3>4 DEF Accept, reader, TypeOK
  <2>4. QED BY <2>2, <2>3
<1>17. CASE NotReady
  BY <1>17, <1>d DEF NotReady, reader, TypeOK
<1>18. CASE Flush
  BY <1>18, <1>d DEF Flush, reader, TypeOK
<1>19. CASE CloseBegin
  BY <1>19, <1>d DEF CloseBegin, transport, reader, TypeOK
<1>20. CASE CloseFlush
  BY <1>20, <1>d DEF CloseFlush, reader, TypeOK
<1>21. CASE CloseShutdown
  BY <1>21, <1>d, Zenon DEF CloseShutdown, reader, TypeOK
<1>22. CASE ClosePending
  BY <1>22, <1>d DEF ClosePending, reader, TypeOK
<1>23. CASE CloseReturns
  BY <1>23, <1>d DEF CloseReturns, transport, writer, reader, TypeOK
<1>24. CASE CloseSend
  <2>1. <<CloseWith(NormalCode)>> \in Seq(Frame)
    BY <1>f
  <2>2. /\ wbuf' \in Seq(Frame) /\ outbound' \in Seq(Frame) /\ sent' \in Seq(Frame)
        /\ Len(outbound') <= Capacity
    <3>1. CASE FramedReady
      <4>1. ReadyDrain(<<CloseWith(NormalCode)>>)
        BY <1>24, <3>1 DEF CloseSend
      <4>2. QED BY <3>1, <4>1, <2>1, ReadyDrainMoves, Zenon
    <3>2. CASE ~FramedReady
      <4>1. wbuf' = Append(wbuf, CloseWith(NormalCode)) /\ outbound' = outbound /\ sent' = sent
        BY <1>24, <3>2 DEF CloseSend
      <4>2. QED BY <4>1, <1>f DEF TypeOK
    <3>3. QED BY <3>1, <3>2
  <2>3. QED BY <1>24, <2>2 DEF CloseSend, reader, TypeOK
<1>25. ASSUME NEW f \in PeerFrames, PeerSend(f) PROVE TypeOK'
  BY <1>25, EndpointAssumption DEF PeerSend, internals, reader, TypeOK
<1>26. CASE PeerTake
  <2>1. outbound' \in Seq(Frame) /\ Len(outbound') <= Capacity
    BY <1>26, EndpointAssumption DEF PeerTake, TypeOK
  <2>2. QED BY <1>26, <2>1 DEF PeerTake, internals, reader, TypeOK
<1>27. CASE PeerEof
  BY <1>27 DEF PeerEof, internals, reader, TypeOK
<1>28. CASE Break
  BY <1>28 DEF Break, internals, reader, TypeOK
<1>29. QED
  BY <1>u, <1>1, <1>2, <1>3, <1>4, <1>5, <1>6, <1>7, <1>8, <1>9, <1>10,
     <1>11, <1>12, <1>13, <1>14, <1>15, <1>16, <1>17, <1>18, <1>19, <1>20,
     <1>21, <1>22, <1>23, <1>24, <1>25, <1>26, <1>27, <1>28
     DEF Next, EndpointNext, PollStep, ReadStep, ObligatedStep, SinkStep,
         CloseStep, PeerNext

\* Every variable stays in the set of values the code gives it, and the
\* transport is never overfilled, for any frames, sizes and boundary.
THEOREM TypeCorrect == Spec => []TypeOK
<1>1. Init => TypeOK
  <2> SUFFICES ASSUME Init PROVE TypeOK
    OBVIOUS
  <2>1. /\ shut \in BOOLEAN /\ broken \in BOOLEAN /\ in_eof \in BOOLEAN
        /\ flush_sends \in BOOLEAN /\ is_closed \in BOOLEAN
        /\ incoming_fragment \in BOOLEAN /\ close_owed \in BOOLEAN
    BY Zenon DEF Init
  <2>2. /\ << >> \in Seq(Frame) /\ << >> \in Seq(Frame \cup {Malformed})
        /\ Len(<< >>) = 0
    OBVIOUS
  <2>3. QED BY <2>1, <2>2, EndpointAssumption DEF Init, TypeOK
<1>2. QED BY <1>1, TypeInductive, PTL DEF Spec

-----------------------------------------------------------------------------
(* The Close reply. *)

\* The inductive invariant: where a Close may be while it is owed is what makes
\* the last two conjuncts hold after each step.
CloseInv == CloseKept /\ DoneMeansFlushed /\ CloseReplyOnWire

\* No Close is in an empty sequence.
LEMMA HasCloseEmpty == ~HasClose(<< >>)
  BY DEF HasClose

\* A step that touches neither the writer nor the wire keeps the invariant,
\* unless it makes the reader report the end.
LEMMA QuietKeeps ==
    ASSUME CloseInv,
           UNCHANGED <<sent, wbuf, obligated_sends, flush_sends, close_state, close_owed, shut>>,
           broken' \/ (~broken /\ ~broken'),
           read_result' = "closed" => read_result = "closed"
    PROVE  CloseInv'
  BY DEF CloseInv, CloseKept, DoneMeansFlushed, CloseReplyOnWire

\* A step that moves buffered frames to the wire and leaves the queue, the close
\* state and the reader alone keeps it.
LEMMA DrainKeeps ==
    ASSUME TypeOK, CloseInv, Drain,
           UNCHANGED <<obligated_sends, close_state, close_owed, shut, broken>>,
           flush_sends' = flush_sends \/ wbuf' = << >>,
           read_result' = "closed" => read_result = "closed"
    PROVE  CloseInv'
<1>1. /\ HasClose(sent) => HasClose(sent')
      /\ HasClose(wbuf) => HasClose(wbuf') \/ HasClose(sent')
      /\ wbuf = << >> => sent' = sent /\ wbuf' = << >>
  BY DrainMoves
<1>2. wbuf' = << >> => ~HasClose(wbuf')
  BY HasCloseEmpty
<1>3. CloseKept'
  BY <1>1, <1>2 DEF CloseInv, CloseKept
<1>4. DoneMeansFlushed' /\ CloseReplyOnWire'
  BY <1>1 DEF CloseInv, DoneMeansFlushed, CloseReplyOnWire
<1>5. QED BY <1>3, <1>4 DEF CloseInv

\* A step that sends f, the head of a queue, keeps it.
LEMMA StartSendKeeps ==
    ASSUME TypeOK, CloseInv, WriteReady, NEW f \in Frame, StartSend(f),
           UNCHANGED <<close_owed, shut, broken, read_result>>,
           flush_sends' \/ flush_sends' = flush_sends,
           \/ obligated_sends' = obligated_sends
           \/ flush_sends' /\ (HasClose(obligated_sends) => f.op = "Close" \/ HasClose(obligated_sends'))
    PROVE  CloseInv'
<1>1. FramedReady /\ close_state # "Done"
  BY DEF WriteReady
<1>2. /\ HasClose(sent) => HasClose(sent')
      /\ HasClose(wbuf) => HasClose(wbuf') \/ HasClose(sent')
      /\ f.op = "Close" => HasClose(wbuf')
  BY <1>1, StartSendMoves
<1>3. close_state' = IF f.op = "Close" THEN "Flushing" ELSE close_state
  BY DEF StartSend
<1>4. CloseKept'
  BY <1>2, <1>3 DEF CloseInv, CloseKept
<1>5. DoneMeansFlushed' /\ CloseReplyOnWire'
  BY <1>1, <1>2, <1>3 DEF CloseInv, DoneMeansFlushed, CloseReplyOnWire
<1>6. QED BY <1>4, <1>5 DEF CloseInv

\* A reader step that queues a frame for the peer keeps it.
LEMMA QueueKeeps ==
    ASSUME TypeOK, CloseInv, NEW f \in Frame, obligated_sends' = Append(obligated_sends, f),
           close_owed' => close_owed \/ f.op = "Close",
           UNCHANGED <<sent, wbuf, flush_sends, close_state, shut, broken>>,
           read_result' # "closed"
    PROVE  CloseInv'
<1>1. HasClose(obligated_sends) \/ f.op = "Close" => HasClose(obligated_sends')
  BY HasCloseAppend, Zenon DEF TypeOK
<1>2. QED BY <1>1 DEF CloseInv, CloseKept, DoneMeansFlushed, CloseReplyOnWire

\* Every step keeps the invariant.
LEMMA CloseInductive == TypeOK /\ CloseInv /\ [Next]_vars => CloseInv'
<1> SUFFICES ASSUME TypeOK, CloseInv, [Next]_vars PROVE CloseInv'
  OBVIOUS
<1>f. /\ CloseWith(NormalCode) \in Frame /\ CloseWith(ProtocolCode) \in Frame
      /\ CloseWith(ErrorCode) \in Frame
      /\ inbound # << >> /\ Incoming.op # "Malformed" => /\ Incoming \in Frame
                                                         /\ PongOf(Incoming) \in Frame
  BY FrameFacts
<1>c. \A code : CloseWith(code).op = "Close"
  BY DEF CloseWith
<1>t. broken \in BOOLEAN
  BY DEF TypeOK
<1>1. CASE UNCHANGED vars
  BY <1>1, <1>t, QuietKeeps DEF vars
<1>2. ASSUME NEW call, BeginPoll(call) PROVE CloseInv'
  BY <1>2, <1>t, QuietKeeps DEF BeginPoll, transport, writer, reader
<1>3. CASE ReadPong
  BY <1>3, <1>t, QuietKeeps DEF ReadPong, ReadFrame, ReadReturns
<1>4. CASE ReadText
  BY <1>4, <1>t, QuietKeeps DEF ReadText, ReadFrame, ReadReturns
<1>5. CASE ReadContinuation
  BY <1>5, <1>t, QuietKeeps DEF ReadContinuation, ReadFrame, ReadReturns
<1>6. CASE ReadNothing
  BY <1>6, <1>t, QuietKeeps DEF ReadNothing, transport, writer
<1>7. CASE ReadPing
  <2>1. PongOf(Incoming) \in Frame
    BY <1>7, <1>f DEF ReadPing, ReadFrame
  <2>2. QED BY <1>7, <2>1, QueueKeeps DEF ReadPing, ReadFrame, ReadReturns
<1>8. CASE ReadClose
  <2>1. Incoming \in Frame /\ Incoming.op = "Close" /\ ReadFrame("Close")
    BY <1>8, <1>f DEF ReadClose, ReadFrame
  <2>2. PICK f \in Frame : f.op = "Close" /\ emit_close(f)
    BY <1>8, <2>1, <1>f, <1>c DEF ReadClose
  <2>3. read_result' # "closed"
    BY <1>8 DEF ReadClose, ReadReturns
  <2>4. QED BY <2>1, <2>2, <2>3, QueueKeeps DEF ReadFrame, emit_close
<1>9. CASE ReadMalformed
  BY <1>9, <1>f, <1>c, QueueKeeps DEF ReadMalformed, ReadFrame, ReadReturns, emit_close
<1>10. CASE ReadIoError
  BY <1>10, <1>f, <1>c, QueueKeeps DEF ReadIoError, ReadReturns, emit_close, transport
<1>11. CASE ReadNothingReturns
  <2>1. UNCHANGED <<sent, wbuf, obligated_sends, flush_sends, close_state, close_owed, shut, broken>>
    BY <1>11 DEF ReadNothingReturns, transport, writer
  <2>2. obligated_sends = << >> /\ ~flush_sends
    BY <1>11 DEF ReadNothingReturns
  <2>3. close_owed => HasClose(sent)
    BY <2>2, HasCloseEmpty DEF CloseInv, CloseKept
  <2>4. QED BY <2>1, <2>3 DEF CloseInv, CloseKept, DoneMeansFlushed, CloseReplyOnWire
<1>12. CASE ObligatedSend
  <2>1. Head(obligated_sends) \in Frame /\ obligated_sends \in Seq(Frame) /\ obligated_sends # << >>
    BY <1>12 DEF ObligatedSend, TypeOK
  <2>2. HasClose(obligated_sends) => \/ Head(obligated_sends).op = "Close"
                                    \/ HasClose(Tail(obligated_sends))
    BY <2>1, HasCloseTail
  <2>3. QED BY <1>12, <2>1, <2>2, StartSendKeeps DEF ObligatedSend, reader
<1>13. CASE ObligatedFlush
  <2>1. Drain /\ (~broken => Written = Len(wbuf)) /\ (broken => wbuf = << >>)
    BY <1>13 DEF ObligatedFlush, FlushReady
  <2>2. wbuf' = << >>
    BY <2>1, DrainMoves
  <2>3. QED BY <1>13, <2>1, <2>2, DrainKeeps DEF ObligatedFlush, reader
<1>14. CASE ObligatedPending
  BY <1>14, DrainKeeps DEF ObligatedPending, Returns
<1>15. CASE ObligatedErr
  <2>1. UNCHANGED <<sent, wbuf, obligated_sends, flush_sends, close_state, close_owed, shut, broken>>
    BY <1>15 DEF ObligatedErr, transport, writer
  <2>2. read_result' = "closed" => read_result = "closed" \/ close_state = "Done"
    BY <1>15 DEF ObligatedErr, Returns
  <2>3. QED BY <2>1, <2>2 DEF CloseInv, CloseKept, DoneMeansFlushed, CloseReplyOnWire
<1>16. CASE SendFragment
  <2>1. Head(outgoing_fragments) \in Frame
    BY <1>16 DEF SendFragment, TypeOK
  <2>2. QED BY <1>16, <2>1, StartSendKeeps DEF SendFragment, reader
<1>17. ASSUME NEW f \in UserFrames, Accept(f) PROVE CloseInv'
  <2>1. f \in Frame /\ WriteReady /\ FramedReady /\ close_state # "Done"
    BY <1>17, EndpointAssumption DEF Accept, WriteReady
  <2>2. CASE FragmentSize = 0
    BY <1>17, <2>1, <2>2, StartSendKeeps DEF Accept, reader
  <2>3. CASE FragmentSize # 0
    <3>1. ReadyDrain(<< >>) /\ << >> \in Seq(Frame)
      BY <1>17, <2>3 DEF Accept
    <3>2. /\ HasClose(sent) => HasClose(sent')
          /\ HasClose(wbuf) => HasClose(wbuf') \/ HasClose(sent')
      BY <2>1, <3>1, ReadyDrainMoves, Zenon
    <3>3. UNCHANGED <<obligated_sends, flush_sends, close_state, close_owed, shut, broken, read_result>>
      BY <1>17, <2>3 DEF Accept, reader
    <3>4. QED BY <2>1, <3>2, <3>3 DEF CloseInv, CloseKept, DoneMeansFlushed, CloseReplyOnWire
  <2>4. QED BY <2>2, <2>3
<1>18. CASE NotReady
  <2>1. CASE Drain
    BY <1>18, <2>1, DrainKeeps DEF NotReady, reader
  <2>2. CASE UNCHANGED <<outbound, sent, wbuf>>
    BY <1>18, <2>2, <1>t, QuietKeeps DEF NotReady, reader
  <2>3. QED BY <1>18, <2>1, <2>2 DEF NotReady
<1>19. CASE Flush
  <2>1. CASE Drain
    BY <1>19, <2>1, DrainKeeps DEF Flush, reader
  <2>2. CASE UNCHANGED <<outbound, sent, wbuf>>
    BY <1>19, <2>2, <1>t, QuietKeeps DEF Flush, reader
  <2>3. QED BY <1>19, <2>1, <2>2 DEF Flush
<1>20. CASE CloseBegin
  BY <1>20 DEF CloseBegin, transport, reader, CloseInv, CloseKept, DoneMeansFlushed, CloseReplyOnWire
<1>21. CASE CloseSend
  <2>1. /\ HasClose(sent) => HasClose(sent')
        /\ HasClose(wbuf')
    <3>1. CASE FramedReady
      <4>1. ReadyDrain(<<CloseWith(NormalCode)>>) /\ <<CloseWith(NormalCode)>> \in Seq(Frame)
        BY <1>21, <3>1, <1>f DEF CloseSend
      <4>2. HasClose(<<CloseWith(NormalCode)>>)
        BY <1>f, <1>c, HasCloseAppend, Zenon DEF TypeOK
      <4>3. QED BY <3>1, <4>1, <4>2, ReadyDrainMoves, Zenon
    <3>2. CASE ~FramedReady
      <4>1. wbuf' = Append(wbuf, CloseWith(NormalCode)) /\ sent' = sent
        BY <1>21, <3>2 DEF CloseSend
      <4>2. QED BY <4>1, <1>f, <1>c, HasCloseAppend, Zenon DEF TypeOK
    <3>3. QED BY <3>1, <3>2
  <2>2. /\ close_state' = "Flushing"
        /\ UNCHANGED <<obligated_sends, flush_sends, close_owed, shut, broken, read_result>>
    BY <1>21 DEF CloseSend, reader
  <2>3. close_state = "Sending"
    BY <1>21 DEF CloseSend
  <2>4. QED BY <2>1, <2>2, <2>3 DEF CloseInv, CloseKept, DoneMeansFlushed, CloseReplyOnWire
<1>22. CASE CloseFlush
  <2>1. /\ close_state = "Flushing" /\ close_state' = "Closing"
        /\ UNCHANGED <<obligated_sends, flush_sends, close_owed, broken, read_result, shut>>
    BY <1>22 DEF CloseFlush, reader
  <2>2. CASE FlushReady /\ Drain
    <3>1. /\ HasClose(sent) => HasClose(sent')
          /\ HasClose(wbuf) => HasClose(wbuf') \/ HasClose(sent')
      BY <2>2, DrainMoves
    <3>2. wbuf' = << >>
      BY <2>2, DrainMoves DEF FlushReady
    <3>3. ~HasClose(wbuf')
      BY <3>2, HasCloseEmpty
    <3>4. QED BY <2>1, <2>2, <3>1, <3>2, <3>3 DEF CloseInv, CloseKept, DoneMeansFlushed, CloseReplyOnWire
  <2>3. CASE broken /\ UNCHANGED <<wbuf, outbound, sent>>
    BY <2>1, <2>3 DEF CloseInv, CloseKept, DoneMeansFlushed, CloseReplyOnWire
  <2>4. QED BY <1>22, <2>2, <2>3 DEF CloseFlush
<1>23. CASE CloseShutdown
  <2>1. /\ close_state = "Closing" /\ close_state' = "Done"
        /\ UNCHANGED <<obligated_sends, flush_sends, close_owed, broken, read_result>>
    BY <1>23 DEF CloseShutdown, reader
  <2>2. CASE FlushReady /\ Drain /\ shut'
    <3>1. /\ HasClose(sent) => HasClose(sent')
          /\ HasClose(wbuf) => HasClose(wbuf') \/ HasClose(sent')
      BY <2>2, DrainMoves
    <3>2. wbuf' = << >>
      BY <2>2, DrainMoves DEF FlushReady
    <3>3. ~HasClose(wbuf')
      BY <3>2, HasCloseEmpty
    <3>4. QED BY <2>1, <2>2, <3>1, <3>2, <3>3 DEF CloseInv, CloseKept, DoneMeansFlushed, CloseReplyOnWire
  <2>3. CASE broken /\ UNCHANGED <<wbuf, outbound, sent>>
    BY <2>1, <2>3 DEF CloseInv, CloseKept, DoneMeansFlushed, CloseReplyOnWire
  <2>4. QED BY <1>23, <2>2, <2>3 DEF CloseShutdown
<1>24. CASE ClosePending
  BY <1>24, DrainKeeps DEF ClosePending, reader
<1>25. CASE CloseReturns
  BY <1>25, <1>t, QuietKeeps DEF CloseReturns, transport, writer, reader
<1>26. ASSUME NEW f \in PeerFrames, PeerSend(f) PROVE CloseInv'
  BY <1>26, <1>t, QuietKeeps DEF PeerSend, internals, reader
<1>27. CASE PeerTake
  BY <1>27, <1>t, QuietKeeps DEF PeerTake, internals, reader
<1>28. CASE PeerEof
  BY <1>28, <1>t, QuietKeeps DEF PeerEof, internals, reader
<1>29. CASE Break
  BY <1>29, <1>t, QuietKeeps DEF Break, internals, reader
<1>30. QED
  BY <1>1, <1>2, <1>3, <1>4, <1>5, <1>6, <1>7, <1>8, <1>9, <1>10, <1>11,
     <1>12, <1>13, <1>14, <1>15, <1>16, <1>17, <1>18, <1>19, <1>20, <1>21,
     <1>22, <1>23, <1>24, <1>25, <1>26, <1>27, <1>28, <1>29
     DEF Next, EndpointNext, PollStep, ReadStep, ObligatedStep, SinkStep,
         CloseStep, PeerNext, BeginRead, BeginSend, BeginFlush, BeginClose

\* The inductive invariant holds of every run of the endpoint.
THEOREM CloseInvariant == Spec => []CloseInv
<1>1. Init => CloseInv
  BY DEF Init, CloseInv, CloseKept, DoneMeansFlushed, CloseReplyOnWire
<1>2. QED BY <1>1, CloseInductive, TypeCorrect, PTL DEF Spec

\* A Close that is owed or being sent is never lost, whatever the two tasks,
\* the transport and the peer do.
THEOREM CloseIsKept == Spec => []CloseKept
<1>1. CloseInv => CloseKept
  BY DEF CloseInv
<1>2. QED BY <1>1, CloseInvariant, PTL

\* The reader reports ConnectionClosed for a Close it had to answer only after
\* the answer has reached the transport.
THEOREM CloseReply == Spec => []CloseReplyOnWire
<1>1. CloseInv => CloseReplyOnWire
  BY DEF CloseInv
<1>2. QED BY <1>1, CloseInvariant, PTL

\* A finished close has flushed the framed buffer, sent a Close and shut down.
THEOREM DoneFlushed == Spec => []DoneMeansFlushed
<1>1. CloseInv => DoneMeansFlushed
  BY DEF CloseInv
<1>2. QED BY <1>1, CloseInvariant, PTL

\* With nothing buffered a drain writes nothing.
LEMMA DrainSilent ==
    ASSUME TypeOK, DoneMeansFlushed, close_state = "Done", Drain, FlushReady \/ FlushPending
    PROVE  sent' = sent
<1>1. wbuf = << >>
  BY DEF DoneMeansFlushed, FlushReady, FlushPending
<1>2. QED BY <1>1, DrainMoves

\* After Done, no step of either task puts a frame on the wire.
THEOREM Silent == Spec => SilentAfterDone
<1>1. TypeOK /\ DoneMeansFlushed /\ [Next]_vars => [close_state = "Done" => sent' = sent]_vars
  <2> SUFFICES ASSUME TypeOK, DoneMeansFlushed, Next, close_state = "Done" PROVE sent' = sent
    BY DEF vars
  <2>1. CASE BeginRead \/ BeginSend \/ BeginFlush \/ BeginClose
    BY <2>1 DEF BeginRead, BeginSend, BeginFlush, BeginClose, BeginPoll
  <2>2. CASE ReadStep
    BY <2>2 DEF ReadStep, ReadPing, ReadPong, ReadClose, ReadMalformed, ReadText,
                ReadContinuation, ReadIoError, ReadNothing, ReadNothingReturns, ReadFrame
  <2>3. CASE ObligatedSend \/ SendFragment \/ \E f \in UserFrames : Accept(f)
    BY <2>3 DEF ObligatedSend, SendFragment, Accept, WriteReady
  <2>4. CASE ObligatedFlush
    BY <2>4, DrainSilent DEF ObligatedFlush
  <2>5. CASE ObligatedPending
    BY <2>5, DrainSilent DEF ObligatedPending, WritePending
  <2>6. CASE ObligatedErr
    BY <2>6 DEF ObligatedErr
  <2>7. CASE NotReady
    BY <2>7 DEF NotReady, WritePending
  <2>8. CASE Flush
    <3>1. CASE FlushErr
      BY <2>8, <3>1 DEF Flush
    <3>2. CASE ~FlushErr
      <4>1. FlushReady \/ FlushPending
        <5>1. ~broken => Written = Len(wbuf) \/ Written < Len(wbuf)
          BY EndpointAssumption DEF TypeOK, Written
        <5>2. QED BY <3>2, <5>1 DEF FlushErr, FlushReady, FlushPending
      <4>2. QED BY <2>8, <3>2, <4>1, DrainSilent DEF Flush
    <3>3. QED BY <3>1, <3>2
  <2>9. CASE CloseStep
    BY <2>9 DEF CloseStep, CloseBegin, CloseSend, CloseFlush, CloseShutdown, ClosePending, CloseReturns
  <2>10. CASE PeerNext
    BY <2>10 DEF PeerNext, PeerSend, PeerTake, PeerEof, Break, internals
  <2>11. QED
    BY <2>1, <2>2, <2>3, <2>4, <2>5, <2>6, <2>7, <2>8, <2>9, <2>10
       DEF Next, EndpointNext, PollStep, ObligatedStep, SinkStep
<1>2. QED BY <1>1, TypeCorrect, DoneFlushed, PTL DEF Spec, SilentAfterDone
=============================================================================
