------------------------ MODULE FragmentLayerProofs ------------------------
(***************************************************************************)
(* Types and the memory bound of FragmentLayer, for all limits and peers.  *)
(***************************************************************************)
EXTENDS FragmentLayer, FramesProofs

\* fragment_outgoing queues frames.
LEMMA OutgoingType ==
    ASSUME NEW m \in Messages PROVE fragment_outgoing(m) \in Seq(Frame)
<1> DEFINE frame == [op |-> m.op, fin |-> TRUE, data |-> m.data]
<1>1. m.op \in Ops /\ m.data \in Seq(Nat)
  BY FragmentAssumption DEF Ops
<1>2. frame \in Frame
  BY <1>1 DEF Frame
<1> HIDE DEF frame
<1>3. CASE FragmentSize = 0
  BY <1>2, <1>3 DEF fragment_outgoing, frame
<1>4. CASE FragmentSize # 0
  <2>1. into_fragments(frame, FragmentSize) \in Seq(Frame)
    BY <1>2, <1>4, FragmentsType, FragmentAssumption
  <2>2. QED BY <1>4, <2>1 DEF fragment_outgoing, frame
<1>5. QED BY <1>3, <1>4

\* What a receiving step does to the frame queue and the counters.
LEMMA TakeType ==
    ASSUME TypeOK, Take
    PROVE  /\ Incoming \in Frame /\ wire' \in Seq(Frame) /\ started' \in Nat /\ started <= started'
           /\ outgoing_fragments' = outgoing_fragments /\ raw' = raw /\ offered' = offered
  BY DEF TypeOK, Take, Incoming

\* An error or a return for the current message keeps refused in range.
LEMMA RefusedType ==
    ASSUME TypeOK, started' \in Nat, started <= started',
           Refuse \/ refused' = refused
    PROVE  refused' \subseteq 0..started'
<1>1. 0..started \subseteq 0..started' /\ started' \in 0..started'
  BY DEF TypeOK
<1>2. QED BY <1>1, Zenon DEF Refuse, TypeOK

\* Return refuses or leaves `refused' alone.
LEMMA ReturnRefuses ==
    ASSUME NEW op, NEW data, Return(op, data) PROVE Refuse \/ refused' = refused
  BY DEF Return

\* Every step keeps the types and the bound on the buffer.
LEMMA FragmentInductive == TypeOK /\ BufferBounded /\ [Next]_vars => TypeOK' /\ BufferBounded'
<1> SUFFICES ASSUME TypeOK, BufferBounded, [Next]_vars PROVE TypeOK' /\ BufferBounded'
  OBVIOUS
<1>1. ASSUME NEW m \in Messages, Send(m) PROVE TypeOK' /\ BufferBounded'
  <2>1. outgoing_fragments' \in Seq(Frame)
    BY <1>1, OutgoingType DEF Send
  <2>2. QED BY <1>1, <2>1 DEF Send, received, TypeOK, BufferBounded, Assembling
<1>2. CASE FlushFragment
  BY <1>2 DEF FlushFragment, received, TypeOK, BufferBounded, Assembling
<1>3. CASE SendPong
  <2>1. Pong \in Frame
    BY DEF Pong, Frame, Ops, ControlOps
  <2>2. QED BY <1>3, <2>1 DEF SendPong, received, TypeOK, BufferBounded, Assembling
<1>4. ASSUME NEW f \in RawFrames, SendRaw(f) PROVE TypeOK' /\ BufferBounded'
  BY <1>4, FragmentAssumption DEF SendRaw, received, TypeOK, BufferBounded, Assembling
<1>5. CASE Elapse
  BY <1>5, Zenon DEF Elapse, TypeOK, BufferBounded, Assembling, NoFragment
<1>6. CASE UNCHANGED vars
  BY <1>6 DEF vars, received, TypeOK, BufferBounded, Assembling
<1>7. CASE Receive
  <2>t. Take
    BY <1>7 DEF Receive, ReceiveTooLarge, ReceiveControl, ReceiveStray, ReceiveWhole,
                ReceiveFirst, ReceiveLate, ReceiveContinuation, TakeFrame
  <2>f. /\ Incoming \in Frame /\ wire' \in Seq(Frame) /\ started' \in Nat /\ started <= started'
        /\ outgoing_fragments' = outgoing_fragments /\ raw' = raw /\ offered' = offered
    BY <2>t, TakeType
  <2>r. Refuse \/ refused' = refused
    BY <1>7, ReturnRefuses
       DEF Receive, ReceiveTooLarge, ReceiveControl, ReceiveStray, ReceiveWhole,
           ReceiveFirst, ReceiveLate, ReceiveContinuation
  <2>s. refused' \subseteq 0..started'
    BY <2>f, <2>r, RefusedType
  <2>d. Incoming.data \in Seq(Nat) /\ Len(Incoming.data) \in Nat
    BY <2>f DEF Frame
  <2>1. CASE UNCHANGED <<incoming_fragment, incoming_buffer>> /\ is_closed' \in BOOLEAN
    BY <2>1, <2>f, <2>s DEF TypeOK, BufferBounded, Assembling
  <2>2. CASE ReceiveFirst
    <3>1. ~FrameTooLarge(Incoming) /\ is_closed' = is_closed /\ Incoming.op \in {"Text", "Binary"}
          /\ ~Assembling /\ ~Incoming.fin
          /\ incoming_buffer' = Incoming.data
          /\ incoming_fragment' = [opcode |-> Incoming.op, bytes_read |-> Len(Incoming.data), late |-> FALSE]
      BY <2>2 DEF ReceiveFirst, TakeFrame, Starts
    <3>2. incoming_fragment.bytes_read = 0
      BY <3>1 DEF Assembling, NoFragment
    <3>3. ~IsControl(Incoming)
      BY <3>1 DEF IsControl, ControlOps
    <3>4. Len(Incoming.data) < MaxReadBuffer
      BY <3>1, <3>2, <3>3, <2>d, FragmentAssumption
         DEF FrameTooLarge, MaxOutputSize, remaining_read_capacity
    <3>5. QED BY <3>1, <3>4, <2>d, <2>f, <2>s, Zenon DEF TypeOK, BufferBounded, Assembling
  <2>3. CASE ReceiveLate
    <3>1. incoming_fragment' = NoFragment /\ incoming_buffer' = incoming_buffer /\ is_closed' = is_closed
      BY <2>3 DEF ReceiveLate, TakeFrame
    <3>2. QED BY <3>1, <2>f, <2>s DEF TypeOK, BufferBounded, Assembling, NoFragment
  <2>4. CASE ReceiveContinuation
    <3>1. /\ Assembling /\ is_closed' = is_closed
          /\ incoming_fragment.bytes_read + Len(Incoming.data) < MaxReadBuffer
      BY <2>4 DEF ReceiveContinuation, TakeFrame
    <3>2. CASE Incoming.fin
      <4>1. incoming_buffer' = << >> /\ incoming_fragment' = NoFragment
        BY <2>4, <3>2 DEF ReceiveContinuation
      <4>2. QED BY <3>1, <4>1, <2>f, <2>s DEF TypeOK, BufferBounded, Assembling, NoFragment
    <3>3. CASE ~Incoming.fin
      <4>1. /\ incoming_buffer' = incoming_buffer \o Incoming.data
            /\ incoming_fragment' = [incoming_fragment EXCEPT !.bytes_read = @ + Len(Incoming.data)]
        BY <2>4, <3>3 DEF ReceiveContinuation
      <4>2. Len(incoming_buffer') = Len(incoming_buffer) + Len(Incoming.data)
            /\ incoming_buffer' \in Seq(Nat)
        BY <4>1, <2>d, ConcatProperties DEF TypeOK
      <4>3. /\ incoming_fragment.bytes_read = Len(incoming_buffer) /\ Len(incoming_buffer) \in Nat
            /\ incoming_fragment.opcode \in {"Text", "Binary"}
        BY <3>1 DEF TypeOK
      <4>4. /\ incoming_fragment' \in [opcode : {"None", "Text", "Binary"}, bytes_read : Nat, late : BOOLEAN]
            /\ incoming_fragment'.bytes_read = Len(incoming_buffer')
            /\ incoming_fragment'.opcode # "None"
        <5>1. incoming_fragment \in [opcode : {"None", "Text", "Binary"}, bytes_read : Nat, late : BOOLEAN]
          BY DEF TypeOK
        <5>2. incoming_fragment' = [incoming_fragment EXCEPT !.bytes_read = Len(incoming_buffer')]
          BY <4>1, <4>2, <4>3
        <5>3. Len(incoming_buffer') \in Nat
          BY <4>2
        <5>4. QED BY <5>1, <5>2, <5>3, <4>3
      <4>5. BufferBounded'
        BY <3>1, <4>2, <4>3 DEF BufferBounded
      <4>6. QED BY <3>1, <4>2, <4>4, <4>5, <2>f, <2>s DEF TypeOK
    <3>4. QED BY <3>2, <3>3
  <2>5. CASE ReceiveTooLarge
    <3>1. is_closed' \in BOOLEAN
      BY <2>5, Zenon DEF ReceiveTooLarge
    <3>2. QED BY <2>1, <2>5, <3>1 DEF ReceiveTooLarge
  <2>6. CASE ReceiveControl \/ ReceiveStray \/ ReceiveWhole
    BY <2>1, <2>6 DEF ReceiveControl, ReceiveStray, ReceiveWhole, TakeFrame, TypeOK
  <2>7. QED BY <1>7, <2>2, <2>3, <2>4, <2>5, <2>6 DEF Receive
<1>8. QED BY <1>1, <1>2, <1>3, <1>4, <1>5, <1>6, <1>7 DEF Next

\* Whatever frames arrive, in whatever order, and whether or not the reader
\* goes on after an error, a message being assembled stays below
\* max_read_buffer and bytes_read counts it.
THEOREM BufferIsBounded == Spec => [](TypeOK /\ BufferBounded)
<1>1. Init => TypeOK /\ BufferBounded
  <2> SUFFICES ASSUME Init PROVE TypeOK /\ BufferBounded
    OBVIOUS
  <2>1. is_closed \in BOOLEAN /\ FALSE \in BOOLEAN
    BY Zenon DEF Init
  <2>2. NoFragment \in [opcode : {"None", "Text", "Binary"}, bytes_read : Nat, late : BOOLEAN]
    BY <2>1 DEF NoFragment
  <2>3. Len(incoming_buffer) = 0 /\ incoming_buffer \in Seq(Nat)
    BY DEF Init
  <2>4. BufferBounded
    BY <2>3, FragmentAssumption DEF BufferBounded
  <2>5. QED BY <2>1, <2>2, <2>3, <2>4 DEF Init, TypeOK, Assembling
<1>2. QED BY <1>1, FragmentInductive, PTL DEF Spec
=============================================================================
