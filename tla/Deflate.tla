------------------------------ MODULE Deflate ------------------------------
(***************************************************************************)
(* permessage-deflate on established connections.  Each connection is one  *)
(* direction: the sender's Compressor, the frames on the wire, and the     *)
(* receiver's Decompressor.  Compressors share one DeflatePool and         *)
(* decompressors another; a call takes its state from the pool, works on   *)
(* it and puts it back, with the calls of other connections in between.    *)
(*                                                                         *)
(* flate2 is external: LZ77 is reduced to what can go wrong with it.  A    *)
(* symbol is compressed to a token that may refer to any symbol within the *)
(* compressor's window, so that it comes out right only if the             *)
(* decompressor remembers the same symbols.  A window of b bits remembers  *)
(* b - 8 symbols.                                                          *)
(***************************************************************************)
EXTENDS Integers, Sequences
LOCAL INSTANCE FiniteSetsExt

CONSTANTS
    Connections,
    Configs,               \* what may have been negotiated, see Config
    Capacity,              \* of each queue of a pool
    compression_threshold,
    max_payload_read,      \* of a frame; the tighter limit of fragments is in FragmentLayer
    CompressZlib, InflateZlib,  \* is the side built with the zlib feature?
    MaxFrames, MaxFragment      \* bounds: frames in all, symbols per frame

Absent == -1
WINDOW_BITS == 9..15
Config == [no_context_takeover : BOOLEAN, window_bits : WINDOW_BITS \cup {Absent},
           level : Nat, pool : BOOLEAN, finishes : BOOLEAN]

\* The queue for a window size, and the window a new state is built with.
slot(window_bits, zlib) == IF zlib /\ window_bits # Absent THEN window_bits - 9
                           ELSE IF zlib THEN 6 ELSE 0
built_window(window_bits, zlib) == IF zlib /\ window_bits # Absent THEN window_bits ELSE 15
WINDOW_SIZES(zlib) == IF zlib THEN 7 ELSE 1

\* Negotiation!ContextsAgree is what both sides rely on.
ASSUME DeflateAssumption ==
    /\ Configs \subseteq Config
    /\ Capacity \in Nat /\ compression_threshold \in Nat /\ max_payload_read \in Nat
    /\ CompressZlib \in BOOLEAN /\ InflateZlib \in BOOLEAN
    /\ MaxFrames \in Nat /\ MaxFragment \in Nat
    /\ \A c \in Configs :
          built_window(c.window_bits, CompressZlib) <= built_window(c.window_bits, InflateZlib)

\* The i-th symbol of a connection's n-th frame.
Symbol == Connections \X Nat \X Nat
Garbage == << >>
Token == [kind : {"plain", "lz", "final"}, data : Symbol \cup {Garbage}, refs : Seq(Symbol \cup {Garbage})]
FinalBlock == [kind |-> "final", data |-> Garbage, refs |-> << >>]
Frame == [opcode : {"Data", "Continuation", "Control"}, fin : BOOLEAN,
          is_compressed : BOOLEAN, payload : Seq(Token)]

LastOf(s, n) == IF Len(s) <= n THEN s ELSE SubSeq(s, Len(s) - n + 1, Len(s))
Data(tokens) == [i \in 1..Len(tokens) |-> tokens[i].data]
\* A list of messages after one more frame.
Extended(messages, continues, data) ==
    IF continues
    THEN [messages EXCEPT ![Len(messages)] = messages[Len(messages)] \o data]
    ELSE Append(messages, data)

VARIABLES
    config,             \* of each connection
    deflate,            \* Compressor::deflate: << >> or <<state>>
    inflate,            \* Decompressor::inflate: << >> or <<state>>
    idle_deflate, idle_inflate, \* the queues of the two pools, by slot
    streaming,          \* WriteHalf::streaming
    compressed_stream,  \* ReadHalf::compressed_stream
    is_closed,          \* ReadHalf::is_closed
    wire,               \* frames on their way
    sending, receiving, \* the frame of the call in progress: << >> or <<frame>>
    frames, open,       \* of the application: frames sent, and is a message unfinished?
    offered,            \* history: the messages sent, the last one maybe in part
    arrived             \* history: the same for messages received

sender == <<deflate, idle_deflate, streaming, sending, frames, open, offered>>
receiver == <<inflate, idle_inflate, compressed_stream, is_closed, receiving, arrived>>
vars == <<config, wire, sender, receiver>>

NewDeflate(c) ==
    [level |-> config[c].level, window |-> built_window(config[c].window_bits, CompressZlib),
     seen |-> << >>, pending |-> << >>]
NewInflate(c) ==
    [window |-> built_window(config[c].window_bits, InflateZlib),
     seen |-> << >>, held |-> << >>, stream_ended |-> FALSE]

Init ==
    /\ config \in [Connections -> Configs]
    /\ deflate = [c \in Connections |-> << >>] /\ inflate = [c \in Connections |-> << >>]
    /\ idle_deflate = [s \in 0..WINDOW_SIZES(CompressZlib) - 1 |-> << >>]
    /\ idle_inflate = [s \in 0..WINDOW_SIZES(InflateZlib) - 1 |-> << >>]
    /\ streaming = [c \in Connections |-> FALSE]
    /\ compressed_stream = [c \in Connections |-> FALSE]
    /\ is_closed = [c \in Connections |-> FALSE]
    /\ wire = [c \in Connections |-> << >>]
    /\ sending = [c \in Connections |-> << >>] /\ receiving = [c \in Connections |-> << >>]
    /\ frames = [c \in Connections |-> 0] /\ open = [c \in Connections |-> FALSE]
    /\ offered = [c \in Connections |-> << >>] /\ arrived = [c \in Connections |-> << >>]

-----------------------------------------------------------------------------
(* The pool. *)

\* take_deflate, take_inflate: a compressor of another level is popped and dropped.
Pooled(c) == config[c].no_context_takeover /\ config[c].pool
TakeDeflate(c) ==
    LET s == slot(config[c].window_bits, CompressZlib)
        queue == idle_deflate[s]
    IN IF deflate[c] # << >> THEN UNCHANGED <<deflate, idle_deflate>>
       ELSE IF Pooled(c) /\ queue # << >>
       THEN /\ idle_deflate' = [idle_deflate EXCEPT ![s] = Tail(queue)]
            /\ deflate' = [deflate EXCEPT ![c] =
                    IF Head(queue).level = config[c].level THEN <<Head(queue)>> ELSE <<NewDeflate(c)>>]
       ELSE deflate' = [deflate EXCEPT ![c] = <<NewDeflate(c)>>] /\ UNCHANGED idle_deflate
TakeInflate(c) ==
    LET s == slot(config[c].window_bits, InflateZlib)
        queue == idle_inflate[s]
    IN IF inflate[c] # << >> THEN UNCHANGED <<inflate, idle_inflate>>
       ELSE IF Pooled(c) /\ queue # << >>
       THEN /\ idle_inflate' = [idle_inflate EXCEPT ![s] = Tail(queue)]
            /\ inflate' = [inflate EXCEPT ![c] = <<Head(queue)>>]
       ELSE inflate' = [inflate EXCEPT ![c] = <<NewInflate(c)>>] /\ UNCHANGED idle_inflate

\* (fault) A full queue takes one more.
putUnbounded(queue, state) == Append(queue, state)
put(queue, state) == IF Len(queue) < Capacity THEN Append(queue, state) ELSE queue

\* (fault) The dictionary is kept.
resetDeflateNot(d) == d
resetDeflate(d) == [level |-> d.level, window |-> d.window, seen |-> << >>, pending |-> << >>]
\* (fault) That the stream has ended is not forgotten.
resetInflateEnded(i) == [i EXCEPT !.seen = << >>, !.held = << >>]
resetInflate(i) == [window |-> i.window, seen |-> << >>, held |-> << >>, stream_ended |-> FALSE]

\* The end of compress and of decompress: with flush or stream_end a state without
\* context takeover is reset and, with a pool and no error, put back.
StoreDeflate(c, d, flush) ==
    IF flush /\ Pooled(c)
    THEN LET s == slot(config[c].window_bits, CompressZlib)
         IN /\ deflate' = [deflate EXCEPT ![c] = << >>]
            /\ idle_deflate' = [idle_deflate EXCEPT ![s] = put(@, resetDeflate(d))]
    ELSE /\ deflate' = [deflate EXCEPT ![c] =
                IF flush /\ config[c].no_context_takeover THEN <<resetDeflate(d)>> ELSE <<d>>]
         /\ UNCHANGED idle_deflate
\* (fault) State is kept by the connection when its message is done.
StoreInflateKept(c, i, stream_end, ok) ==
    /\ inflate' = [inflate EXCEPT ![c] =
          IF stream_end /\ config[c].no_context_takeover THEN <<resetInflate(i)>> ELSE <<i>>]
    /\ UNCHANGED idle_inflate
StoreInflate(c, i, stream_end, ok) ==
    IF stream_end /\ Pooled(c) /\ ok
    THEN LET s == slot(config[c].window_bits, InflateZlib)
         IN /\ inflate' = [inflate EXCEPT ![c] = << >>]
            /\ idle_inflate' = [idle_inflate EXCEPT ![s] = put(@, resetInflate(i))]
    ELSE /\ inflate' = [inflate EXCEPT ![c] =
                IF stream_end /\ config[c].no_context_takeover THEN <<resetInflate(i)>> ELSE <<i>>]
         /\ UNCHANGED idle_inflate

-----------------------------------------------------------------------------
(* The sender: Streaming::start_send, in two steps around the pool. *)

Plain(data) == [i \in 1..Len(data) |-> [kind |-> "plain", data |-> data[i], refs |-> << >>]]
Encoded(d, data) ==
    [i \in 1..Len(data) |->
        [kind |-> "lz", data |-> data[i],
         refs |-> LastOf(d.seen \o SubSeq(data, 1, i - 1), d.window - 8)]]

SmallMessage(f) ==
    f.opcode # "Continuation" /\ f.fin /\ Len(f.payload) < compression_threshold

\* The frames of all connections; a dropped one has MaxFrames + 1 on top.
Spent == MapThenSumSet(LAMBDA c : frames[c] % (MaxFrames + 1), Connections)

\* The application sends a frame of data; a compressor is found for it.
BeginSend(c) ==
    /\ sending[c] = << >> /\ frames[c] <= MaxFrames /\ Spent < MaxFrames
    /\ \E n \in 0..MaxFragment, fin \in BOOLEAN :
          LET data == [i \in 1..n |-> <<c, frames[c], i>>]
              f == [opcode |-> IF open[c] THEN "Continuation" ELSE "Data", fin |-> fin,
                    is_compressed |-> FALSE, payload |-> Plain(data)]
          IN /\ sending' = [sending EXCEPT ![c] = <<f>>]
             /\ open' = [open EXCEPT ![c] = ~fin]
             /\ offered' = [offered EXCEPT ![c] = Extended(@, open[c], data)]
             /\ IF SmallMessage(f) THEN UNCHANGED <<deflate, idle_deflate>> ELSE TakeDeflate(c)
    /\ frames' = [frames EXCEPT ![c] = @ + 1]
    /\ UNCHANGED <<config, wire, streaming, receiver>>

\* WriteHalf::start_send.
Write(c, f) ==
    /\ wire' = [wire EXCEPT ![c] = Append(@, f)]
    /\ streaming' = IF f.opcode = "Control" THEN streaming ELSE [streaming EXCEPT ![c] = ~f.fin]

\* A small message goes out as it is.
SendPlain(c) ==
    /\ sending[c] # << >> /\ SmallMessage(Head(sending[c]))
    /\ Write(c, Head(sending[c]))
    /\ sending' = [sending EXCEPT ![c] = << >>]
    /\ UNCHANGED <<config, deflate, idle_deflate, frames, open, offered, receiver>>

\* Compressor::compress: without flush some of the output may stay behind.  A
\* sender of another kind may end its stream with a final block and start anew.
SendCompressed(c) ==
    /\ sending[c] # << >> /\ ~SmallMessage(Head(sending[c]))
    /\ LET f == Head(sending[c])
           d == Head(deflate[c])
           output == d.pending \o Encoded(d, Data(f.payload))
       IN \E k \in (IF f.fin THEN {Len(output)} ELSE 0..Len(output)),
             final \in (IF f.fin /\ config[c].finishes THEN BOOLEAN ELSE {FALSE}) :
            LET left == [level |-> d.level, window |-> d.window,
                         seen |-> LastOf(d.seen \o Data(f.payload), d.window - 8),
                         pending |-> SubSeq(output, k + 1, Len(output))]
            IN /\ StoreDeflate(c, IF final THEN resetDeflate(left) ELSE left, f.fin)
               /\ Write(c, [f EXCEPT !.is_compressed = ~streaming[c],
                                     !.payload = SubSeq(output, 1, k)
                                                 \o IF final THEN <<FinalBlock>> ELSE << >>])
    /\ sending' = [sending EXCEPT ![c] = << >>]
    /\ UNCHANGED <<config, frames, open, offered, receiver>>

\* A Ping or Pong, also between two fragments.
SendControl(c) ==
    /\ sending[c] = << >> /\ frames[c] <= MaxFrames /\ Spent < MaxFrames
    /\ Write(c, [opcode |-> "Control", fin |-> TRUE, is_compressed |-> FALSE, payload |-> << >>])
    /\ frames' = [frames EXCEPT ![c] = @ + 1]
    /\ UNCHANGED <<config, deflate, idle_deflate, sending, open, offered, receiver>>

-----------------------------------------------------------------------------
(* The receiver: ReadHalf::poll_frame and Streaming::on_frame, likewise. *)

\* What an inflater makes of the tokens it works on: nothing behind a final block.
Usable(i, tokens) ==
    {j \in 1..Len(tokens) : ~i.stream_ended /\ \A k \in 1..j : tokens[k].kind # "final"}
Decoded(i, tokens) ==
    [j \in Usable(i, tokens) |->
        LET refs == tokens[j].refs
            history == i.seen \o Data(SubSeq(tokens, 1, j - 1))
        IN IF /\ tokens[j].kind = "lz"
              /\ Len(refs) <= i.window - 8
              /\ LastOf(history, Len(refs)) = refs
           THEN tokens[j].data ELSE Garbage]
Copied(tokens) ==
    [j \in 1..Len(tokens) |-> IF tokens[j].kind = "plain" THEN tokens[j].data ELSE Garbage]

\* (fault) The last fragment leaves the flag set.
StillCompressed(f, compressed, before) ==
    before \/ (f.opcode = "Data" /\ ~f.fin /\ compressed)
\* poll_frame: is the next frame part of a compressed message?
NextCompressed(f, compressed, before) ==
    /\ ~(f.opcode = "Continuation" /\ f.fin)
    /\ before \/ (f.opcode = "Data" /\ ~f.fin /\ compressed)

BeginReceive(c) ==
    /\ ~is_closed[c] /\ receiving[c] = << >> /\ wire[c] # << >>
    /\ LET f == Head(wire[c])
           compressed == f.is_compressed \/ (f.opcode # "Control" /\ compressed_stream[c])
       IN /\ receiving' = [receiving EXCEPT ![c] =
                IF f.opcode = "Control" THEN << >> ELSE <<[f EXCEPT !.is_compressed = compressed]>>]
          /\ compressed_stream' = [compressed_stream EXCEPT ![c] = NextCompressed(f, compressed, @)]
          /\ IF f.opcode # "Control" /\ compressed THEN TakeInflate(c)
             ELSE UNCHANGED <<inflate, idle_inflate>>
    /\ wire' = [wire EXCEPT ![c] = Tail(@)]
    /\ UNCHANGED <<config, is_closed, arrived, sender>>

\* The payload is returned, or is too large and ends the reading.
TooLarge(data) == Len(data) >= max_payload_read
Deliver(c, f, data) ==
    IF TooLarge(data)
    THEN is_closed' = [is_closed EXCEPT ![c] = TRUE] /\ UNCHANGED arrived
    ELSE /\ arrived' = [arrived EXCEPT ![c] = Extended(@, f.opcode = "Continuation", data)]
         /\ UNCHANGED is_closed

ReceivePlain(c) ==
    /\ receiving[c] # << >> /\ ~Head(receiving[c]).is_compressed
    /\ Deliver(c, Head(receiving[c]), Copied(Head(receiving[c]).payload))
    /\ receiving' = [receiving EXCEPT ![c] = << >>]
    /\ UNCHANGED <<config, wire, inflate, idle_inflate, compressed_stream, sender>>

\* Decompressor::decompress: at the end of a message everything comes out, and a
\* stream that ended is started anew.
ReceiveCompressed(c) ==
    /\ receiving[c] # << >> /\ Head(receiving[c]).is_compressed
    /\ LET f == Head(receiving[c])
           i == Head(inflate[c])
           input == i.held \o f.payload
       IN \E k \in (IF f.fin THEN {Len(input)} ELSE 0..Len(input)) :
            LET tokens == SubSeq(input, 1, k)
                data == Decoded(i, tokens)
                ended == i.stream_ended \/ \E j \in 1..k : tokens[j].kind = "final"
                left == [window |-> i.window, seen |-> LastOf(i.seen \o data, i.window - 8),
                         held |-> SubSeq(input, k + 1, Len(input)), stream_ended |-> ended]
                ok == ~TooLarge(data)
            IN /\ Deliver(c, f, data)
               /\ StoreInflate(c, IF f.fin /\ ended /\ ok THEN resetInflate(left) ELSE left, f.fin, ok)
    /\ receiving' = [receiving EXCEPT ![c] = << >>]
    /\ UNCHANGED <<config, wire, compressed_stream, sender>>

\* A connection is dropped between two calls, with whatever state it holds.
Drop(c) ==
    /\ sending[c] = << >> /\ receiving[c] = << >> /\ frames[c] \in 1..MaxFrames
    /\ deflate' = [deflate EXCEPT ![c] = << >>] /\ inflate' = [inflate EXCEPT ![c] = << >>]
    /\ wire' = [wire EXCEPT ![c] = << >>]
    /\ is_closed' = [is_closed EXCEPT ![c] = TRUE]
    /\ frames' = [frames EXCEPT ![c] = @ + MaxFrames + 1]
    /\ UNCHANGED <<config, idle_deflate, idle_inflate, streaming, compressed_stream, sending,
                   receiving, open, offered, arrived>>

Next ==
    \E c \in Connections :
        \/ BeginSend(c) \/ SendPlain(c) \/ SendCompressed(c) \/ SendControl(c)
        \/ BeginReceive(c) \/ ReceivePlain(c) \/ ReceiveCompressed(c)
        \/ Drop(c)
Spec == Init /\ [][Next]_vars

-----------------------------------------------------------------------------
(* Properties. *)

FreshDeflate(d) == d.seen = << >> /\ d.pending = << >>
FreshInflate(i) == i.seen = << >> /\ i.held = << >> /\ ~i.stream_ended

TypeOK ==
    /\ config \in [Connections -> Configs]
    /\ \A s \in DOMAIN idle_deflate : Len(idle_deflate[s]) <= Capacity
    /\ \A s \in DOMAIN idle_inflate : Len(idle_inflate[s]) <= Capacity
    /\ \A c \in Connections :
          /\ Len(deflate[c]) <= 1 /\ Len(inflate[c]) <= 1
          /\ sending[c] \in Seq(Frame) /\ receiving[c] \in Seq(Frame) /\ wire[c] \in Seq(Frame)
          /\ frames[c] \in 0..(2 * MaxFrames + 1)
          /\ offered[c] \in Seq(Seq(Symbol)) /\ arrived[c] \in Seq(Seq(Symbol \cup {Garbage}))

\* Compressor and Decompressor over the wire: the symbols that arrived are those
\* that were sent, message by message and in order, whatever was skipped by the
\* threshold, cut into fragments, interrupted by control frames or finished.
MessagesIntact ==
    \A c \in Connections :
        /\ Len(arrived[c]) <= Len(offered[c])
        /\ \A n \in 1..Len(arrived[c]) :
              /\ Len(arrived[c][n]) <= Len(offered[c][n])
              /\ arrived[c][n] = SubSeq(offered[c][n], 1, Len(arrived[c][n]))

\* At the end of a message nothing of it is left in either state: a receiver that
\* has read everything has every symbol.
MessagesWhole ==
    \A c \in Connections :
        ~is_closed[c] /\ ~open[c] /\ sending[c] = << >> /\ receiving[c] = << >> /\ wire[c] = << >>
            => arrived[c] = offered[c]

\* put_deflate, put_inflate: what waits in the pool carries nothing over from the
\* connection that used it, and has the window of its queue.
PoolClean ==
    /\ \A s \in DOMAIN idle_deflate : \A n \in 1..Len(idle_deflate[s]) :
          FreshDeflate(idle_deflate[s][n])
          /\ idle_deflate[s][n].window = IF CompressZlib THEN s + 9 ELSE 15
    /\ \A s \in DOMAIN idle_inflate : \A n \in 1..Len(idle_inflate[s]) :
          FreshInflate(idle_inflate[s][n])
          /\ idle_inflate[s][n].window = IF InflateZlib THEN s + 9 ELSE 15

\* DeflatePool: "a connection only needs deflate state while a message is being
\* compressed or decompressed"; between messages it holds none.
IdleHoldsNothing ==
    \A c \in Connections : Pooled(c) =>
        /\ deflate[c] # << >> => streaming[c] \/ sending[c] # << >>
        /\ inflate[c] # << >> => compressed_stream[c] \/ receiving[c] # << >> \/ is_closed[c]
=============================================================================
