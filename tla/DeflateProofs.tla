--------------------------- MODULE DeflateProofs ---------------------------
(***************************************************************************)
(* What waits in a pool is as good as new, and an idle connection holds no *)
(* state, for any number of connections and any sizes.                     *)
(***************************************************************************)
EXTENDS Deflate, TLAPS, SequenceTheorems

SymbolOrGarbage == Symbol \cup {Garbage}
DeflateState ==
    [level : Nat, window : WINDOW_BITS, seen : Seq(SymbolOrGarbage), pending : Seq(Token)]
InflateWith(window, seen, held, stream_ended) ==
    [window |-> window, seen |-> seen, held |-> held, stream_ended |-> stream_ended]

Slots(zlib) == 0..WINDOW_SIZES(zlib) - 1
SlotWindow(s, zlib) == IF zlib THEN s + 9 ELSE 15
CompressWindow(c) == built_window(config[c].window_bits, CompressZlib)
InflateWindow(c) == built_window(config[c].window_bits, InflateZlib)

\* The states a slot may hold.
CleanDeflate(s) == {d \in DeflateState : FreshDeflate(d) /\ d.window = SlotWindow(s, CompressZlib)}
CleanInflate(s) == {InflateWith(SlotWindow(s, InflateZlib), << >>, << >>, FALSE)}

\* A state, or none; a frame, or none.
HasDeflate(c) == \E d \in DeflateState : deflate[c] = <<d>> /\ d.window = CompressWindow(c)
HasInflate(c) == \E s, h : \E e \in BOOLEAN : inflate[c] = <<InflateWith(InflateWindow(c), s, h, e)>>
IsFrame(o) == \E f \in Frame : o = <<f>> /\ f.opcode # "Control"

\* The queues hold clean states only.
QueuesClean ==
    /\ DOMAIN idle_deflate = Slots(CompressZlib) /\ DOMAIN idle_inflate = Slots(InflateZlib)
    /\ \A s \in Slots(CompressZlib) : idle_deflate[s] \in Seq(CleanDeflate(s))
    /\ \A s \in Slots(InflateZlib) : idle_inflate[s] \in Seq(CleanInflate(s))

\* The sender of a connection: a frame that is to be compressed has a state, and
\* the opcode of the frame agrees with streaming, as do the frames on the wire.
SenderInv(c) ==
    /\ deflate[c] = << >> \/ HasDeflate(c)
    /\ sending[c] = << >> \/ IsFrame(sending[c])
    /\ streaming[c] \in BOOLEAN /\ open[c] \in BOOLEAN
    /\ sending[c] = << >> => (open[c] <=> streaming[c])
    /\ sending[c] # << >> =>
          /\ Head(sending[c]).opcode = "Continuation" <=> streaming[c]
          /\ open[c] <=> ~Head(sending[c]).fin
          /\ ~SmallMessage(Head(sending[c])) => deflate[c] # << >>
    /\ Pooled(c) /\ deflate[c] # << >> =>
          streaming[c] \/ (sending[c] # << >> /\ ~SmallMessage(Head(sending[c])))

WireInv(c) ==
    /\ wire[c] \in Seq(Frame)
    /\ \A n \in 1..Len(wire[c]) : wire[c][n].opcode = "Continuation" => ~wire[c][n].is_compressed

\* The receiver: likewise, and inside a compressed message the flag is set.
ReceiverInv(c) ==
    /\ inflate[c] = << >> \/ HasInflate(c)
    /\ receiving[c] = << >> \/ IsFrame(receiving[c])
    /\ compressed_stream[c] \in BOOLEAN /\ is_closed[c] \in BOOLEAN
    /\ receiving[c] # << >> /\ Head(receiving[c]).is_compressed =>
          inflate[c] # << >> /\ (~Head(receiving[c]).fin => compressed_stream[c])
    /\ Pooled(c) /\ inflate[c] # << >> =>
          \/ compressed_stream[c] \/ is_closed[c]
          \/ receiving[c] # << >> /\ Head(receiving[c]).is_compressed

Domains ==
    /\ config \in [Connections -> Configs]
    /\ DOMAIN deflate = Connections /\ DOMAIN sending = Connections /\ DOMAIN streaming = Connections
    /\ DOMAIN open = Connections /\ DOMAIN wire = Connections /\ frames \in [Connections -> Nat]
    /\ DOMAIN inflate = Connections /\ DOMAIN receiving = Connections
    /\ DOMAIN compressed_stream = Connections /\ DOMAIN is_closed = Connections

PoolInv ==
    /\ Domains /\ QueuesClean
    /\ \A c \in Connections : SenderInv(c) /\ WireInv(c) /\ ReceiverInv(c)

-----------------------------------------------------------------------------
(* Slots and typing. *)

\* The queue a connection uses is one for the window it negotiated.
LEMMA SlotOf ==
    ASSUME NEW bits \in WINDOW_BITS \cup {Absent}, NEW zlib \in BOOLEAN
    PROVE  /\ slot(bits, zlib) \in Slots(zlib)
           /\ SlotWindow(slot(bits, zlib), zlib) = built_window(bits, zlib)
           /\ built_window(bits, zlib) \in WINDOW_BITS
  BY DEF slot, Slots, SlotWindow, built_window, WINDOW_SIZES, WINDOW_BITS, Absent

\* What a negotiated configuration holds.
LEMMA ConfigOf ==
    ASSUME Domains, NEW c \in Connections
    PROVE  /\ config[c].window_bits \in WINDOW_BITS \cup {Absent} /\ config[c].level \in Nat
           /\ config[c].no_context_takeover \in BOOLEAN /\ config[c].pool \in BOOLEAN
           /\ CompressWindow(c) \in WINDOW_BITS /\ InflateWindow(c) \in WINDOW_BITS
  <1>1. config[c] \in Config
    BY DeflateAssumption DEF Domains
  <1> QED  BY <1>1, SlotOf, DeflateAssumption DEF Config, CompressWindow, InflateWindow

\* The end of a sequence is a sequence of the same things ...
LEMMA LastOfType ==
    ASSUME NEW S, NEW s \in Seq(S), NEW n \in Nat
    PROVE  LastOf(s, n) \in Seq(S)
  <1>1. \A i \in Len(s) - n + 1 .. Len(s) : Len(s) > n => s[i] \in S
    OBVIOUS
  <1>2. Len(s) > n => SubSeq(s, Len(s) - n + 1, Len(s)) \in Seq(S)
    BY <1>1, SubSeqProperties
  <1> QED  BY <1>2 DEF LastOf

\* ... and so are the two parts of one that is cut.
LEMMA PartType ==
    ASSUME NEW S, NEW s \in Seq(S), NEW k \in 0..Len(s)
    PROVE  SubSeq(s, 1, k) \in Seq(S) /\ SubSeq(s, k + 1, Len(s)) \in Seq(S)
  <1>1. /\ \A i \in 1..k : s[i] \in S
        /\ \A i \in k + 1 .. Len(s) : s[i] \in S
    OBVIOUS
  <1> QED  BY <1>1, SubSeqProperties

\* Tokens carry symbols.
LEMMA DataType ==
    ASSUME NEW tokens \in Seq(Token)
    PROVE  Data(tokens) \in Seq(SymbolOrGarbage)
  <1>1. ASSUME NEW i \in 1..Len(tokens)  PROVE tokens[i].data \in SymbolOrGarbage
    <2>1. tokens[i] \in Token
      OBVIOUS
    <2> QED  BY <2>1, Zenon DEF Token, SymbolOrGarbage
  <1> QED  BY <1>1 DEF Data

\* Compressing symbols gives tokens.
LEMMA EncodedType ==
    ASSUME NEW d \in DeflateState, NEW data \in Seq(SymbolOrGarbage)
    PROVE  Encoded(d, data) \in Seq(Token)
  <1>1. ASSUME NEW i \in 1..Len(data)
        PROVE  LastOf(d.seen \o SubSeq(data, 1, i - 1), d.window - 8) \in Seq(SymbolOrGarbage)
    <2>1. SubSeq(data, 1, i - 1) \in Seq(SymbolOrGarbage)
      BY PartType
    <2>2. d.seen \o SubSeq(data, 1, i - 1) \in Seq(SymbolOrGarbage)
      BY <2>1 DEF DeflateState
    <2>3. d.window - 8 \in Nat
      BY DEF DeflateState, WINDOW_BITS
    <2> QED  BY <2>2, <2>3, LastOfType, Zenon
  <1> DEFINE tok(i) == [kind |-> "lz", data |-> data[i],
                        refs |-> LastOf(d.seen \o SubSeq(data, 1, i - 1), d.window - 8)]
  <1>2. \A i \in 1..Len(data) : tok(i) \in Token
    BY <1>1 DEF Token, SymbolOrGarbage
  <1>3. Encoded(d, data) = [i \in 1..Len(data) |-> tok(i)]
    BY DEF Encoded
  <1> HIDE DEF tok
  <1> QED  BY <1>2, <1>3

-----------------------------------------------------------------------------
(* The pool: taking a state and storing it keep the queues clean. *)

\* A compressor is found, in the pool or a new one, with the right window.
LEMMA DeflateTaken ==
    ASSUME PoolInv, NEW c \in Connections, TakeDeflate(c), UNCHANGED config
    PROVE  /\ DOMAIN deflate' = Connections /\ HasDeflate(c)'
           /\ \A k \in Connections \ {c} : deflate'[k] = deflate[k]
           /\ DOMAIN idle_deflate' = Slots(CompressZlib)
           /\ \A s \in Slots(CompressZlib) : idle_deflate'[s] \in Seq(CleanDeflate(s))
  <1> DEFINE s == slot(config[c].window_bits, CompressZlib)
             queue == idle_deflate[s]
  <1>1. s \in Slots(CompressZlib) /\ SlotWindow(s, CompressZlib) = CompressWindow(c)
    BY ConfigOf, SlotOf, DeflateAssumption, Zenon DEF PoolInv, CompressWindow
  <1>2. queue \in Seq(CleanDeflate(s)) /\ DOMAIN idle_deflate = Slots(CompressZlib)
    BY <1>1 DEF PoolInv, QueuesClean
  <1>3. NewDeflate(c) \in DeflateState /\ NewDeflate(c).window = CompressWindow(c)
    BY ConfigOf DEF PoolInv, NewDeflate, DeflateState, CompressWindow
  <1>4. \A d \in CleanDeflate(s) : d \in DeflateState /\ d.window = CompressWindow(c)
    BY <1>1 DEF CleanDeflate
  <1>5. CompressWindow(c)' = CompressWindow(c)
    BY DEF CompressWindow
  <1>6. DOMAIN deflate = Connections /\ (deflate[c] = << >> \/ HasDeflate(c))
    BY DEF PoolInv, Domains, SenderInv
  <1>7. CASE deflate[c] # << >>
    <2>1. UNCHANGED <<deflate, idle_deflate>>
      BY <1>7, Zenon DEF TakeDeflate
    <2> QED  BY <1>5, <1>6, <1>7, <2>1 DEF HasDeflate, PoolInv, QueuesClean
  <1>8. CASE deflate[c] = << >> /\ Pooled(c) /\ queue # << >>
    <2> HIDE DEF s
    <2>1. Head(queue) \in CleanDeflate(s) /\ Tail(queue) \in Seq(CleanDeflate(s))
      BY <1>2, <1>8, HeadTailProperties
    <2>2. \E d \in DeflateState : /\ d.window = CompressWindow(c)
                                 /\ deflate' = [deflate EXCEPT ![c] = <<d>>]
      BY <1>3, <1>4, <1>8, <2>1, Zenon DEF TakeDeflate, s
    <2>3. idle_deflate' = [idle_deflate EXCEPT ![s] = Tail(queue)]
      BY <1>8, Zenon DEF TakeDeflate, s
    <2> HIDE DEF queue
    <2>4. \A t \in Slots(CompressZlib) : idle_deflate'[t] \in Seq(CleanDeflate(t))
      BY <1>1, <1>2, <2>1, <2>3 DEF PoolInv, QueuesClean
    <2> QED  BY <1>2, <1>5, <1>6, <2>2, <2>3, <2>4 DEF HasDeflate
  <1>9. CASE deflate[c] = << >> /\ ~(Pooled(c) /\ queue # << >>)
    <2>1. deflate' = [deflate EXCEPT ![c] = <<NewDeflate(c)>>] /\ UNCHANGED idle_deflate
      BY <1>9, Zenon DEF TakeDeflate
    <2> QED  BY <1>3, <1>5, <1>6, <2>1 DEF HasDeflate, PoolInv, QueuesClean
  <1> QED  BY <1>7, <1>8, <1>9, Zenon

\* A compressor that is put back is clean; one that is kept has its window.
LEMMA DeflateStored ==
    ASSUME PoolInv, NEW c \in Connections, NEW d \in DeflateState, d.window = CompressWindow(c),
           NEW flush \in BOOLEAN, StoreDeflate(c, d, flush), UNCHANGED config
    PROVE  /\ DOMAIN deflate' = Connections /\ (deflate'[c] = << >> \/ HasDeflate(c)')
           /\ flush /\ Pooled(c) => deflate'[c] = << >>
           /\ \A k \in Connections \ {c} : deflate'[k] = deflate[k]
           /\ DOMAIN idle_deflate' = Slots(CompressZlib)
           /\ \A s \in Slots(CompressZlib) : idle_deflate'[s] \in Seq(CleanDeflate(s))
  <1> DEFINE s == slot(config[c].window_bits, CompressZlib)
             r == resetDeflate(d)
  <1>1. s \in Slots(CompressZlib) /\ SlotWindow(s, CompressZlib) = CompressWindow(c)
    BY ConfigOf, SlotOf, DeflateAssumption, Zenon DEF PoolInv, CompressWindow
  <1>2. r \in DeflateState /\ FreshDeflate(r) /\ r.window = CompressWindow(c)
    <2>1. r = [level |-> d.level, window |-> d.window, seen |-> << >>, pending |-> << >>]
      BY DEF resetDeflate
    <2>2. d.level \in Nat /\ d.window \in WINDOW_BITS
      BY DEF DeflateState
    <2>3. << >> \in Seq(SymbolOrGarbage) /\ << >> \in Seq(Token)
      OBVIOUS
    <2>4. r \in DeflateState
      BY <2>1, <2>2, <2>3 DEF DeflateState
    <2> QED  BY <2>1, <2>4 DEF FreshDeflate
  <1>3. r \in CleanDeflate(s)
    BY <1>1, <1>2 DEF CleanDeflate
  <1>4. CompressWindow(c)' = CompressWindow(c)
    BY DEF CompressWindow
  <1>5. DOMAIN deflate = Connections /\ QueuesClean
    BY DEF PoolInv, Domains
  <1>6. CASE flush /\ Pooled(c)
    <2>1. /\ deflate' = [deflate EXCEPT ![c] = << >>]
          /\ idle_deflate' = [idle_deflate EXCEPT ![s] = put(idle_deflate[s], r)]
      BY <1>6, Zenon DEF StoreDeflate
    <2> HIDE DEF s, r
    <2>2. put(idle_deflate[s], r) \in Seq(CleanDeflate(s))
      BY <1>1, <1>3, <1>5 DEF put, QueuesClean
    <2>3. \A t \in Slots(CompressZlib) : idle_deflate'[t] \in Seq(CleanDeflate(t))
      BY <1>1, <1>5, <2>1, <2>2 DEF QueuesClean
    <2> QED  BY <1>5, <2>1, <2>3 DEF QueuesClean
  <1>7. CASE ~(flush /\ Pooled(c))
    <2>1. \E e \in DeflateState : e.window = CompressWindow(c) /\ deflate' = [deflate EXCEPT ![c] = <<e>>]
      BY <1>2, <1>7, Zenon DEF StoreDeflate
    <2>2. UNCHANGED idle_deflate
      BY <1>7, Zenon DEF StoreDeflate
    <2> QED  BY <1>4, <1>5, <1>7, <2>1, <2>2 DEF QueuesClean, HasDeflate
  <1> QED  BY <1>6, <1>7, Zenon

\* The same for a decompressor that is taken ...
LEMMA InflateTaken ==
    ASSUME PoolInv, NEW c \in Connections, TakeInflate(c), UNCHANGED config
    PROVE  /\ DOMAIN inflate' = Connections /\ HasInflate(c)'
           /\ \A k \in Connections \ {c} : inflate'[k] = inflate[k]
           /\ DOMAIN idle_inflate' = Slots(InflateZlib)
           /\ \A s \in Slots(InflateZlib) : idle_inflate'[s] \in Seq(CleanInflate(s))
  <1> DEFINE s == slot(config[c].window_bits, InflateZlib)
             queue == idle_inflate[s]
             new == InflateWith(InflateWindow(c), << >>, << >>, FALSE)
  <1>1. s \in Slots(InflateZlib) /\ SlotWindow(s, InflateZlib) = InflateWindow(c)
    BY ConfigOf, SlotOf, DeflateAssumption, Zenon DEF PoolInv, InflateWindow
  <1>2. queue \in Seq(CleanInflate(s)) /\ DOMAIN idle_inflate = Slots(InflateZlib)
    BY <1>1 DEF PoolInv, QueuesClean
  <1>3. NewInflate(c) = new
    BY DEF NewInflate, InflateWith, InflateWindow
  <1>4. \A i \in CleanInflate(s) : i = new
    BY <1>1 DEF CleanInflate
  <1>5. InflateWindow(c)' = InflateWindow(c)
    BY DEF InflateWindow
  <1>6. DOMAIN inflate = Connections /\ (inflate[c] = << >> \/ HasInflate(c))
    BY DEF PoolInv, Domains, ReceiverInv
  <1>7. inflate' = [inflate EXCEPT ![c] = <<new>>] => HasInflate(c)'
    <2> HAVE inflate' = [inflate EXCEPT ![c] = <<new>>]
    <2>1. inflate'[c] = <<InflateWith(InflateWindow(c)', << >>, << >>, FALSE)>>
      BY <1>5, <1>6, Zenon
    <2> QED  BY <2>1, Zenon DEF HasInflate
  <1>8. CASE inflate[c] # << >>
    <2>1. UNCHANGED <<inflate, idle_inflate>>
      BY <1>8, Zenon DEF TakeInflate
    <2>2. HasInflate(c)'
      BY <1>5, <1>6, <1>8, <2>1, Zenon DEF HasInflate
    <2> QED  BY <1>6, <2>1, <2>2 DEF PoolInv, QueuesClean
  <1>9. CASE inflate[c] = << >> /\ Pooled(c) /\ queue # << >>
    <2> HIDE DEF s
    <2>1. Head(queue) \in CleanInflate(s) /\ Tail(queue) \in Seq(CleanInflate(s))
      BY <1>2, <1>9, HeadTailProperties
    <2>2. inflate' = [inflate EXCEPT ![c] = <<new>>]
      BY <1>4, <1>9, <2>1, Zenon DEF TakeInflate, s
    <2>3. idle_inflate' = [idle_inflate EXCEPT ![s] = Tail(queue)]
      BY <1>9, Zenon DEF TakeInflate, s
    <2> HIDE DEF queue, new
    <2>4. \A t \in Slots(InflateZlib) : idle_inflate'[t] \in Seq(CleanInflate(t))
      BY <1>1, <1>2, <2>1, <2>3 DEF PoolInv, QueuesClean
    <2> QED  BY <1>2, <1>6, <1>7, <2>2, <2>3, <2>4
  <1>10. CASE inflate[c] = << >> /\ ~(Pooled(c) /\ queue # << >>)
    <2>1. inflate' = [inflate EXCEPT ![c] = <<new>>] /\ UNCHANGED idle_inflate
      BY <1>3, <1>10, Zenon DEF TakeInflate
    <2> HIDE DEF new
    <2> QED  BY <1>6, <1>7, <2>1 DEF PoolInv, QueuesClean
  <1> QED  BY <1>8, <1>9, <1>10, Zenon

\* ... and stored.
LEMMA InflateStored ==
    ASSUME PoolInv, NEW c \in Connections, NEW seen, NEW held, NEW ended \in BOOLEAN,
           NEW stream_end \in BOOLEAN, NEW ok, UNCHANGED config,
           StoreInflate(c, InflateWith(InflateWindow(c), seen, held, ended), stream_end, ok)
    PROVE  /\ DOMAIN inflate' = Connections /\ (inflate'[c] = << >> \/ HasInflate(c)')
           /\ stream_end /\ Pooled(c) /\ ok => inflate'[c] = << >>
           /\ \A k \in Connections \ {c} : inflate'[k] = inflate[k]
           /\ DOMAIN idle_inflate' = Slots(InflateZlib)
           /\ \A s \in Slots(InflateZlib) : idle_inflate'[s] \in Seq(CleanInflate(s))
  <1> DEFINE s == slot(config[c].window_bits, InflateZlib)
             i == InflateWith(InflateWindow(c), seen, held, ended)
             r == InflateWith(InflateWindow(c), << >>, << >>, FALSE)
  <1>1. s \in Slots(InflateZlib) /\ SlotWindow(s, InflateZlib) = InflateWindow(c)
    BY ConfigOf, SlotOf, DeflateAssumption, Zenon DEF PoolInv, InflateWindow
  <1>2. resetInflate(i) = r
    BY DEF resetInflate, InflateWith
  <1>3. r \in CleanInflate(s)
    BY <1>1 DEF CleanInflate
  <1>4. InflateWindow(c)' = InflateWindow(c)
    BY DEF InflateWindow
  <1>5. DOMAIN inflate = Connections /\ QueuesClean
    BY DEF PoolInv, Domains
  <1>6. CASE stream_end /\ Pooled(c) /\ ok
    <2>1. /\ inflate' = [inflate EXCEPT ![c] = << >>]
          /\ idle_inflate' = [idle_inflate EXCEPT ![s] = put(idle_inflate[s], r)]
      BY <1>2, <1>6, Zenon DEF StoreInflate
    <2> HIDE DEF s, r
    <2>2. put(idle_inflate[s], r) \in Seq(CleanInflate(s))
      BY <1>1, <1>3, <1>5 DEF put, QueuesClean
    <2>3. \A t \in Slots(InflateZlib) : idle_inflate'[t] \in Seq(CleanInflate(t))
      BY <1>1, <1>5, <2>1, <2>2 DEF QueuesClean
    <2> QED  BY <1>5, <2>1, <2>3 DEF QueuesClean
  <1>7. CASE ~(stream_end /\ Pooled(c) /\ ok)
    <2>1. \E e \in {i, r} : inflate' = [inflate EXCEPT ![c] = <<e>>]
      BY <1>2, <1>7, Zenon DEF StoreInflate
    <2>2. UNCHANGED idle_inflate
      BY <1>7, Zenon DEF StoreInflate
    <2>3. PICK e \in {i, r} : inflate' = [inflate EXCEPT ![c] = <<e>>]
      BY <2>1, Zenon
    <2>4. inflate'[c] = <<e>> /\ \A k \in Connections \ {c} : inflate'[k] = inflate[k]
      BY <1>5, <2>3
    <2>5. HasInflate(c)'
      BY <1>4, <2>4, Zenon DEF HasInflate
    <2> QED  BY <1>5, <1>7, <2>2, <2>3, <2>4, <2>5 DEF QueuesClean
  <1> QED  BY <1>6, <1>7, Zenon

-----------------------------------------------------------------------------
(* A step of one connection does not touch the others, nor the other side. *)

\* Where nothing of the sender changes, its invariant is kept ...
LEMMA SenderKept ==
    ASSUME NEW c \in Connections, SenderInv(c), UNCHANGED config, deflate'[c] = deflate[c],
           sending'[c] = sending[c], streaming'[c] = streaming[c], open'[c] = open[c]
    PROVE  SenderInv(c)'
  BY Zenon DEF SenderInv, HasDeflate, IsFrame, CompressWindow, Pooled, SmallMessage

\* ... as is the receiver's ...
LEMMA ReceiverKept ==
    ASSUME NEW c \in Connections, ReceiverInv(c), UNCHANGED config, inflate'[c] = inflate[c],
           receiving'[c] = receiving[c], compressed_stream'[c] = compressed_stream[c],
           is_closed'[c] = is_closed[c]
    PROVE  ReceiverInv(c)'
  BY Zenon DEF ReceiverInv, HasInflate, IsFrame, InflateWindow, Pooled

\* ... and that of the wire.
LEMMA WireKept ==
    ASSUME NEW c \in Connections, WireInv(c), wire'[c] = wire[c]
    PROVE  WireInv(c)'
  BY Zenon DEF WireInv

\* What a step of connection c leaves alone.
Elsewhere(c) ==
    \A k \in Connections \ {c} :
        /\ deflate'[k] = deflate[k] /\ sending'[k] = sending[k] /\ streaming'[k] = streaming[k]
        /\ open'[k] = open[k] /\ wire'[k] = wire[k] /\ inflate'[k] = inflate[k]
        /\ receiving'[k] = receiving[k] /\ compressed_stream'[k] = compressed_stream[k]
        /\ is_closed'[k] = is_closed[k]

\* It is enough to look at the connection that took the step.
LEMMA OneConnection ==
    ASSUME PoolInv, NEW c \in Connections, UNCHANGED config, Elsewhere(c), Domains', QueuesClean',
           SenderInv(c)', WireInv(c)', ReceiverInv(c)'
    PROVE  PoolInv'
  <1>1. ASSUME NEW k \in Connections, k # c
        PROVE  SenderInv(k)' /\ WireInv(k)' /\ ReceiverInv(k)'
    <2>1. SenderInv(k) /\ WireInv(k) /\ ReceiverInv(k)
      BY DEF PoolInv
    <2> QED  BY <1>1, <2>1, SenderKept, ReceiverKept, WireKept, Zenon DEF Elsewhere
  <1> QED  BY <1>1, Zenon DEF PoolInv

-----------------------------------------------------------------------------
(* The actions. *)

\* A frame is typed by its fields.
LEMMA FrameOf ==
    ASSUME NEW o \in {"Data", "Continuation", "Control"}, NEW fin \in BOOLEAN,
           NEW compressed \in BOOLEAN, NEW payload \in Seq(Token)
    PROVE  [opcode |-> o, fin |-> fin, is_compressed |-> compressed, payload |-> payload] \in Frame
  BY DEF Frame

\* BeginSend finds a compressor for a frame that needs one.
LEMMA BeginSendKeeps ==
    ASSUME PoolInv, NEW c \in Connections, BeginSend(c)
    PROVE  PoolInv'
  <1>1. PICK n \in 0..MaxFragment, fin \in BOOLEAN :
            LET data == [i \in 1..n |-> <<c, frames[c], i>>]
                f == [opcode |-> IF open[c] THEN "Continuation" ELSE "Data", fin |-> fin,
                      is_compressed |-> FALSE, payload |-> Plain(data)]
            IN /\ sending' = [sending EXCEPT ![c] = <<f>>]
               /\ open' = [open EXCEPT ![c] = ~fin]
               /\ IF SmallMessage(f) THEN UNCHANGED <<deflate, idle_deflate>> ELSE TakeDeflate(c)
    BY Zenon DEF BeginSend
  <1> DEFINE data == [i \in 1..n |-> <<c, frames[c], i>>]
             f == [opcode |-> IF open[c] THEN "Continuation" ELSE "Data", fin |-> fin,
                   is_compressed |-> FALSE, payload |-> Plain(data)]
  <1>2. /\ sending[c] = << >> /\ frames' = [frames EXCEPT ![c] = @ + 1]
        /\ UNCHANGED <<config, wire, streaming, receiver>>
    BY DEF BeginSend
  <1>3. UNCHANGED <<inflate, idle_inflate, compressed_stream, is_closed, receiving>>
    BY <1>2 DEF receiver
  <1>4. Domains /\ QueuesClean /\ SenderInv(c) /\ WireInv(c) /\ ReceiverInv(c)
    BY DEF PoolInv
  <1>5. n \in Nat /\ frames[c] \in Nat
    BY <1>4, DeflateAssumption DEF Domains
  <1>6. data \in Seq(Symbol)
    BY <1>5 DEF Symbol
  <1>7. Plain(data) \in Seq(Token)
    <2> HIDE DEF data
    <2>1. \A i \in 1..Len(data) : [kind |-> "plain", data |-> data[i], refs |-> << >>] \in Token
      BY <1>6 DEF Token
    <2> QED  BY <1>6, <2>1 DEF Plain
  <1>8. PICK g \in Frame : g = f
    <2> HIDE DEF data
    <2>1. f \in Frame
      BY <1>7, FrameOf, Zenon
    <2> QED  BY <2>1
  <1>9. /\ sending' = [sending EXCEPT ![c] = <<g>>] /\ open' = [open EXCEPT ![c] = ~fin]
        /\ IF SmallMessage(g) THEN UNCHANGED <<deflate, idle_deflate>> ELSE TakeDeflate(c)
    BY <1>1, <1>8, Zenon
  <1>0. g.opcode # "Control" /\ g.fin = fin /\ (g.opcode = "Continuation" <=> open[c])
    BY <1>8
  <1>10. sending'[c] = <<g>> /\ Head(sending'[c]) = g /\ open'[c] = ~fin /\ streaming'[c] = streaming[c]
    BY <1>2, <1>4, <1>9 DEF Domains
  <1>11. /\ DOMAIN deflate' = Connections /\ (deflate'[c] = << >> \/ HasDeflate(c)')
         /\ ~SmallMessage(g) => deflate'[c] # << >>
         /\ \A k \in Connections \ {c} : deflate'[k] = deflate[k]
         /\ DOMAIN idle_deflate' = Slots(CompressZlib)
         /\ \A s \in Slots(CompressZlib) : idle_deflate'[s] \in Seq(CleanDeflate(s))
    <2>1. CASE SmallMessage(g)
      <3>1. UNCHANGED <<deflate, idle_deflate>>
        BY <1>9, <2>1
      <3>2. HasDeflate(c) => HasDeflate(c)'
        BY <1>2, <3>1, Zenon DEF HasDeflate, CompressWindow
      <3> QED  BY <1>4, <2>1, <3>1, <3>2, Zenon DEF Domains, QueuesClean, SenderInv
    <2>2. CASE ~SmallMessage(g)
      <3>1. HasDeflate(c)' => deflate'[c] # << >>
        BY DEF HasDeflate
      <3> QED  BY <1>2, <1>9, <2>2, <3>1, DeflateTaken, Zenon
    <2> QED  BY <2>1, <2>2, Zenon
  <1>12. SenderInv(c)'
    <2>1. IsFrame(sending'[c])
      BY <1>0, <1>10, Zenon DEF IsFrame
    <2>2. streaming[c] \in BOOLEAN /\ (open[c] <=> streaming[c])
      BY <1>2, <1>4, Zenon DEF SenderInv
    <2>3. Pooled(c) /\ SmallMessage(g) /\ deflate[c] # << >> => streaming[c]
      BY <1>2, <1>4, Zenon DEF SenderInv
    <2>4. Pooled(c)' <=> Pooled(c)
      BY <1>2 DEF Pooled
    <2>5. SmallMessage(g) => deflate' = deflate
      BY <1>9
    <2>6. streaming'[c] \in BOOLEAN /\ open'[c] \in BOOLEAN /\ (open'[c] <=> ~g.fin)
          /\ (g.opcode = "Continuation" <=> streaming'[c])
      BY <1>0, <1>10, <2>2, Zenon
    <2>7. Pooled(c)' /\ deflate'[c] # << >> => streaming'[c] \/ ~SmallMessage(g)
      BY <1>10, <2>3, <2>4, <2>5, Zenon
    <2>8. sending'[c] # << >>
      BY <1>10
    <2> QED  BY <1>10, <1>11, <2>1, <2>6, <2>7, <2>8, Zenon DEF SenderInv
  <1>13. WireInv(c)' /\ ReceiverInv(c)'
    BY <1>2, <1>3, <1>4, WireKept, ReceiverKept, Zenon
  <1>14. Domains' /\ QueuesClean'
    <2>1. frames' \in [Connections -> Nat]
      BY <1>2, <1>4 DEF Domains
    <2>2. DOMAIN sending' = Connections /\ DOMAIN open' = Connections
      BY <1>4, <1>9, Zenon DEF Domains
    <2>3. Domains'
      BY <1>2, <1>3, <1>4, <1>11, <2>1, <2>2, Zenon DEF Domains
    <2>4. QueuesClean'
      BY <1>2, <1>3, <1>4, <1>11, Zenon DEF QueuesClean
    <2> QED  BY <2>3, <2>4
  <1>15. Elsewhere(c)
    BY <1>2, <1>3, <1>4, <1>9, <1>11, Zenon DEF Domains, Elsewhere
  <1> QED  BY <1>2, <1>12, <1>13, <1>14, <1>15, OneConnection

\* A frame that continues a message carries no compression bit on the wire.
LEMMA WireAppended ==
    ASSUME NEW c \in Connections, WireInv(c), NEW f \in Frame,
           f.opcode = "Continuation" => ~f.is_compressed, wire'[c] = Append(wire[c], f)
    PROVE  WireInv(c)'
  <1>1. /\ wire[c] \in Seq(Frame)
        /\ \A n \in 1..Len(wire[c]) : wire[c][n].opcode = "Continuation" => ~wire[c][n].is_compressed
    BY DEF WireInv
  <1>2. /\ wire'[c] \in Seq(Frame) /\ Len(wire'[c]) = Len(wire[c]) + 1
        /\ \A n \in 1..Len(wire[c]) : wire'[c][n] = wire[c][n]
        /\ wire'[c][Len(wire[c]) + 1] = f
    BY <1>1
  <1>3. ASSUME NEW n \in 1..Len(wire'[c]), wire'[c][n].opcode = "Continuation"
        PROVE  ~wire'[c][n].is_compressed
    <2>1. n = Len(wire[c]) + 1 \/ n \in 1..Len(wire[c])
      BY <1>1, <1>2
    <2> QED  BY <1>1, <1>2, <1>3, <2>1, Zenon
  <1> QED  BY <1>2, <1>3, Zenon DEF WireInv

\* The same for the frames that are left when the first is taken.
LEMMA WireShortened ==
    ASSUME NEW c \in Connections, WireInv(c), wire[c] # << >>, wire'[c] = Tail(wire[c])
    PROVE  WireInv(c)'
  <1>1. wire[c] \in Seq(Frame)
    BY DEF WireInv
  <1>2. /\ Tail(wire[c]) \in Seq(Frame) /\ Len(Tail(wire[c])) = Len(wire[c]) - 1
        /\ \A n \in 1..Len(Tail(wire[c])) : Tail(wire[c])[n] = wire[c][n + 1]
    BY <1>1, HeadTailProperties
  <1>3. \A n \in 1..Len(Tail(wire[c])) : n + 1 \in 1..Len(wire[c])
    BY <1>1, <1>2
  <1>4. \A n \in 1..Len(Tail(wire[c])) :
            Tail(wire[c])[n].opcode = "Continuation" => ~Tail(wire[c])[n].is_compressed
    BY <1>2, <1>3, Zenon DEF WireInv
  <1> QED  BY <1>2, <1>4, Zenon DEF WireInv

\* A small message is written as it is.
LEMMA SendPlainKeeps ==
    ASSUME PoolInv, NEW c \in Connections, SendPlain(c)
    PROVE  PoolInv'
  <1>1. Domains /\ QueuesClean /\ SenderInv(c) /\ WireInv(c) /\ ReceiverInv(c)
    BY DEF PoolInv
  <1>2. PICK f \in Frame : sending[c] = <<f>> /\ f.opcode # "Control"
    BY <1>1, Zenon DEF SendPlain, SenderInv, IsFrame
  <1>3. Head(sending[c]) = f /\ sending[c] # << >>
    BY <1>2
  <1>4. /\ SmallMessage(f) /\ Write(c, f) /\ sending' = [sending EXCEPT ![c] = << >>]
        /\ UNCHANGED <<config, deflate, idle_deflate, frames, open, offered, receiver>>
    BY <1>3 DEF SendPlain
  <1>5. UNCHANGED <<inflate, idle_inflate, compressed_stream, is_closed, receiving>>
    BY <1>4 DEF receiver
  <1>6. /\ wire' = [wire EXCEPT ![c] = Append(@, f)]
        /\ streaming' = [streaming EXCEPT ![c] = ~f.fin]
    BY <1>2, <1>4 DEF Write
  <1>7. f.opcode # "Continuation" /\ f.fin /\ ~streaming[c] /\ ~open[c]
    BY <1>1, <1>3, <1>4, Zenon DEF SmallMessage, SenderInv
  <1>8. Pooled(c) => deflate[c] = << >>
    BY <1>1, <1>3, <1>4, <1>7, Zenon DEF SenderInv
  <1>9. /\ sending'[c] = << >> /\ wire'[c] = Append(wire[c], f) /\ streaming'[c] = FALSE
        /\ open'[c] = open[c] /\ deflate'[c] = deflate[c]
    BY <1>1, <1>4, <1>6, <1>7, Zenon DEF Domains
  <1>10. SenderInv(c)'
    <2>1. HasDeflate(c)' <=> HasDeflate(c)
      BY <1>4, Zenon DEF HasDeflate, CompressWindow
    <2>2. Pooled(c)' <=> Pooled(c)
      BY <1>4 DEF Pooled
    <2>3. (deflate[c] = << >> \/ HasDeflate(c)) /\ open[c] \in BOOLEAN
      BY <1>1, Zenon DEF SenderInv
    <2> QED  BY <1>7, <1>8, <1>9, <2>1, <2>2, <2>3, Zenon DEF SenderInv
  <1>11. WireInv(c)' /\ ReceiverInv(c)'
    BY <1>1, <1>4, <1>5, <1>7, <1>9, WireAppended, ReceiverKept, Zenon
  <1>12. Domains' /\ QueuesClean'
    BY <1>1, <1>4, <1>5, <1>6, Zenon DEF Domains, QueuesClean
  <1>13. Elsewhere(c)
    BY <1>1, <1>4, <1>5, <1>6, Zenon DEF Domains, Elsewhere
  <1> QED  BY <1>4, <1>10, <1>11, <1>12, <1>13, OneConnection

\* A control frame leaves both sides as they are.
LEMMA SendControlKeeps ==
    ASSUME PoolInv, NEW c \in Connections, SendControl(c)
    PROVE  PoolInv'
  <1> DEFINE f == [opcode |-> "Control", fin |-> TRUE, is_compressed |-> FALSE, payload |-> << >>]
  <1>1. Domains /\ QueuesClean /\ SenderInv(c) /\ WireInv(c) /\ ReceiverInv(c)
    BY DEF PoolInv
  <1>2. /\ wire' = [wire EXCEPT ![c] = Append(@, f)] /\ UNCHANGED streaming
        /\ frames' = [frames EXCEPT ![c] = @ + 1]
        /\ UNCHANGED <<config, deflate, idle_deflate, sending, open, receiver>>
    BY DEF SendControl, Write
  <1>3. UNCHANGED <<inflate, idle_inflate, compressed_stream, is_closed, receiving>>
    BY <1>2 DEF receiver
  <1>4. f \in Frame /\ f.opcode # "Continuation"
    <2>1. << >> \in Seq(Token)
      OBVIOUS
    <2> QED  BY <2>1 DEF Frame
  <1> HIDE DEF f
  <1>5. wire'[c] = Append(wire[c], f)
    BY <1>1, <1>2, Zenon DEF Domains
  <1>6. SenderInv(c)' /\ WireInv(c)' /\ ReceiverInv(c)'
    BY <1>1, <1>2, <1>3, <1>4, <1>5, SenderKept, WireAppended, ReceiverKept, Zenon
  <1>7. Domains' /\ QueuesClean'
    BY <1>1, <1>2, <1>3 DEF Domains, QueuesClean
  <1>8. Elsewhere(c)
    BY <1>1, <1>2, <1>3 DEF Domains, Elsewhere
  <1> QED  BY <1>2, <1>6, <1>7, <1>8, OneConnection

\* A connection that is dropped takes its state along.
LEMMA DropKeeps ==
    ASSUME PoolInv, NEW c \in Connections, Drop(c)
    PROVE  PoolInv'
  <1>1. Domains /\ QueuesClean /\ SenderInv(c) /\ WireInv(c) /\ ReceiverInv(c)
    BY DEF PoolInv
  <1>2. /\ sending[c] = << >> /\ receiving[c] = << >>
        /\ deflate' = [deflate EXCEPT ![c] = << >>] /\ inflate' = [inflate EXCEPT ![c] = << >>]
        /\ wire' = [wire EXCEPT ![c] = << >>] /\ is_closed' = [is_closed EXCEPT ![c] = TRUE]
        /\ frames' = [frames EXCEPT ![c] = @ + MaxFrames + 1]
        /\ UNCHANGED <<config, idle_deflate, idle_inflate, streaming, compressed_stream, sending,
                       receiving, open>>
    BY Zenon DEF Drop
  <1>3. /\ deflate'[c] = << >> /\ inflate'[c] = << >> /\ wire'[c] = << >> /\ is_closed'[c] = TRUE
    BY <1>1, <1>2 DEF Domains
  <1>4. SenderInv(c)'
    BY <1>1, <1>2, <1>3, Zenon DEF SenderInv
  <1>5. ReceiverInv(c)'
    BY <1>1, <1>2, <1>3, Zenon DEF ReceiverInv
  <1>6. WireInv(c)'
    BY <1>3 DEF WireInv
  <1>7. Domains' /\ QueuesClean'
    <2>1. frames' \in [Connections -> Nat]
      BY <1>1, <1>2, DeflateAssumption DEF Domains
    <2>2. Domains'
      BY <1>1, <1>2, <2>1 DEF Domains
    <2>3. QueuesClean'
      BY <1>1, <1>2 DEF QueuesClean
    <2> QED  BY <2>2, <2>3
  <1>8. Elsewhere(c)
    BY <1>1, <1>2 DEF Domains, Elsewhere
  <1> QED  BY <1>2, <1>4, <1>5, <1>6, <1>7, <1>8, OneConnection, Zenon

\* A plain frame is delivered; no decompressor is involved.
LEMMA ReceivePlainKeeps ==
    ASSUME PoolInv, NEW c \in Connections, ReceivePlain(c)
    PROVE  PoolInv'
  <1>1. Domains /\ QueuesClean /\ SenderInv(c) /\ WireInv(c) /\ ReceiverInv(c)
    BY DEF PoolInv
  <1>2. /\ receiving[c] # << >> /\ ~Head(receiving[c]).is_compressed
        /\ receiving' = [receiving EXCEPT ![c] = << >>]
        /\ is_closed' = [is_closed EXCEPT ![c] = TRUE] \/ UNCHANGED is_closed
        /\ UNCHANGED <<config, wire, inflate, idle_inflate, compressed_stream, sender>>
    BY Zenon DEF ReceivePlain, Deliver
  <1>3. UNCHANGED <<deflate, idle_deflate, streaming, sending, frames, open>>
    BY <1>2 DEF sender
  <1>4. receiving'[c] = << >> /\ (is_closed'[c] = TRUE \/ is_closed'[c] = is_closed[c])
    BY <1>1, <1>2 DEF Domains
  <1>5. ReceiverInv(c)'
    <2>1. HasInflate(c)' <=> HasInflate(c)
      BY <1>2, Zenon DEF HasInflate, InflateWindow
    <2>2. Pooled(c)' <=> Pooled(c)
      BY <1>2 DEF Pooled
    <2> QED  BY <1>1, <1>2, <1>4, <2>1, <2>2, Zenon DEF ReceiverInv
  <1>6. SenderInv(c)' /\ WireInv(c)'
    BY <1>1, <1>2, <1>3, SenderKept, WireKept
  <1>7. Domains' /\ QueuesClean'
    BY <1>1, <1>2, <1>3, Zenon DEF Domains, QueuesClean
  <1>8. Elsewhere(c)
    BY <1>1, <1>2, <1>3, Zenon DEF Domains, Elsewhere
  <1> QED  BY <1>2, <1>5, <1>6, <1>7, <1>8, OneConnection

\* A frame is taken off the wire; a decompressor is found if it is compressed.
LEMMA BeginReceiveKeeps ==
    ASSUME PoolInv, NEW c \in Connections, BeginReceive(c)
    PROVE  PoolInv'
  <1>1. Domains /\ QueuesClean /\ SenderInv(c) /\ WireInv(c) /\ ReceiverInv(c)
    BY DEF PoolInv
  <1>2. /\ ~is_closed[c] /\ receiving[c] = << >> /\ wire[c] # << >>
        /\ wire' = [wire EXCEPT ![c] = Tail(@)]
        /\ UNCHANGED <<config, is_closed, sender>>
    BY DEF BeginReceive
  <1>3. UNCHANGED <<deflate, idle_deflate, streaming, sending, frames, open>>
    BY <1>2 DEF sender
  <1>4. PICK f \in Frame : f = Head(wire[c]) /\ (f.opcode = "Continuation" => ~f.is_compressed)
    <2>1. wire[c] \in Seq(Frame) /\ Len(wire[c]) >= 1 /\ Head(wire[c]) = wire[c][1]
      BY <1>1, <1>2 DEF WireInv
    <2>2. Head(wire[c]) \in Frame /\ 1 \in 1..Len(wire[c])
      BY <2>1
    <2> QED  BY <1>1, <2>1, <2>2, Zenon DEF WireInv
  <1>5. PICK compressed \in BOOLEAN :
            compressed <=> f.is_compressed \/ (f.opcode # "Control" /\ compressed_stream[c])
    BY Zenon
  <1>6. /\ f.opcode \in {"Data", "Continuation", "Control"} /\ f.fin \in BOOLEAN
        /\ f.is_compressed \in BOOLEAN /\ compressed_stream[c] \in BOOLEAN
    BY <1>1, Zenon DEF Frame, ReceiverInv
  <1>7. compressed = (f.is_compressed \/ (f.opcode # "Control" /\ compressed_stream[c]))
    BY <1>5, <1>6
  <1> DEFINE g == [f EXCEPT !.is_compressed = compressed]
  <1>8. g \in Frame /\ g.opcode = f.opcode /\ g.fin = f.fin /\ g.is_compressed = compressed
    BY DEF Frame
  <1>9. /\ receiving' = [receiving EXCEPT ![c] = IF f.opcode = "Control" THEN << >> ELSE <<g>>]
        /\ compressed_stream' = [compressed_stream EXCEPT ![c] = NextCompressed(f, compressed, @)]
        /\ IF f.opcode # "Control" /\ compressed THEN TakeInflate(c)
           ELSE UNCHANGED <<inflate, idle_inflate>>
    BY <1>4, <1>7, Zenon DEF BeginReceive
  <1> HIDE DEF g
  <1>10. /\ receiving'[c] = IF f.opcode = "Control" THEN << >> ELSE <<g>>
         /\ compressed_stream'[c] = NextCompressed(f, compressed, compressed_stream[c])
         /\ wire'[c] = Tail(wire[c]) /\ is_closed'[c] = is_closed[c]
    BY <1>1, <1>2, <1>9 DEF Domains
  <1>11. /\ DOMAIN inflate' = Connections /\ (inflate'[c] = << >> \/ HasInflate(c)')
         /\ f.opcode # "Control" /\ compressed => inflate'[c] # << >>
         /\ ~(f.opcode # "Control" /\ compressed) => inflate'[c] = inflate[c]
         /\ \A k \in Connections \ {c} : inflate'[k] = inflate[k]
         /\ DOMAIN idle_inflate' = Slots(InflateZlib)
         /\ \A s \in Slots(InflateZlib) : idle_inflate'[s] \in Seq(CleanInflate(s))
    <2>1. CASE f.opcode # "Control" /\ compressed
      <3>1. HasInflate(c)' => inflate'[c] # << >>
        BY DEF HasInflate
      <3> QED  BY <1>2, <1>9, <2>1, <3>1, InflateTaken, Zenon
    <2>2. CASE ~(f.opcode # "Control" /\ compressed)
      <3>1. UNCHANGED <<inflate, idle_inflate>>
        BY <1>9, <2>2
      <3>2. HasInflate(c) => HasInflate(c)'
        BY <1>2, <3>1, Zenon DEF HasInflate, InflateWindow
      <3>3. inflate[c] = << >> \/ HasInflate(c)
        BY <1>1, Zenon DEF ReceiverInv
      <3> QED  BY <1>1, <2>2, <3>1, <3>2, <3>3 DEF Domains, QueuesClean
    <2> QED  BY <2>1, <2>2
  <1>12. compressed_stream'[c] \in BOOLEAN
    BY <1>10, Zenon DEF NextCompressed
  <1>13. f.opcode = "Control" => (compressed_stream'[c] <=> compressed_stream[c])
    BY <1>6, <1>10 DEF NextCompressed
  <1>14. f.opcode # "Control" /\ compressed /\ ~f.fin => compressed_stream'[c]
    BY <1>4, <1>5, <1>6, <1>10 DEF NextCompressed
  <1>15. ReceiverInv(c)'
    <2>1. Pooled(c)' <=> Pooled(c)
      BY <1>2 DEF Pooled
    <2>2. Pooled(c) /\ inflate[c] # << >> => compressed_stream[c]
      BY <1>1, <1>2, Zenon DEF ReceiverInv
    <2>3. is_closed'[c] \in BOOLEAN
      BY <1>1, <1>10, Zenon DEF ReceiverInv
    <2>4. CASE f.opcode = "Control"
      <3>1. receiving'[c] = << >> /\ inflate'[c] = inflate[c]
        BY <1>10, <1>11, <2>4
      <3> QED  BY <1>11, <1>12, <1>13, <2>1, <2>2, <2>3, <2>4, <3>1, Zenon DEF ReceiverInv
    <2>5. CASE f.opcode # "Control"
      <3>1. receiving'[c] = <<g>> /\ receiving'[c] # << >> /\ Head(receiving'[c]) = g
        BY <1>10, <2>5
      <3>2. IsFrame(receiving'[c])
        BY <1>8, <2>5, <3>1, Zenon DEF IsFrame
      <3>3. ~compressed => (Pooled(c)' => inflate'[c] = << >>)
        BY <1>5, <1>11, <2>1, <2>2, <2>5, Zenon
      <3> QED  BY <1>8, <1>11, <1>12, <1>14, <2>3, <2>5, <3>1, <3>2, <3>3, Zenon DEF ReceiverInv
    <2> QED  BY <2>4, <2>5, Zenon
  <1>16. WireInv(c)'
    BY <1>1, <1>2, <1>10, WireShortened, Zenon
  <1>17. SenderInv(c)'
    BY <1>1, <1>2, <1>3, SenderKept
  <1>18. Domains' /\ QueuesClean'
    BY <1>1, <1>2, <1>3, <1>9, <1>11, Zenon DEF Domains, QueuesClean
  <1>19. Elsewhere(c)
    BY <1>1, <1>2, <1>3, <1>9, <1>11, Zenon DEF Domains, Elsewhere
  <1> QED  BY <1>2, <1>15, <1>16, <1>17, <1>18, <1>19, OneConnection

\* A frame is compressed and written, and the compressor is stored.
LEMMA SendCompressedKeeps ==
    ASSUME PoolInv, NEW c \in Connections, SendCompressed(c)
    PROVE  PoolInv'
  <1>1. Domains /\ QueuesClean /\ SenderInv(c) /\ WireInv(c) /\ ReceiverInv(c)
    BY DEF PoolInv
  <1>2. PICK f \in Frame : sending[c] = <<f>> /\ f.opcode # "Control"
    BY <1>1, Zenon DEF SendCompressed, SenderInv, IsFrame
  <1>3. Head(sending[c]) = f /\ sending[c] # << >> /\ ~SmallMessage(f)
    BY <1>2 DEF SendCompressed
  <1>4. PICK d \in DeflateState : deflate[c] = <<d>> /\ d.window = CompressWindow(c)
    BY <1>1, <1>3, Zenon DEF SenderInv, HasDeflate
  <1>5. Head(deflate[c]) = d
    BY <1>4
  <1> DEFINE output == d.pending \o Encoded(d, Data(f.payload))
             left(k) == [level |-> d.level, window |-> d.window,
                         seen |-> LastOf(d.seen \o Data(f.payload), d.window - 8),
                         pending |-> SubSeq(output, k + 1, Len(output))]
             written(k, final) == [f EXCEPT !.is_compressed = ~streaming[c],
                                            !.payload = SubSeq(output, 1, k)
                                                        \o IF final THEN <<FinalBlock>> ELSE << >>]
  <1>6. PICK k \in (IF f.fin THEN {Len(output)} ELSE 0..Len(output)),
             final \in (IF f.fin /\ config[c].finishes THEN BOOLEAN ELSE {FALSE}) :
            /\ StoreDeflate(c, IF final THEN resetDeflate(left(k)) ELSE left(k), f.fin)
            /\ Write(c, written(k, final))
    BY <1>3, <1>5, Zenon DEF SendCompressed
  <1>7. /\ sending' = [sending EXCEPT ![c] = << >>]
        /\ UNCHANGED <<config, frames, open, receiver>>
    BY Zenon DEF SendCompressed
  <1>8. UNCHANGED <<inflate, idle_inflate, compressed_stream, is_closed, receiving>>
    BY <1>7 DEF receiver
  <1>9. /\ f.fin \in BOOLEAN /\ f.payload \in Seq(Token) /\ streaming[c] \in BOOLEAN
        /\ (f.opcode = "Continuation" <=> streaming[c]) /\ (open[c] <=> ~f.fin) /\ open[c] \in BOOLEAN
    BY <1>1, <1>3, Zenon DEF Frame, SenderInv
  <1>10. /\ d.level \in Nat /\ d.window \in WINDOW_BITS /\ d.seen \in Seq(SymbolOrGarbage)
         /\ d.pending \in Seq(Token)
    BY DEF DeflateState
  <1>11. Data(f.payload) \in Seq(SymbolOrGarbage)
    BY <1>9, DataType
  <1>12. output \in Seq(Token)
    BY <1>10, <1>11, EncodedType
  <1>13. LastOf(d.seen \o Data(f.payload), d.window - 8) \in Seq(SymbolOrGarbage)
    <2>1. d.seen \o Data(f.payload) \in Seq(SymbolOrGarbage) /\ d.window - 8 \in Nat
      BY <1>10, <1>11 DEF WINDOW_BITS
    <2> QED  BY <2>1, LastOfType, Zenon
  <1> HIDE DEF output
  <1>14. k \in 0..Len(output) /\ final \in BOOLEAN
    <2>1. Len(output) \in 0..Len(output)
      BY <1>12
    <2> QED  BY <2>1, Zenon
  <1>15. SubSeq(output, 1, k) \in Seq(Token) /\ SubSeq(output, k + 1, Len(output)) \in Seq(Token)
    BY <1>12, <1>14, PartType
  <1>16. left(k) \in DeflateState /\ left(k).window = CompressWindow(c)
    BY <1>4, <1>10, <1>13, <1>15, Zenon DEF DeflateState
  <1>17. PICK e \in DeflateState :
            e.window = CompressWindow(c) /\ e = IF final THEN resetDeflate(left(k)) ELSE left(k)
    <2>1. resetDeflate(left(k)) \in DeflateState /\ resetDeflate(left(k)).window = CompressWindow(c)
      <3> HIDE DEF left
      <3> QED  BY <1>16 DEF resetDeflate, DeflateState
    <2> HIDE DEF left
    <2> QED  BY <1>16, <2>1
  <1>18. PICK w \in Frame :
            /\ w = written(k, final) /\ w.opcode = f.opcode /\ w.fin = f.fin
            /\ w.opcode = "Continuation" => ~w.is_compressed
    <2> DEFINE payload == SubSeq(output, 1, k) \o IF final THEN <<FinalBlock>> ELSE << >>
    <2>1. FinalBlock \in Token
      BY DEF FinalBlock, Token
    <2>2. payload \in Seq(Token)
      BY <1>15, <2>1
    <2> HIDE DEF payload
    <2> DEFINE v == [f EXCEPT !.is_compressed = ~streaming[c], !.payload = payload]
    <2>3. v \in Frame /\ v.opcode = f.opcode /\ v.fin = f.fin /\ v.is_compressed = ~streaming[c]
      BY <1>9, <2>2, Zenon DEF Frame
    <2>4. v = written(k, final)
      BY Zenon DEF payload
    <2> HIDE DEF v, written
    <2> QED  BY <1>9, <2>3, <2>4
  <1> HIDE DEF left, written
  <1>19. /\ DOMAIN deflate' = Connections /\ (deflate'[c] = << >> \/ HasDeflate(c)')
         /\ f.fin /\ Pooled(c) => deflate'[c] = << >>
         /\ \A j \in Connections \ {c} : deflate'[j] = deflate[j]
         /\ DOMAIN idle_deflate' = Slots(CompressZlib)
         /\ \A s \in Slots(CompressZlib) : idle_deflate'[s] \in Seq(CleanDeflate(s))
    <2>1. StoreDeflate(c, e, f.fin)
      BY <1>6, <1>17, Zenon
    <2> QED  BY <1>7, <1>9, <1>17, <2>1, DeflateStored
  <1>20. wire' = [wire EXCEPT ![c] = Append(@, w)] /\ streaming' = [streaming EXCEPT ![c] = ~f.fin]
    <2>1. Write(c, w)
      BY <1>6, <1>18, Zenon
    <2> QED  BY <1>2, <1>18, <2>1 DEF Write
  <1>21. /\ wire'[c] = Append(wire[c], w) /\ streaming'[c] = ~f.fin /\ sending'[c] = << >>
         /\ open'[c] = open[c]
    BY <1>1, <1>7, <1>20, Zenon DEF Domains
  <1>22. SenderInv(c)'
    <2>1. Pooled(c)' <=> Pooled(c)
      BY <1>7 DEF Pooled
    <2> QED  BY <1>9, <1>19, <1>21, <2>1, Zenon DEF SenderInv
  <1>23. WireInv(c)' /\ ReceiverInv(c)'
    BY <1>1, <1>7, <1>8, <1>18, <1>21, WireAppended, ReceiverKept
  <1>24. Domains' /\ QueuesClean'
    BY <1>1, <1>7, <1>8, <1>19, <1>20, Zenon DEF Domains, QueuesClean
  <1>25. Elsewhere(c)
    BY <1>1, <1>7, <1>8, <1>19, <1>20, Zenon DEF Domains, Elsewhere
  <1> QED  BY <1>7, <1>22, <1>23, <1>24, <1>25, OneConnection

\* A frame is decompressed, and the decompressor is stored.
LEMMA ReceiveCompressedKeeps ==
    ASSUME PoolInv, NEW c \in Connections, ReceiveCompressed(c)
    PROVE  PoolInv'
  <1>1. Domains /\ QueuesClean /\ SenderInv(c) /\ WireInv(c) /\ ReceiverInv(c)
    BY DEF PoolInv
  <1>2. PICK f \in Frame : receiving[c] = <<f>> /\ f.opcode # "Control"
    BY <1>1, Zenon DEF ReceiveCompressed, ReceiverInv, IsFrame
  <1>0. Head(receiving[c]) = f
    BY <1>2
  <1>3. Head(receiving[c]) = f /\ receiving[c] # << >> /\ f.is_compressed
    BY <1>0, Zenon DEF ReceiveCompressed
  <1>4. PICK seen, held : \E stream_ended \in BOOLEAN :
            inflate[c] = <<InflateWith(InflateWindow(c), seen, held, stream_ended)>>
    BY <1>1, <1>3, Zenon DEF ReceiverInv, HasInflate
  <1>5. PICK stream_ended \in BOOLEAN :
            inflate[c] = <<InflateWith(InflateWindow(c), seen, held, stream_ended)>>
    BY <1>4
  <1> DEFINE i == Head(inflate[c])
             input == i.held \o f.payload
             data(k) == Decoded(i, SubSeq(input, 1, k))
             ended(k) == i.stream_ended \/ \E j \in 1..k : SubSeq(input, 1, k)[j].kind = "final"
             left(k) == [window |-> i.window, seen |-> LastOf(i.seen \o data(k), i.window - 8),
                         held |-> SubSeq(input, k + 1, Len(input)), stream_ended |-> ended(k)]
             ok(k) == ~TooLarge(data(k))
  <1>6. PICK k \in (IF f.fin THEN {Len(input)} ELSE 0..Len(input)) :
            /\ Deliver(c, f, data(k))
            /\ StoreInflate(c, IF f.fin /\ ended(k) /\ ok(k) THEN resetInflate(left(k)) ELSE left(k),
                            f.fin, ok(k))
    BY <1>3, ZenonT(30) DEF ReceiveCompressed
  <1>7. /\ receiving' = [receiving EXCEPT ![c] = << >>]
        /\ UNCHANGED <<config, wire, compressed_stream, sender>>
    BY Zenon DEF ReceiveCompressed
  <1>8. UNCHANGED <<deflate, idle_deflate, streaming, sending, frames, open>>
    BY <1>7 DEF sender
  <1>9. /\ f.fin \in BOOLEAN /\ compressed_stream[c] \in BOOLEAN /\ is_closed[c] \in BOOLEAN
        /\ (~f.fin => compressed_stream[c])
    BY <1>1, <1>3, Zenon DEF Frame, ReceiverInv
  <1>10. i.window = InflateWindow(c)
    BY <1>5 DEF InflateWith
  <1>12. PICK e \in BOOLEAN : e = ended(k)
    BY <1>5, Zenon DEF InflateWith
  <1>13. \E s, h : \E b \in BOOLEAN :
            InflateWith(InflateWindow(c), s, h, b)
                = IF f.fin /\ ended(k) /\ ok(k) THEN resetInflate(left(k)) ELSE left(k)
    <2>1. left(k) = InflateWith(InflateWindow(c), left(k).seen, left(k).held, e)
      BY <1>10, <1>12, Zenon DEF InflateWith
    <2>2. resetInflate(left(k)) = InflateWith(InflateWindow(c), << >>, << >>, FALSE)
      BY <1>10, Zenon DEF resetInflate, InflateWith
    <2> HIDE DEF left, ended, ok
    <2> QED  BY <2>1, <2>2, Zenon
  <1>14. PICK s, h : \E b \in BOOLEAN :
            InflateWith(InflateWindow(c), s, h, b)
                = IF f.fin /\ ended(k) /\ ok(k) THEN resetInflate(left(k)) ELSE left(k)
    BY <1>13, Zenon
  <1>15. PICK b \in BOOLEAN : StoreInflate(c, InflateWith(InflateWindow(c), s, h, b), f.fin, ok(k))
    BY <1>6, <1>14, Zenon
  <1>16. \/ ~ok(k) /\ is_closed' = [is_closed EXCEPT ![c] = TRUE]
         \/ ok(k) /\ UNCHANGED is_closed
    BY <1>6, Zenon DEF Deliver
  <1> HIDE DEF i, input, data, ended, left, ok
  <1>17. /\ DOMAIN inflate' = Connections /\ (inflate'[c] = << >> \/ HasInflate(c)')
         /\ f.fin /\ Pooled(c) /\ ok(k) => inflate'[c] = << >>
         /\ \A j \in Connections \ {c} : inflate'[j] = inflate[j]
         /\ DOMAIN idle_inflate' = Slots(InflateZlib)
         /\ \A t \in Slots(InflateZlib) : idle_inflate'[t] \in Seq(CleanInflate(t))
    BY <1>7, <1>9, <1>15, InflateStored
  <1>18. /\ receiving'[c] = << >> /\ compressed_stream'[c] = compressed_stream[c]
         /\ is_closed'[c] \in BOOLEAN /\ (~ok(k) => is_closed'[c])
    BY <1>1, <1>7, <1>9, <1>16, Zenon DEF Domains
  <1>19. ReceiverInv(c)'
    <2>1. Pooled(c)' <=> Pooled(c)
      BY <1>7 DEF Pooled
    <2> QED  BY <1>9, <1>17, <1>18, <2>1, Zenon DEF ReceiverInv
  <1>20. SenderInv(c)' /\ WireInv(c)'
    BY <1>1, <1>7, <1>8, SenderKept, WireKept
  <1>21. Domains' /\ QueuesClean'
    BY <1>1, <1>7, <1>8, <1>16, <1>17, Zenon DEF Domains, QueuesClean
  <1>22. Elsewhere(c)
    BY <1>1, <1>7, <1>8, <1>16, <1>17, Zenon DEF Domains, Elsewhere
  <1> QED  BY <1>7, <1>19, <1>20, <1>21, <1>22, OneConnection

-----------------------------------------------------------------------------
(* The invariant and the theorems. *)

\* At the start nothing is held, pooled or on the wire.
LEMMA PoolInit ==
    Init => PoolInv
  <1> SUFFICES ASSUME Init  PROVE PoolInv
    OBVIOUS
  <1>1. Domains
    BY DEF Init, Domains
  <1>2. QueuesClean
    BY DEF Init, QueuesClean, Slots
  <1>3. ASSUME NEW c \in Connections
        PROVE  SenderInv(c) /\ WireInv(c) /\ ReceiverInv(c)
    <2>1. /\ deflate[c] = << >> /\ inflate[c] = << >> /\ sending[c] = << >> /\ receiving[c] = << >>
          /\ wire[c] = << >> /\ streaming[c] = FALSE /\ open[c] = FALSE
          /\ compressed_stream[c] = FALSE /\ is_closed[c] = FALSE
      BY DEF Init
    <2>2. SenderInv(c)
      BY <2>1, Zenon DEF SenderInv
    <2>3. ReceiverInv(c)
      BY <2>1, Zenon DEF ReceiverInv
    <2> QED  BY <2>1, <2>2, <2>3 DEF WireInv
  <1> QED  BY <1>1, <1>2, <1>3 DEF PoolInv

\* Every step keeps it.
LEMMA PoolStep ==
    PoolInv /\ [Next]_vars => PoolInv'
  <1> SUFFICES ASSUME PoolInv, [Next]_vars  PROVE PoolInv'
    OBVIOUS
  <1>1. CASE Next
    BY <1>1, BeginSendKeeps, SendPlainKeeps, SendCompressedKeeps, SendControlKeeps,
       BeginReceiveKeeps, ReceivePlainKeeps, ReceiveCompressedKeeps, DropKeeps, Zenon DEF Next
  <1>2. CASE UNCHANGED vars
    <2>1. /\ UNCHANGED <<config, wire, deflate, idle_deflate, streaming, sending, frames, open>>
          /\ UNCHANGED <<inflate, idle_inflate, compressed_stream, is_closed, receiving>>
      BY <1>2 DEF vars, sender, receiver
    <2>2. Domains' /\ QueuesClean'
      BY <2>1 DEF PoolInv, Domains, QueuesClean
    <2>3. ASSUME NEW c \in Connections
          PROVE  SenderInv(c)' /\ WireInv(c)' /\ ReceiverInv(c)'
      <3>1. SenderInv(c) /\ WireInv(c) /\ ReceiverInv(c)
        BY DEF PoolInv
      <3> QED  BY <2>1, <3>1, SenderKept, WireKept, ReceiverKept
    <2> QED  BY <2>2, <2>3 DEF PoolInv
  <1> QED  BY <1>1, <1>2

\* put_deflate and put_inflate: whatever the connections do, a state in the pool
\* is as good as new and fits every connection that asks its queue.
THEOREM PoolIsClean ==
    Spec => []PoolClean
  <1>1. PoolInv => PoolClean
    <2> SUFFICES ASSUME PoolInv  PROVE PoolClean
      OBVIOUS
    <2>1. ASSUME NEW s \in DOMAIN idle_deflate, NEW n \in 1..Len(idle_deflate[s])
          PROVE  /\ FreshDeflate(idle_deflate[s][n])
                 /\ idle_deflate[s][n].window = IF CompressZlib THEN s + 9 ELSE 15
      <3>1. idle_deflate[s] \in Seq(CleanDeflate(s))
        BY <2>1 DEF PoolInv, QueuesClean
      <3>2. idle_deflate[s][n] \in CleanDeflate(s)
        BY <2>1, <3>1
      <3> QED  BY <3>2, Zenon DEF CleanDeflate, SlotWindow
    <2>2. ASSUME NEW s \in DOMAIN idle_inflate, NEW n \in 1..Len(idle_inflate[s])
          PROVE  /\ FreshInflate(idle_inflate[s][n])
                 /\ idle_inflate[s][n].window = IF InflateZlib THEN s + 9 ELSE 15
      <3>1. idle_inflate[s] \in Seq(CleanInflate(s))
        BY <2>2 DEF PoolInv, QueuesClean
      <3>2. idle_inflate[s][n] \in CleanInflate(s)
        BY <2>2, <3>1
      <3>3. idle_inflate[s][n] = InflateWith(SlotWindow(s, InflateZlib), << >>, << >>, FALSE)
        BY <3>2, Zenon DEF CleanInflate
      <3> QED  BY <3>3 DEF InflateWith, FreshInflate, SlotWindow
    <2> QED  BY <2>1, <2>2 DEF PoolClean
  <1> QED  BY <1>1, PoolInit, PoolStep, PTL DEF Spec

\* Compressor::compress and Decompressor::decompress with a pool: a connection
\* between two messages holds neither a compressor nor a decompressor.
THEOREM StateIsBorrowed ==
    Spec => []IdleHoldsNothing
  <1>1. PoolInv => IdleHoldsNothing
    BY Zenon DEF PoolInv, SenderInv, ReceiverInv, IdleHoldsNothing
  <1> QED  BY <1>1, PoolInit, PoolStep, PTL DEF Spec
=============================================================================
