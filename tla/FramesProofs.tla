---------------------------- MODULE FramesProofs ----------------------------
(***************************************************************************)
(* What Frame::into_fragments yields, for every frame and fragment size.   *)
(***************************************************************************)
EXTENDS Frames, SequenceTheorems, TLAPS

\* The arithmetic of cutting a payload into pieces of m bytes.
LEMMA DivFacts ==
    ASSUME NEW a \in Nat, NEW m \in Nat \ {0}
    PROVE  (a \div m) \in Nat /\ (a \div m) * m <= a
  OBVIOUS
LEMMA MulFacts ==
    ASSUME NEW i \in Nat, NEW m \in Nat
    PROVE  i * m \in Nat /\ (i + 1) * m = i * m + m
  OBVIOUS
LEMMA MulMono ==
    ASSUME NEW i \in Nat, NEW j \in Nat, NEW m \in Nat, i <= j
    PROVE  i * m <= j * m
  OBVIOUS

\* Splitting a frame yields frames, whatever the fragment size.
LEMMA FragmentsType ==
    ASSUME NEW f \in Frame, NEW max \in Nat \ {0}
    PROVE  into_fragments(f, max) \in Seq(Frame)
<1> DEFINE n == Len(f.data)
           k == (n + max - 1) \div max
           lo(i) == (i - 1) * max + 1
           hi(i) == IF i = k THEN n ELSE i * max
           g(i) == [op |-> IF i = 1 THEN f.op ELSE "Cont", fin |-> i = k,
                    data |-> SubSeq(f.data, lo(i), hi(i))]
<1>1. f.data \in Seq(Nat) /\ n \in Nat /\ f.op \in Ops /\ "Cont" \in Ops
  BY DEF Frame, Ops
<1>2. n + max - 1 \in Nat
  BY <1>1
<1>3. k \in Nat /\ k * max <= n + max - 1
  BY <1>2, DivFacts, Zenon
<1> HIDE DEF n, k
<1>4. ASSUME NEW i \in 1..k PROVE g(i) \in Frame
  <2>1. lo(i) \in Nat /\ lo(i) >= 1
    <3>1. i - 1 \in Nat
      BY <1>3, <1>4
    <3>2. (i - 1) * max \in Nat
      BY <3>1, MulFacts
    <3>3. QED BY <3>2
  <2>2. hi(i) \in Int /\ hi(i) <= n
    <3>1. CASE i = k
      BY <3>1, <1>1
    <3>2. CASE i # k
      <4>1. i \in Nat /\ i + 1 \in Nat /\ i + 1 <= k
        BY <3>2, <1>3, <1>4
      <4>2. (i + 1) * max <= k * max
        BY <4>1, <1>3, MulMono
      <4>3. (i + 1) * max = i * max + max /\ i * max \in Nat
        BY <4>1, MulFacts
      <4>4. k * max \in Nat
        BY <1>3, MulFacts
      <4>5. QED BY <3>2, <4>2, <4>3, <4>4, <1>1, <1>3
    <3>3. QED BY <3>1, <3>2
  <2> HIDE DEF lo, hi
  <2>3. SubSeq(f.data, lo(i), hi(i)) \in Seq(Nat)
    BY <1>1, <2>1, <2>2 DEF n
  <2>4. QED BY <1>1, <2>3 DEF Frame
<1>5. CASE n <= max
  BY <1>5 DEF into_fragments, n
<1>6. CASE ~(n <= max)
  <2>1. into_fragments(f, max) = [i \in 1..k |-> g(i)]
    BY <1>6 DEF into_fragments, n, k
  <2>2. k \in Nat /\ \A i \in 1..k : g(i) \in Frame
    BY <1>3, <1>4
  <2> HIDE DEF g
  <2>3. QED BY <2>1, <2>2
<1>7. QED BY <1>5, <1>6
=============================================================================
