-------------------------------- MODULE Mask --------------------------------
(***************************************************************************)
(* The masking of src/mask.rs: a payload XORed with a repeated 4-byte key, *)
(* by whichever of four routines the build, the length and the address of  *)
(* the payload select.                                                     *)
(*                                                                         *)
(* A machine word is the sequence of its bytes, least significant first;   *)
(* ne_bytes is the order they have in memory.  Indices start at 1, so the  *)
(* key byte the code calls mask[i & 3] is mask[((i - 1) % 4) + 1] here.      *)
(***************************************************************************)
EXTENDS Integers, Sequences, SequencesExt, Bitwise

\* The builds: x86 with and without AVX2 (found at run time), ARM with NEON,
\* and a big-endian machine, which has neither.
Builds == {"avx2", "x86", "neon", "big"}

Nibbles == 0..15
XorNibble == [a \in Nibbles, b \in Nibbles |-> a ^^ b]
XorByte(a, b) == 16 * XorNibble[a \div 16, b \div 16] + XorNibble[a % 16, b % 16]
XorWord(w, v) == [i \in 1..Len(w) |-> XorByte(w[i], v[i])]

from_ne_bytes(bytes, build) == IF build = "big" THEN Reverse(bytes) ELSE bytes
to_ne_bytes(word, build) == IF build = "big" THEN Reverse(word) ELSE word
\* rotate_right and rotate_left by 8 * n bits.
rotate_right(w, n) == [i \in 1..Len(w) |-> w[((i - 1 + n) % Len(w)) + 1]]
rotate_left(w, n) == rotate_right(w, Len(w) - n)

apply_mask_fallback(buf, mask) ==
    [i \in 1..Len(buf) |-> XorByte(buf[i], mask[((i - 1) % 4) + 1])]

\* A loop over the whole chunks of `size` bytes of buf, each XORed as one
\* word with `word`; then the remainder with the key from its first byte.
Chunked(buf, size, word, mask, build) ==
    LET n == Len(buf) \div size
        chunks == [k \in 0..(n - 1) |->
                     to_ne_bytes(XorWord(from_ne_bytes(SubSeq(buf, k * size + 1, (k + 1) * size),
                                                       build), word), build)]
    IN [i \in 1..(n * size) |-> chunks[(i - 1) \div size][((i - 1) % size) + 1]]
       \o apply_mask_fallback(SubSeq(buf, n * size + 1, Len(buf)), mask)

\* (fault) The key is read as big-endian on every machine.
apply_mask_fast32_swapped(buf, mask, build) ==
    Chunked(buf, 4, Reverse(mask), mask, build)
apply_mask_fast32(buf, mask, build) ==
    Chunked(buf, 4, from_ne_bytes(mask, build), mask, build)

\* (fault) The key is not rotated past the unaligned prefix.
apply_mask_fast64_unrotated(buf, mask, addr, build) ==
    LET mask_u32 == from_ne_bytes(mask, build)
        mask_u64 == mask_u32 \o mask_u32
        head == IF (8 - addr) % 8 <= Len(buf) THEN (8 - addr) % 8 ELSE Len(buf)
    IN apply_mask_fallback(SubSeq(buf, 1, head), mask)
       \o Chunked(SubSeq(buf, head + 1, Len(buf)), 8, mask_u64,
                  to_ne_bytes(SubSeq(mask_u64, 1, 4), build), build)

\* addr is the payload's address modulo 8: align_to_mut::<u64> cuts off the
\* bytes in front of the first aligned word.  The truncation `as u32` keeps
\* the low half of the rotated key.
apply_mask_fast64(buf, mask, addr, build) ==
    LET mask_u32 == from_ne_bytes(mask, build)
        doubled == mask_u32 \o mask_u32
        head == IF (8 - addr) % 8 <= Len(buf) THEN (8 - addr) % 8 ELSE Len(buf)
        mask_u64 == IF build = "big" THEN rotate_left(doubled, head % 4)
                    ELSE rotate_right(doubled, head % 4)
    IN apply_mask_fallback(SubSeq(buf, 1, head), mask)
       \o Chunked(SubSeq(buf, head + 1, Len(buf)), 8, mask_u64,
                  to_ne_bytes(SubSeq(mask_u64, 1, 4), build), build)

Repeated(mask, n) == [i \in 1..(4 * n) |-> mask[((i - 1) % 4) + 1]]

\* Whole 32-byte vectors (four at a time while 128 bytes are left, then one
\* at a time), then single bytes by their index in the whole buffer.
xor_avx2(src, mask) ==
    LET offset == (Len(src) \div 32) * 32
        mask_256 == Repeated(mask, 8)
        vectors == [k \in 0..(Len(src) \div 32 - 1) |->
                      XorWord(SubSeq(src, 32 * k + 1, 32 * k + 32), mask_256)]
    IN [i \in 1..Len(src) |->
          IF i <= offset THEN vectors[(i - 1) \div 32][((i - 1) % 32) + 1]
          ELSE XorByte(src[i], mask[((i - 1) % 4) + 1])]

apply_mask_neon(buf, mask) ==
    LET aligned_end == (Len(buf) \div 16) * 16
        mask_128 == Repeated(mask, 4)
    IN [i \in 1..aligned_end |-> XorByte(buf[i], mask_128[((i - 1) % 16) + 1])]
       \o apply_mask_fast32(SubSeq(buf, aligned_end + 1, Len(buf)), mask, "neon")

apply_mask(buf, mask, addr, build) ==
    IF build = "neon" /\ Len(buf) >= 16 THEN apply_mask_neon(buf, mask)
    ELSE IF Len(buf) <= 128 THEN apply_mask_fast32(buf, mask, build)
    ELSE IF build = "avx2" /\ Len(buf) >= 256 THEN xor_avx2(buf, mask)
    ELSE apply_mask_fast64(buf, mask, addr, build)

copy_mask(src, mask, build) ==
    IF build = "avx2" /\ Len(src) >= 256 THEN xor_avx2(src, mask)
    ELSE apply_mask_fast32(src, mask, build)
=============================================================================
