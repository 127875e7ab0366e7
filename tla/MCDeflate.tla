----------------------------- MODULE MCDeflate -----------------------------
(* Instances of Deflate for TLC. *)
EXTENDS Deflate, TLC

Cfg(reset, bits, level, pool, finishes) ==
    [no_context_takeover |-> reset, window_bits |-> bits, level |-> level, pool |-> pool,
     finishes |-> finishes]
\* Contexts kept or reset, windows of one symbol and of all, two levels, state
\* of one's own or from the pool, a sender that finishes its stream.
MCConfigs == {Cfg(FALSE, 9, 1, FALSE, FALSE), Cfg(FALSE, Absent, 1, TRUE, TRUE),
              Cfg(TRUE, 9, 1, TRUE, FALSE), Cfg(TRUE, 9, 2, TRUE, FALSE),
              Cfg(TRUE, Absent, 1, FALSE, TRUE)}
Symmetric == Permutations(Connections)
=============================================================================
