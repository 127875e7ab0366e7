-------------------------- MODULE MCFragmentLayer --------------------------
(* Instances of FragmentLayer for TLC. *)
EXTENDS FragmentLayer

Msg(op, data) == [op |-> op, data |-> data]
Raw(op, fin, data) == [op |-> op, fin |-> fin, data |-> data]
\* Whole, cut in a character, cut in two halves, with a rest, not UTF-8, and too long.
MCMessages == {Msg("Text", <<1>>), Msg("Text", <<1, 2, 3>>), Msg("Binary", <<4, 5, 6, 7>>),
               Msg("Binary", <<4, 5, 6>>), Msg("Text", <<1, 2, 1>>),
               Msg("Binary", <<1, 1, 1, 1, 1, 1>>)}
\* Any order of first, middle and last frames of several sizes.
MCRaw == {Raw(op, fin, data) : op \in {"Text", "Cont"}, fin \in BOOLEAN,
                               data \in {<<1>>, <<1, 1, 1>>, <<1, 1, 1, 1, 1>>}}
=============================================================================
