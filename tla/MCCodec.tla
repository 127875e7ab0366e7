------------------------------ MODULE MCCodec -------------------------------
(***************************************************************************)
(* Small instances of Codec: payload lengths around every boundary of the  *)
(* length field and of the masking routines.                               *)
(***************************************************************************)
EXTENDS Codec

Payload(n) == [i \in 1..n |-> (7 * i + n) % 256]
Sent(fin, op, rsv1, n) == Frame(fin, op, rsv1, NoMask, Payload(n))
MCKey == <<161, 21, 147, 245>>
MCKeys == {MCKey}

\* A short frame in front, so that the second header is cut as well.
MCScripts ==
    {<<Sent(TRUE, "Ping", FALSE, 3), Sent(TRUE, "Binary", FALSE, n)>> :
        n \in {0, 125, 126, 131, 258, 300}}
    \cup {<<Sent(FALSE, "Text", TRUE, 2), Sent(TRUE, "Continuation", FALSE, 0),
            Sent(TRUE, "Close", FALSE, 2)>>,
          <<[Sent(TRUE, "Binary", TRUE, 17) EXCEPT !.mask = <<1, 2, 3, 4>>]>>}

To(role, bytes, ahead) == [to |-> role, bytes |-> bytes, ahead |-> ahead]
\* Frames of other peers: two that a client may find behind the handshake
\* response, and frames that break one rule each.
MCForeign ==
    {To("Client", <<130, 3, 97, 98, 99, 129, 1, 100>>, k) : k \in {0, 1, 4, 6, 8}}
    \cup {To("Client", bytes, 0) : bytes \in
            {<<162, 0>>, <<131, 0>>, <<9, 0>>, <<137, 126, 0, 126>>, <<130, 127, 0, 0, 0, 0, 0, 1, 0, 0>>,
             <<130, 131, 1, 2, 3, 4, 5, 6, 7>>}}
    \cup {To("Server", <<129, 1, 97>>, 0)}
=============================================================================
