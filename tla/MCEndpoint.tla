----------------------------- MODULE MCEndpoint -----------------------------
(* Instances of Endpoint for TLC. *)
EXTENDS Endpoint

Fr(op, fin, data) == [op |-> op, fin |-> fin, data |-> data]
\* The application sends one- and two-byte messages and its own Close.
MCUser == {Fr("Text", TRUE, <<1>>), Fr("Text", TRUE, <<2, 2>>)}
MCUserClose == {Fr("Text", TRUE, <<1, 2>>), Fr("Close", TRUE, <<1000>>)}
\* The peer pings, closes, with a code it must not send as well, and breaks the protocol.
MCPeer == {Fr("Ping", TRUE, <<1>>), Fr("Ping", TRUE, <<2>>), Fr("Close", TRUE, <<1000>>),
           Fr("Close", TRUE, <<1005>>), Malformed}
\* It fragments, answers, and closes.
MCPeerMixed == {Fr("Ping", TRUE, <<1>>), Fr("Pong", TRUE, <<2>>), Fr("Text", FALSE, <<3>>),
                  Fr("Cont", TRUE, <<4>>), Fr("Close", TRUE, <<1005>>)}
MCPeerClose == {Fr("Close", TRUE, <<1000>>)}
MCUserPing == {Fr("Ping", TRUE, <<7, 7>>)}
=============================================================================
