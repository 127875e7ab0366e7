------------------------------ MODULE MCYawcc -------------------------------
(* Command lines, chains of redirects over two hosts, and short sessions. *)
EXTENDS Yawcc, TLC

UrlOf(scheme, host) == [scheme |-> scheme, host |-> host, credentials |-> FALSE, fragment |-> FALSE]
Setup(u, up_, cert, hops) ==
    [url |-> u, proxy |-> "none", override |-> up_, headers |-> up_, auth |-> FALSE, cert |-> cert,
     location |-> hops > 0, max_redirects |-> hops, subprotocols |-> {}, serves |-> FALSE]

MCSetups ==
    LET wsA == UrlOf("ws", "a")
        base == Setup(wsA, TRUE, FALSE, 0)
    IN  {Setup(UrlOf(s, "a"), TRUE, cert, 3) : s \in {"ws", "wss"}, cert \in BOOLEAN}
        \cup {[base EXCEPT !.proxy = p, !.url = UrlOf(s, "a")] :
                 p \in {"http", "https", "socks5", "ftp"}, s \in {"ws", "wss"}}
        \cup {[base EXCEPT !.subprotocols = {"chat", "log"}], [base EXCEPT !.url = UrlOf("http", "a")],
              [base EXCEPT !.url = [wsA EXCEPT !.credentials = TRUE], !.headers = FALSE],
              [base EXCEPT !.url = [wsA EXCEPT !.credentials = TRUE], !.auth = TRUE],
              [base EXCEPT !.serves = TRUE]}

MCLocations ==
    {[kind |-> "absolute", scheme |-> s, host |-> h, credentials |-> FALSE, fragment |-> FALSE] :
         s \in {"ws", "https"}, h \in {"a", "b"}}
    \cup {[kind |-> "absolute", scheme |-> "wss", host |-> "a", credentials |-> c, fragment |-> ~c] :
         c \in BOOLEAN}
    \cup {[kind |-> k, scheme |-> "ftp", host |-> "none", credentials |-> FALSE, fragment |-> FALSE] :
         k \in {"relative", "missing", "absolute"}}

MCUpgrades ==
    LET good == [status |-> 101, upgrade |-> TRUE, accepts |-> <<"right">>, protocols |-> {},
                 extensions |-> << >>]
        Ext(params) == <<[name |-> "permessage-deflate", params |-> params]>>
    IN  {[good EXCEPT !.status = 200], [good EXCEPT !.upgrade = FALSE], [good EXCEPT !.accepts = << >>],
         [good EXCEPT !.accepts = <<"right", "right">>], [good EXCEPT !.accepts = <<"wrong">>]}
        \cup {[good EXCEPT !.protocols = p] : p \in SUBSET {"chat", "other"}}
        \cup {[good EXCEPT !.extensions = e] : e \in
                {Ext(<< >>), Ext(<<<<"server_bits", 8>>, <<"client_nct", 0>>>>),
                 Ext(<<<<"client_bits", 10>>>>), Ext(<<<<"server_nct", 0>>, <<"server_nct", 0>>>>),
                 Ext(<< >>) \o Ext(<< >>)}}

CONSTANTS c1, c2
MCClients == {c1, c2}
\* One client of an echo server, or of an interactive one, or two of that.
Scene(who, line, typing, talk, wait, strict) ==
    [who |-> who, lines |-> (c1 :> line) @@ (c2 :> << >>), typed |-> typing, interactive |-> talk,
     wait |-> wait, strict |-> strict, fits |-> TRUE, served |-> TRUE]
MCScenes ==
    LET nothing == Scene({c1}, << >>, << >>, FALSE, FALSE, FALSE)
    IN  {[nothing EXCEPT !.served = FALSE], [nothing EXCEPT !.fits = FALSE],
         Scene({c1}, <<"text", "ping", "text", "close">>, << >>, FALSE, FALSE, FALSE),
         Scene({c1}, <<"text", "close3000", "text">>, << >>, FALSE, TRUE, TRUE),
         Scene({c1}, <<"comment", "bad">>, << >>, FALSE, TRUE, FALSE),
         Scene({c1}, <<"text", "interrupt">>, <<"text", "close3000">>, TRUE, TRUE, TRUE),
         Scene({c1}, <<"text">>, <<"text", "bad", "text", "text">>, TRUE, FALSE, FALSE),
         Scene({c1, c2}, << >>, <<"text">>, TRUE, FALSE, FALSE)}
=============================================================================
