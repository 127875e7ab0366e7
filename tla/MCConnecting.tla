---------------------------- MODULE MCConnecting ----------------------------
(* Instances of Connecting for TLC. *)
EXTENDS Connecting

Opt(enabled, s, c, snc, cnc) ==
    [enabled |-> enabled, server_max_window_bits |-> s, client_max_window_bits |-> c,
     server_no_context_takeover |-> snc, client_no_context_takeover |-> cnc]
\* Unset, below, at and above each limit of the two ranges of window sizes.
Sizes == {Absent, 7, 8, 9, 12, 15, 16}
MCOptions == {Opt(TRUE, s, c, snc, cnc) : s \in Sizes, c \in Sizes, snc \in BOOLEAN, cnc \in BOOLEAN}
             \cup {Disabled}
MCServerOptions == {Opt(TRUE, s, c, snc, FALSE) : s \in Sizes, c \in {Absent, 8, 12}, snc \in BOOLEAN}
                   \cup {Disabled}

P(key, value) == [key |-> key, value |-> value]
PerMessage(params) == [name |-> "permessage-deflate", params |-> params]
OtherExtension == [name |-> "other", params |-> << >>]
\* Lists of up to two extensions out of good, refused and foreign ones.
MCExtensions ==
    {PerMessage(<<P("server_max_window_bits", 8)>>),
     PerMessage(<<P("server_max_window_bits", 10), P("client_max_window_bits", 11)>>),
     PerMessage(<<P("client_max_window_bits", NoValue), P("server_no_context_takeover", NoValue)>>),
     PerMessage(<<P("client_max_window_bits", 9), P("client_max_window_bits", 9)>>),
     PerMessage(<<P("server_max_window_bits", NoValue)>>),
     PerMessage(<<P("unknown", NoValue)>>),
     OtherExtension, [name |-> "ungrammatical", params |-> << >>]}
MCHeaders == {<< >>} \cup {<<a>> : a \in MCExtensions} \cup {<<a, b>> : a, b \in MCExtensions}

\* URLs: every scheme the two ends tell apart, every kind of host, names at
\* the limit of a length byte, an address pinned by tcp_address.
Url(scheme, host, len, pinned) == [scheme |-> scheme, host |-> host, len |-> len, pinned |-> pinned]
SomeUrl == Url("ws", "v4", 0, "none")
MCTargets ==
    {Url(scheme, host, IF host = "domain" THEN 9 ELSE 0, "none") :
        scheme \in {"ws", "wss", "http", "ftp"}, host \in {"domain", "v4", "v6"}}
    \cup {Url("ws", "domain", len, pinned) : len \in {9, 255, 256}, pinned \in {"none", "v6"}}
ProxyUrl(scheme, host, username, password) ==
    [scheme |-> scheme, host |-> host, username |-> username, password |-> password,
     garbled |-> "none"]
Garbled(username, part) == [ProxyUrl("socks5", "domain", username, 3) EXCEPT !.garbled = part]
SomeProxy == ProxyUrl("socks5", "domain", 0, 0)
MCProxyUrls ==
    {ProxyUrl(scheme, "domain", username, 3) : scheme \in {"socks5", "socks5h"}, username \in {0, 5, 255, 256}}
    \cup {ProxyUrl("socks5", "domain", 5, password) : password \in {0, 256}}
    \cup {ProxyUrl("http", "domain", 0, 0), ProxyUrl("socks5", "none", 0, 0), SomeProxy,
          ProxyUrl("socks5", "unparsable", 0, 0), Garbled(5, "username"), Garbled(5, "password"),
          Garbled(0, "password")}

\* Answers of a proxy: the right ones, refusals, and ones of another protocol.
MCMethods == {<<5, 0>>, <<5, 2>>, <<5, 255>>, <<4, 0>>}
MCStatuses == {<<1, 0>>, <<1, 1>>, <<5, 0>>}
Padding(n) == [i \in 1..n |-> 7]
MCReplies ==
    {<<5, 0, 0, 1>> \o Padding(6), <<5, 0, 0, 4>> \o Padding(18), <<5, 0, 0, 3, 3>> \o Padding(5),
     <<5, 0, 0, 3, 0>> \o Padding(2), <<5, 5, 0, 1>> \o Padding(6), <<5, 0, 0, 2>> \o Padding(6)}

Requested(version, connect, keys, versions, upgradable) ==
    [version |-> version, connect |-> connect, keys |-> keys, versions |-> versions,
     upgradable |-> upgradable]
MCOtherRequests ==
    {Requested(1, FALSE, keys, versions, upgradable) :
        keys \in {<< >>, <<"caller">>}, versions \in {<< >>, <<"8">>, <<"13">>, <<"8", "13">>},
        upgradable \in BOOLEAN}
    \cup {Requested(2, TRUE, keys, versions, TRUE) :
            keys \in {<< >>, <<"caller">>}, versions \in {<< >>, <<"8">>, <<"13">>}}
GoodRequests == {Requested(1, FALSE, <<"caller">>, <<"13">>, TRUE)}

Server(kind, versions, extended) == [kind |-> kind, versions |-> versions, extended |-> extended]
Modern == Server("upgrade", {1, 2}, TRUE)
Plan(api, version, tunnel, proxyurl, to, local, connector, headers, server, requests, compression, push) ==
    [api |-> api, version |-> version, proxy |-> tunnel, proxyUrl |-> proxyurl, url |-> to,
     local |-> local, connector |-> connector, headers |-> headers, server |-> server,
     requests |-> requests, compression |-> compression, push |-> push]

\* One plan per question: the calls on Options, every way to dial, every proxy,
\* TLS, every mix of client and server, and every negotiation.
MCPlans ==
    {Plan("stream", 1, FALSE, SomeProxy, SomeUrl, "none", "default", {}, Modern, {}, FALSE, 0)}
    \cup {Plan("tcp", 1, FALSE, SomeProxy, to, local, connector, {}, Modern, {}, FALSE, 0) :
            to \in MCTargets, local \in {"none", "v4", "v6"}, connector \in {"default", "custom", "missing"}}
    \cup {Plan("tcp", 1, TRUE, through, to, "none", "default", {}, Modern, {}, FALSE, 0) :
            through \in MCProxyUrls, to \in MCTargets}
    \cup {Plan(api, version, FALSE, SomeProxy, Url(scheme, "v4", 0, "none"), "none", connector,
               headers, Server(kind, versions, extended), {}, FALSE, 2) :
            api \in {"tcp", "http", "io", "reqwest"}, version \in {1, 2}, scheme \in {"ws", "wss"},
            connector \in {"default", "custom"}, headers \in SUBSET {"key", "version"},
            kind \in {"upgrade", "axum", "other"}, versions \in {{1}, {2}, {1, 2}}, extended \in BOOLEAN}
    \cup {Plan("io", version, FALSE, SomeProxy, Url("ftp", "v4", 0, "none"), "none", "default", {},
               Modern, {}, FALSE, 0) : version \in {1, 2}}
    \cup {Plan(api, 1, FALSE, SomeProxy, SomeUrl, "none", "default", {}, Modern, GoodRequests, TRUE, 0) :
            api \in {"io", "other"}}
    \cup {Plan("other", 1, FALSE, SomeProxy, SomeUrl, "none", "default", {},
               Server(kind, {1, 2}, TRUE), MCOtherRequests, FALSE, 0) : kind \in {"upgrade", "axum"}}
\* Only http_version chooses HTTP/2, and only a builder takes headers.
PlansInUse == {p \in MCPlans : /\ p.version = 2 => p.api \in {"http", "io"}
                               /\ p.api = "reqwest" => p.headers = {}
                               /\ p.api \in {"io", "reqwest"} => p.connector = "default"}

MCResponses ==
    {[status |-> status, upgrade |-> upgrade, connection |-> connection, accept |-> accept] :
        status \in {101, 200, 302}, upgrade \in BOOLEAN, connection \in BOOLEAN,
        accept \in {"none", "other", "generated"}}
=============================================================================
