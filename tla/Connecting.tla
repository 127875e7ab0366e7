----------------------------- MODULE Connecting -----------------------------
(***************************************************************************)
(* From a URL to an open WebSocket: the builder, the dial (directly, from  *)
(* a chosen local address, or through a SOCKS5 proxy), TLS, the request of *)
(* HTTP/1.1 or of HTTP/2 extended CONNECT, the server's two ways to accept *)
(* it, and the checks of the client.  The permessage-deflate part of the   *)
(* handshake is Negotiation, whose steps happen inside the steps here, and *)
(* the proxy conversation is Socks5.                                       *)
(*                                                                         *)
(* A plan is what one run starts from.  The field api is the call that     *)
(* connects: "tcp" (WebSocket::connect), "http" (the same after            *)
(* http_version), "io" (handshake over a stream the caller opened),        *)
(* "reqwest", "stream" (from_stream, which skips all this) or "other" (a   *)
(* client of another kind, which only our server sees).                    *)
(***************************************************************************)
EXTENDS Negotiation, Socks5, Options

CONSTANTS Plans,         \* [api, version, proxy, proxyUrl, url, local, connector, headers,
                         \*  server, requests (of another client), compression, push]
          Responses      \* responses of other servers

VARIABLES plan, stage, failure,
          reach,      \* the kinds of address that can be reached
          addresses,  \* the kinds of the addresses still to try
          log,        \* what was written to the network, in order
          request, response,
          pushed,     \* bytes the server has sent as a WebSocket
          ahead,      \* those that hyper read with the response
          replay,     \* those the upgraded stream still holds
          codecIn     \* those the frame codec has been given
cvars == <<plan, stage, failure, reach, addresses, log, request, response, pushed, ahead,
           replay, codecIn>>
allvars == <<vars, svars, ovars, cvars>>

NoRequest == [version |-> 0, connect |-> FALSE, keys |-> << >>, versions |-> << >>, upgradable |-> FALSE]
NoResponse == [status |-> 0, upgrade |-> FALSE, connection |-> FALSE, accept |-> "none"]
Secure == url.scheme \in {"wss", "https"}

\* Negotiation's own Init for the plans about compression; neither side
\* compresses in the others.
ConnectingInit ==
    /\ plan \in Plans
    /\ url = plan.url /\ proxyUrl = plan.proxyUrl /\ SocksInit
    /\ OptionsInit
    /\ ours = (plan.api # "other")
    /\ \/ plan.compression
       \/ /\ ~plan.compression
          /\ options = [Client |-> Disabled, Server |-> Disabled]
          /\ zlib = [Client |-> TRUE, Server |-> TRUE]
    /\ Init
    /\ stage = (IF plan.api = "other" THEN "requesting" ELSE "builder") /\ failure = "none"
    /\ reach \in IF plan.api \in {"tcp", "http"} /\ ~plan.proxy THEN SUBSET {"v4", "v6"} ELSE {{"v4", "v6"}}
    /\ addresses = << >> /\ log = << >>
    /\ request = NoRequest /\ response = NoResponse
    /\ pushed = 0 /\ ahead = 0 /\ replay = << >> /\ codecIn = << >>

\* The error "broken" stands for whatever hyper, HTTP/2 or reqwest report of a
\* connection that failed underneath them.
Abort(e) == stage' = "failed" /\ failure' = e
Go(next_stage) == stage' = next_stage /\ UNCHANGED failure

-----------------------------------------------------------------------------
(* The builder and the dial. *)

\* Options may be set as long as the builder was not polled.
Configure ==
    /\ stage = "builder" /\ plan.api = "stream" /\ With
    /\ UNCHANGED <<vars, svars, cvars>>

\* from_stream and from_stream_with_extensions: no handshake of our own.
FromStream ==
    /\ stage = "builder" /\ plan.api = "stream" /\ Go("open")
    /\ UNCHANGED <<vars, svars, ovars, plan, reach, addresses, log, request, response,
                   pushed, ahead, replay, codecIn>>

\* The first poll takes the builder's options and starts connect_stream: the
\* scheme, and the TLS connector, are checked before anything is dialled.
\* A reqwest client dials by itself, and a caller's stream is dialled.
Poll ==
    /\ stage = "builder" /\ plan.api \in {"tcp", "http", "io", "reqwest"}
    /\ IF plan.api \in {"io", "reqwest"} THEN Go("http")
       ELSE IF url.scheme \notin {"ws", "wss"} THEN Abort("InvalidHttpScheme")
       ELSE IF Secure /\ plan.connector = "missing" THEN Abort("MissingTlsConnector")
       ELSE Go(IF plan.proxy THEN "proxy" ELSE "lookup")
    /\ UNCHANGED <<vars, svars, ovars, plan, reach, addresses, log, request, response,
                   pushed, ahead, replay, codecIn>>

\* dial() and connect_tcp without a proxy: the pinned address, the literal,
\* or what the name resolves to; from a local address, those of its kind.
LookedUp == IF url.pinned # "none" THEN {<<url.pinned>>}
            ELSE IF url.host # "domain" THEN {<<url.host>>}
            ELSE {<< >>, <<"v4">>, <<"v6", "v4">>, <<"v4", "v6", "v4">>}
OfKind(kind, list) == SelectSeq(list, LAMBDA a : kind \in {"none", a})
Lookup ==
    /\ stage = "lookup"
    /\ \E found \in LookedUp : addresses' = OfKind(plan.local, found)
    /\ Go("dial")
    /\ UNCHANGED <<vars, svars, ovars, plan, reach, log, request, response, pushed, ahead,
                   replay, codecIn>>

\* (fault) Every connection is taken for a plain one.
ConnectedPlain == "http"
Connected == IF Secure THEN "tls" ELSE "http"

\* One round of the loop over the addresses; the last error is the result,
\* except that a local address that cannot be bound ends the loop.
DialNext ==
    /\ stage = "dial"
    /\ \/ addresses = << >> /\ Abort("dial") /\ UNCHANGED addresses
       \/ addresses # << >> /\ plan.local # "none" /\ Abort("bind") /\ UNCHANGED addresses
       \/ addresses # << >> /\ Head(addresses) \in reach /\ Go(Connected) /\ addresses' = << >>
       \/ /\ addresses # << >> /\ Head(addresses) \notin reach
          /\ addresses' = Tail(addresses) /\ UNCHANGED <<stage, failure>>
    /\ UNCHANGED <<vars, svars, ovars, plan, reach, log, request, response, pushed, ahead,
                   replay, codecIn>>

\* The dial through the proxy: its own steps, and what they come to.
ViaProxy ==
    /\ stage = "proxy" /\ step \notin {"open", "failed"}
    /\ SocksNext
    /\ log' = IF Len(sent') > Len(sent) THEN Append(log, sent'[Len(sent')].msg) ELSE log
    /\ UNCHANGED <<vars, ovars, plan, stage, failure, reach, addresses, request, response,
                   pushed, ahead, replay, codecIn>>
ProxyDone ==
    /\ stage = "proxy" /\ step \in {"open", "failed"}
    /\ IF step = "open" THEN Go(Connected) ELSE Abort(error)
    /\ UNCHANGED <<vars, svars, ovars, plan, reach, addresses, log, request, response,
                   pushed, ahead, replay, codecIn>>

\* TLS, by the name in the URL; a bracketed IPv6 literal is no server name.
\* The default connector offers the protocol of this version only, so that a
\* server without it ends the handshake.
Tls ==
    /\ stage = "tls"
    /\ IF url.host = "v6" THEN Abort("invalid dnsname") /\ UNCHANGED log
       ELSE /\ log' = Append(log, "hello")
            /\ IF plan.connector = "default" /\ plan.version \notin plan.server.versions
               THEN Abort("tls")
               ELSE Abort("tls") \/ Go("http")
    /\ UNCHANGED <<vars, svars, ovars, plan, reach, addresses, request, response, pushed,
                   ahead, replay, codecIn>>

-----------------------------------------------------------------------------
(* The request. *)

\* http1_upgrade appends its headers to the caller's: what the caller set for
\* the key or the version comes first.  build_request sends no key of its own
\* and replaces the version.
BuiltRequest ==
    LET own(header_name) == header_name \in plan.headers
    IN IF plan.version = 2
       THEN [version |-> 2, connect |-> TRUE, keys |-> IF own("key") THEN <<"caller">> ELSE << >>,
             versions |-> <<"13">>, upgradable |-> TRUE]
       ELSE [version |-> 1, connect |-> FALSE,
             keys |-> IF own("key") THEN <<"caller", "generated">> ELSE <<"generated">>,
             versions |-> IF own("version") THEN <<"caller", "13">> ELSE <<"13">>,
             upgradable |-> TRUE]
\* build_request maps the scheme, which nobody checked for a caller's stream.
HasHttpScheme == plan.version = 2 => url.scheme \in {"ws", "wss", "http", "https"}
SendRequest ==
    /\ stage = "http"
    /\ \/ /\ ~HasHttpScheme /\ Abort("InvalidHttpScheme")
          /\ UNCHANGED <<vars, request, log>>
       \/ /\ HasHttpScheme /\ Connect
          /\ request' = BuiltRequest /\ log' = Append(log, "http")
          /\ Go("requested")
    /\ UNCHANGED <<svars, ovars, plan, reach, addresses, response, pushed, ahead, replay, codecIn>>

\* handshake, and then send_request, fail: before the request has left, before
\* the server has decided, or with its answer on the way.  The server may still
\* decide behind the second case, which looks like the third.
ConnectionBreaks ==
    /\ stage \in {"http", "requested", "responded"} /\ plan.api # "other" /\ HasHttpScheme
    /\ Abort("broken")
    /\ UNCHANGED <<vars, svars, ovars, plan, reach, addresses, log, request, response, pushed,
                   ahead, replay, codecIn>>

\* A request of another client reaches the server.
OtherRequest ==
    /\ stage = "requesting" /\ ConnectOther
    /\ request' \in plan.requests /\ Go("requested")
    /\ UNCHANGED <<svars, ovars, plan, reach, addresses, log, response, pushed, ahead, replay,
                   codecIn>>

-----------------------------------------------------------------------------
(* The server. *)

First(values) == IF values = << >> THEN "none" ELSE values[1]
\* Sec-WebSocket-Accept is a hash of the key, and stands for it here.
sec_websocket_protocol(key) == key
Rejection == [status |-> 400, upgrade |-> FALSE, connection |-> FALSE, accept |-> "none"]
SwitchingProtocols(accept) == [status |-> 101, upgrade |-> TRUE, connection |-> TRUE, accept |-> accept]
ExtendedConnect == [status |-> 200, upgrade |-> FALSE, connection |-> FALSE, accept |-> "none"]

\* handshake_response and the check behind it in upgrade_with_options; an
\* error is answered with 400 by the handler.
upgrade_with_options(req) ==
    IF ~req.connect /\ req.keys = << >> THEN Rejection
    ELSE IF First(req.versions) # "13" THEN Rejection
    ELSE IF req.connect THEN ExtendedConnect
    ELSE SwitchingProtocols(sec_websocket_protocol(First(req.keys)))

\* The axum extractor, and IncomingUpgrade::upgrade for what it lets through.
from_request_parts(req) ==
    IF ~req.connect /\ req.keys = << >> THEN Rejection
    ELSE IF First(req.versions) # "13" THEN Rejection
    ELSE IF ~req.upgradable THEN Rejection
    ELSE IF req.connect THEN ExtendedConnect
    ELSE SwitchingProtocols(sec_websocket_protocol(First(req.keys)))

ServerAnswer == IF plan.server.kind = "axum" THEN from_request_parts(request)
                ELSE upgrade_with_options(request)
Understood == request.version \in plan.server.versions

\* No answer: the server speaks another HTTP version, or resets a stream whose
\* :protocol it does not know; connect_error names the second case.
NoAnswer ==
    /\ stage = "requested"
    /\ ~Understood \/ (request.connect /\ ~plan.server.extended)
    /\ Abort(IF Understood THEN "ExtendedConnectNotSupported" ELSE "broken")
    /\ UNCHANGED <<vars, svars, ovars, plan, reach, addresses, log, request, response, pushed,
                   ahead, replay, codecIn>>

ReachesHandler == Understood /\ (request.connect => plan.server.extended)
\* Another server answers as it likes.
OtherResponds ==
    /\ stage = "requested" /\ ReachesHandler /\ plan.server.kind = "other"
    /\ response' \in Responses /\ Go("responded")
    /\ UNCHANGED <<vars, svars, ovars, plan, reach, addresses, log, request, pushed, ahead,
                   replay, codecIn>>
\* Ours turns the request down ...
Reject ==
    /\ stage = "requested" /\ ReachesHandler /\ plan.server.kind # "other"
    /\ ServerAnswer = Rejection
    /\ response' = Rejection /\ Go("responded")
    /\ UNCHANGED <<vars, svars, ovars, plan, reach, addresses, log, request, pushed, ahead,
                   replay, codecIn>>
\* ... or goes through the offers and answers, its settings resolved.
Consider ==
    /\ stage = "requested" /\ ReachesHandler /\ plan.server.kind # "other"
    /\ ServerAnswer # Rejection
    /\ \/ Decline /\ UNCHANGED <<stage, failure, response>>
       \/ (Accept \/ AnswerNone) /\ response' = ServerAnswer /\ Go("responded")
    /\ UNCHANGED <<svars, ovars, plan, reach, addresses, log, request, pushed, ahead, replay,
                   codecIn>>

\* UpgradeFut is ready once the response is on its way: the WebSocket of the
\* server may send at once, before the client has read the response.
Accepting == response.status = (IF request.connect THEN 200 ELSE 101)
ServerSends ==
    /\ stage \in {"responded", "open"} /\ plan.api # "stream"
    /\ Accepting /\ request.upgradable /\ pushed < plan.push
    /\ pushed' = pushed + 1
    /\ UNCHANGED <<vars, svars, ovars, plan, stage, failure, reach, addresses, log, request,
                   response, ahead, replay, codecIn>>

-----------------------------------------------------------------------------
(* The client again. *)

\* (fault) HTTP/2 is expected to switch protocols as well.
verifySwitching ==
    IF response.status # 101 THEN "InvalidStatusCode"
    ELSE IF response.accept # sec_websocket_protocol("generated") THEN "InvalidUpgradeHeader"
    ELSE "none"
\* verify, verify_upgrade, connection_lists_upgrade and verify_accept; reqwest
\* has followed redirects by itself.  http2::verify looks at the status only.
verify ==
    IF plan.version = 2 THEN IF response.status = 200 THEN "none" ELSE "InvalidStatusCode"
    ELSE IF plan.api # "reqwest" /\ response.status \in 300..399 THEN "Redirected"
    ELSE IF response.status # 101 THEN "InvalidStatusCode"
    ELSE IF ~response.upgrade THEN "InvalidUpgradeHeader"
    ELSE IF ~response.connection THEN "InvalidConnectionHeader"
    ELSE IF response.accept # sec_websocket_protocol("generated") THEN "InvalidUpgradeHeader"
    ELSE "none"

TakenBack == plan.api \in {"tcp", "io"} /\ plan.version = 1
\* (fault) What hyper read behind the response is dropped with its buffer.
HandOverEmpty(n) ==
    /\ replay' = IF TakenBack THEN << >> ELSE [i \in 1..n |-> i]
    /\ codecIn' = << >>
\* handshake_with_request takes the stream back and gives read_buf to the
\* codec; elsewhere, and over HTTP/2, Upgraded yields those bytes first.
HandOver(n) ==
    IF TakenBack THEN codecIn' = [i \in 1..n |-> i] /\ replay' = << >>
    ELSE replay' = [i \in 1..n |-> i] /\ codecIn' = << >>

\* The response, and the bytes that were read with it.  A response that passes
\* is of no use when upgrade::on fails.
ReadResponse ==
    /\ stage = "responded" /\ plan.api # "other"
    /\ IF verify = "none" /\ phase = "answered" THEN Verify ELSE UNCHANGED vars
    /\ IF verify = "none" /\ config'["Client"].result # "failed"
       THEN \/ \E n \in 0..pushed : Go("open") /\ ahead' = n /\ HandOver(n)
            \/ Abort("broken") /\ UNCHANGED <<ahead, replay, codecIn>>
       ELSE /\ Abort(IF verify = "none" THEN "ExtensionNotOffered" ELSE verify)
            /\ UNCHANGED <<ahead, replay, codecIn>>
    /\ UNCHANGED <<svars, ovars, plan, reach, addresses, log, request, response, pushed>>

\* HttpStream and MaybeTlsStream pass reads through to the stream they hold.
ReadStream ==
    /\ stage = "open"
    /\ \/ /\ replay # << >>
          /\ codecIn' = Append(codecIn, Head(replay)) /\ replay' = Tail(replay) /\ UNCHANGED ahead
       \/ /\ replay = << >> /\ ahead < pushed
          /\ ahead' = ahead + 1 /\ codecIn' = Append(codecIn, ahead + 1) /\ UNCHANGED replay
    /\ UNCHANGED <<vars, svars, ovars, plan, stage, failure, reach, addresses, log, request,
                   response, pushed>>

ConnectingNext ==
    \/ Configure \/ FromStream \/ Poll \/ Lookup \/ DialNext \/ ViaProxy \/ ProxyDone \/ Tls
    \/ SendRequest \/ ConnectionBreaks \/ OtherRequest \/ NoAnswer \/ OtherResponds \/ Reject \/ Consider
    \/ ServerSends \/ ReadResponse \/ ReadStream
ConnectingSpec == ConnectingInit /\ [][ConnectingNext]_allvars

-----------------------------------------------------------------------------
(* Properties. *)

\* connect_stream, dial and http1_upgrade: nothing meant for the target leaves
\* before the proxy has opened the tunnel, nothing meant for the proxy leaves
\* after that, and the request to a wss URL leaves inside TLS only.
RequestInsideTunnel ==
    \A i \in 1..Len(log) :
        log[i] \in {"hello", "http"} /\ plan.api \in {"tcp", "http"} =>
            /\ plan.proxy => step = "open"
            /\ \A j \in i..Len(log) : log[j] \in {"hello", "http"}
            /\ log[i] = "http" /\ Secure => \E j \in 1..i : log[j] = "hello"

\* http1_upgrade, build_request, both server entry points and both verify
\* functions together: our client has a WebSocket only if our server accepted,
\* both settled on the extensions, over the HTTP version that was asked for;
\* and it turns down no answer of a server that accepted.  So the two differ
\* only when the connection broke before the client had its upgrade.  A caller
\* that sets Sec-WebSocket-Key on an HTTP/1.1 request is refused although the
\* server accepted, and is left out.
VerdictsAgree ==
    response # NoResponse /\ plan.server.kind # "other" =>
        /\ stage = "open" => Accepting /\ phase = "done" /\ request.version = plan.version
        /\ stage = "failed" /\ failure # "broken" /\ ~(plan.version = 1 /\ "key" \in plan.headers) =>
              ~Accepting

\* http1_upgrade, handshake_with_request and Streaming::new: the bytes the
\* server sent behind its response reach the codec in order, none lost and
\* none twice, however many of them hyper read with the response.
PushedArrive ==
    stage = "open" /\ plan.api # "stream" => codecIn \o replay = [i \in 1..ahead |-> i]
=============================================================================
