------------------------------- MODULE Socks5 -------------------------------
(***************************************************************************)
(* Dialling through a SOCKS5 proxy (src/native/socks5.rs): the proxy URL,  *)
(* what the proxy is asked to reach, and the conversation with it up to    *)
(* the byte where the tunnel begins.  The proxy, and the target behind it, *)
(* are external; a byte keeps the name of the one that wrote it.           *)
(*                                                                         *)
(* What is written is recorded message by message, with the lengths its    *)
(* length bytes declare.  Every read is a read_exact, so how the proxy's   *)
(* bytes are cut makes no difference.                                      *)
(***************************************************************************)
EXTENDS Integers, Sequences

CONSTANTS ProxyUrls,  \* [scheme, host, username, password, garbled]: two lengths, and the
                      \* part of the user info, if any, that decodes to no UTF-8
          Targets,    \* [scheme, host, len, pinned]: the URL to reach, tcp_address
          Methods,    \* byte sequences a proxy answers a greeting with ...
          Statuses,   \* ... the credentials with ...
          Replies,    \* ... and the request with
          TargetBytes \* how many bytes the target has sent by then, at most

ASSUME LengthsAssumption ==
    /\ \A p \in ProxyUrls : p.username \in Nat /\ p.password \in Nat
    /\ \A t \in Targets : t.len \in Nat
\* A proxy sends two bytes, two bytes, and a reply that is as long as it says
\* (RFC 1928, sections 3 and 6; RFC 1929, section 2).
ASSUME ProxyAssumption ==
    /\ TargetBytes \in Nat
    /\ \A m \in Methods \cup Statuses : m \in Seq(Nat) /\ Len(m) = 2
    /\ \A r \in Replies :
         /\ r \in Seq(Nat) /\ Len(r) >= 4
         /\ r[1] = 5 /\ r[2] = 0 =>
               /\ r[4] = 1 => Len(r) = 10
               /\ r[4] = 4 => Len(r) = 22
               /\ r[4] = 3 => Len(r) >= 5 /\ Len(r) = r[5] + 7

VARIABLES proxyUrl, url, proxy, target, step, error,
          sent,      \* the messages written to the proxy
          taken,     \* how many of them the proxy has answered
          inbound,   \* bytes that have arrived and were not read
          read,      \* the bytes dialling has read
          bound      \* the length of the bound address in the reply, with its port

svars == <<proxyUrl, url, proxy, target, step, error, sent, taken, inbound, read, bound>>

VERSION == 5
AUTH_VERSION == 1
Limit == 255  \* MAX_CREDENTIAL_LEN, MAX_HOSTNAME_LEN
NoProxy == [auth |-> FALSE, username |-> 0, password |-> 0, remote_dns |-> FALSE]
NoTarget == [kind |-> "none", len |-> 0]

\* `x as u8' of a length.
as_u8(n) == n % 256
Greeting(auth) == [msg |-> "greeting", methods |-> IF auth THEN {0, 2} ELSE {0},
                   declared |-> <<>>, lengths |-> <<>>]
Credentials == [msg |-> "auth", methods |-> {},
                declared |-> <<as_u8(proxy.username), as_u8(proxy.password)>>,
                lengths |-> <<proxy.username, proxy.password>>]
\* send_request: a domain is preceded by its length, an address by its kind.
Request == [msg |-> "request", methods |-> {},
            declared |-> IF target.kind = "domain" THEN <<as_u8(target.len)>> ELSE <<>>,
            lengths |-> IF target.kind = "domain" THEN <<target.len>> ELSE <<>>]

SocksInit ==
    /\ proxyUrl \in ProxyUrls /\ url \in Targets
    /\ proxy = NoProxy /\ target = NoTarget
    /\ step = "url" /\ error = "none"
    /\ sent = << >> /\ taken = 0 /\ inbound = << >> /\ read = << >> /\ bound = 0

Fail(e) == step' = "failed" /\ error' = e

\* Proxy::socks5 and decode: an opaque host is parsed again, and the password
\* is looked at only behind a username.
ParseError ==
    IF proxyUrl.scheme \notin {"socks5", "socks5h"} THEN "UnsupportedScheme"
    ELSE IF proxyUrl.host = "none" THEN "MissingHost"
    ELSE IF proxyUrl.host = "unparsable" THEN "ParseError"
    ELSE IF \/ proxyUrl.garbled = "username"
            \/ proxyUrl.username > 0 /\ proxyUrl.garbled = "password" THEN "InvalidCredentials"
    ELSE IF proxyUrl.username > 0 /\ (proxyUrl.username > Limit \/ proxyUrl.password > Limit)
         THEN "CredentialsTooLong"
    ELSE "none"

\* A URL without a username carries no credentials.
ParseProxy ==
    /\ step = "url"
    /\ proxy' = [auth |-> proxyUrl.username > 0, username |-> proxyUrl.username,
                 password |-> IF proxyUrl.username > 0 THEN proxyUrl.password ELSE 0,
                 remote_dns |-> proxyUrl.scheme = "socks5h"]
    /\ IF ParseError = "none" THEN step' = "target" /\ UNCHANGED error ELSE Fail(ParseError)
    /\ UNCHANGED <<proxyUrl, url, target, sent, taken, inbound, read, bound>>

\* Proxy::target and the checks of connect_from before it: the pinned
\* address, the literal, the name itself, or the first address it has here.
Resolved ==
    IF url.pinned # "none" THEN {url.pinned}
    ELSE IF url.host # "domain" THEN {url.host}
    ELSE IF proxy.remote_dns THEN {"domain"} ELSE {"v4", "v6", "none"}
ResolveTarget ==
    /\ step = "target"
    /\ IF url.scheme \notin {"ws", "wss", "http", "https"}
       THEN Fail("InvalidHttpScheme") /\ UNCHANGED target
       ELSE \E kind \in Resolved :
              IF kind = "none" THEN Fail("NotFound") /\ UNCHANGED target
              ELSE /\ target' = [kind |-> kind, len |-> IF kind = "domain" THEN url.len ELSE 0]
                   /\ step' = "dial" /\ UNCHANGED error
    /\ UNCHANGED <<proxyUrl, url, proxy, sent, taken, inbound, read, bound>>

\* Proxy::dial, and the start of connect(): a name that fits in no request is
\* refused before the greeting.
Dial ==
    /\ step = "dial"
    /\ \/ Fail("dial") /\ UNCHANGED sent
       \/ IF target.kind = "domain" /\ target.len > Limit
          THEN Fail("HostnameTooLong") /\ UNCHANGED sent
          ELSE step' = "method" /\ sent' = Append(sent, Greeting(proxy.auth)) /\ UNCHANGED error
    /\ UNCHANGED <<proxyUrl, url, proxy, target, taken, inbound, read, bound>>

\* read_exact: the bytes read, from the proxy or from whoever comes next.
Needs == CASE step \in {"method", "status"} -> 2 [] step = "reply" -> 4
           [] step = "length" -> 1 [] step = "bound" -> bound [] OTHER -> 0
Read(n) ==
    /\ Len(inbound) >= n
    /\ read' = read \o SubSeq(inbound, 1, n)
    /\ inbound' = SubSeq(inbound, n + 1, Len(inbound))

\* negotiate() after the greeting.  Credentials are sent if there are any.
\* (fault) The request goes out although the proxy wants them first.
AfterMethodAtOnce(chosen) == IF chosen \in {0, 2} THEN "reply" ELSE "failed"
AfterMethod(chosen) ==
    CASE chosen = 0 -> "reply" [] chosen = 2 /\ proxy.auth -> "status" [] OTHER -> "failed"
ReadMethod ==
    /\ step = "method" /\ Read(2)
    /\ LET chosen == inbound[2].byte
       IN \/ inbound[1].byte # VERSION /\ Fail("UnsupportedVersion") /\ UNCHANGED sent
          \/ /\ inbound[1].byte = VERSION /\ AfterMethod(chosen) = "failed"
             /\ Fail(IF chosen = 255 THEN "NoAcceptableAuth" ELSE "UnsupportedMethod") /\ UNCHANGED sent
          \/ /\ inbound[1].byte = VERSION /\ AfterMethod(chosen) # "failed"
             /\ step' = AfterMethod(chosen) /\ UNCHANGED error
             /\ sent' = Append(sent, IF step' = "reply" THEN Request ELSE Credentials)
    /\ UNCHANGED <<proxyUrl, url, proxy, target, taken, bound>>

\* authenticate() after the credentials.
ReadStatus ==
    /\ step = "status" /\ Read(2)
    /\ IF inbound[1].byte # AUTH_VERSION THEN Fail("UnsupportedVersion") /\ UNCHANGED sent
       ELSE IF inbound[2].byte # 0 THEN Fail("AuthFailed") /\ UNCHANGED sent
       ELSE step' = "reply" /\ sent' = Append(sent, Request) /\ UNCHANGED error
    /\ UNCHANGED <<proxyUrl, url, proxy, target, taken, bound>>

\* (fault) The port behind the bound address is left in the stream.
BoundLengthShort(kind) == CASE kind = 1 -> 4 [] kind = 4 -> 16 [] OTHER -> 0

BoundLength(kind) == CASE kind = 1 -> 4 + 2 [] kind = 4 -> 16 + 2 [] OTHER -> 0

\* read_reply: the head; a name is preceded by its length ...
ReadHead ==
    /\ step = "reply" /\ Read(4)
    /\ LET kind == inbound[4].byte
       IN IF inbound[1].byte # VERSION THEN Fail("UnsupportedVersion") /\ UNCHANGED bound
          ELSE IF inbound[2].byte # 0 THEN Fail("Rejected") /\ UNCHANGED bound
          ELSE IF kind \notin {1, 3, 4} THEN Fail("InvalidAddressType") /\ UNCHANGED bound
          ELSE /\ step' = IF kind = 3 THEN "length" ELSE "bound"
               /\ bound' = BoundLength(kind) /\ UNCHANGED error
    /\ UNCHANGED <<proxyUrl, url, proxy, target, sent, taken>>
ReadLength ==
    /\ step = "length" /\ Read(1)
    /\ bound' = inbound[1].byte + 2 /\ step' = "bound"
    /\ UNCHANGED <<proxyUrl, url, proxy, target, error, sent, taken>>

\* ... and the bound address and port, which leave the stream unused.
ReadBound ==
    /\ step = "bound" /\ Read(bound)
    /\ step' = "open"
    /\ UNCHANGED <<proxyUrl, url, proxy, target, error, sent, taken, bound>>

\* read_exact fails: the connection ended before the bytes it needs.
ReadEof ==
    /\ Needs > Len(inbound) /\ Fail("io")
    /\ UNCHANGED <<proxyUrl, url, proxy, target, sent, taken, inbound, read, bound>>

\* The proxy answers the next message; once it reports success it relays.
Bytes(from, bytes) == [i \in 1..Len(bytes) |-> [from |-> from, byte |-> bytes[i]]]
Answers(msg) == CASE msg = "greeting" -> Methods [] msg = "auth" -> Statuses [] OTHER -> Replies
ProxyAnswers ==
    /\ taken < Len(sent)
    /\ \E bytes \in Answers(sent[taken + 1].msg), n \in 0..TargetBytes :
         /\ n > 0 => sent[taken + 1].msg = "request" /\ bytes[2] = 0
         /\ inbound' = inbound \o Bytes("proxy", bytes) \o Bytes("target", [i \in 1..n |-> 5])
    /\ taken' = taken + 1
    /\ UNCHANGED <<proxyUrl, url, proxy, target, step, error, sent, read, bound>>

SocksStep ==
    \/ ParseProxy \/ ResolveTarget \/ Dial \/ ReadMethod \/ ReadStatus \/ ReadHead
    \/ ReadLength \/ ReadBound \/ ReadEof
SocksNext == SocksStep \/ ProxyAnswers
SocksSpec == SocksInit /\ [][SocksNext]_svars

-----------------------------------------------------------------------------
\* read_reply reads the proxy's reply to its last byte and no further,
\* whichever kind of bound address it holds: the target's bytes are all
\* still there, and nothing in front of them.
TunnelClean ==
    /\ \A i \in 1..Len(read) : read[i].from = "proxy"
    /\ step = "open" => \A i \in 1..Len(inbound) : inbound[i].from = "target"

\* What the proxy is told fits the one byte that declares its length: neither
\* credentials nor a name reach the wire cut off modulo 256.
LengthsExact ==
    \A i \in 1..Len(sent) : sent[i].declared = sent[i].lengths

\* negotiate and authenticate: credentials go only to a proxy that asked for
\* them, after it was offered that method; the request follows the greeting
\* only when the proxy asked for nothing, and otherwise the credentials, once
\* the proxy has accepted them.
CredentialsAsked ==
    \A i \in 1..Len(sent) :
        /\ sent[i].msg = "auth" =>
              /\ i = 2 /\ 2 \in sent[1].methods
              /\ Len(read) >= 2 /\ read[2].byte = 2
        /\ sent[i].msg = "request" =>
              \/ i = 2 /\ Len(read) >= 2 /\ read[2].byte = 0
              \/ i = 3 /\ sent[2].msg = "auth" /\ Len(read) >= 4 /\ read[4].byte = 0
=============================================================================
