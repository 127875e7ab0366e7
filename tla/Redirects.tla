----------------------------- MODULE Redirects ------------------------------
(***************************************************************************)
(* How the command line client connects (yawcc/src/connection.rs): the     *)
(* arguments it refuses, the chain of redirects it follows, how each hop   *)
(* is dialled, and the checks on the answer, all under one deadline.       *)
(*                                                                         *)
(* A URL is its scheme, its host and whether it carries credentials or a   *)
(* fragment; an origin is the scheme and the host.  Caller headers (-H,    *)
(* --auth, --origin, --host) go together.  Servers and proxies are         *)
(* external.                                                               *)
(***************************************************************************)
EXTENDS Integers, Sequences, FiniteSets

CONSTANTS Setups,     \* [url, proxy, override, headers, auth, cert, location,
                      \*  max_redirects, subprotocols]
          Locations,  \* where servers redirect to: a URL with its kind, one of
                      \* "absolute", "relative" (of this origin), "missing"
          Upgrades    \* [status, upgrade, accepts, protocols, extensions] of a server

VARIABLES setup,
          at,        \* where connect_inner is
          why,       \* the error, or "none"
          url,       \* of this hop
          hop,
          headers,   \* the caller's headers are still sent
          use_override,
          trips      \* one record per hop: what was shown to whom

rvars == <<setup, at, why, url, hop, headers, use_override, trips>>

Schemes == {"ws", "wss"} \cup {s.url.scheme : s \in Setups} \cup {l.scheme : l \in Locations}
Hosts == {s.url.host : s \in Setups} \cup {l.host : l \in Locations}
Url == [scheme : Schemes, host : Hosts, credentials : BOOLEAN, fragment : BOOLEAN]

ASSUME SetupsAssumption ==
    /\ \A s \in Setups :
          /\ s.url \in Url /\ s.max_redirects \in Nat
          /\ s.headers \in BOOLEAN /\ s.cert \in BOOLEAN /\ s.override \in BOOLEAN
    /\ \A l \in Locations : l.credentials \in BOOLEAN /\ l.fragment \in BOOLEAN

origin(u) == [scheme |-> u.scheme, host |-> u.host]
Trip(u, override) ==
    [to |-> origin(u), headers |-> FALSE, cert |-> FALSE, override |-> override,
     asked |-> FALSE, protocol |-> "none"]

Stop(e) == at' = "failed" /\ why' = e

validate_url(u) == u.scheme \in {"ws", "wss"} /\ u.host # "none" /\ ~u.fragment

RedirectsInit ==
    /\ setup \in Setups
    /\ at = "args" /\ why = "none" /\ url = setup.url /\ hop = 0
    /\ headers = setup.headers /\ use_override = TRUE /\ trips = << >>

\* Config::new: credentials in the URL and elsewhere exclude each other, and
\* leave the URL for the headers.
NewConfig ==
    /\ at = "args"
    /\ IF ~validate_url(url) THEN Stop("url") /\ UNCHANGED <<url, headers>>
       ELSE IF setup.proxy \notin {"none", "http", "https", "socks5", "socks5h"}
       THEN Stop("proxy") /\ UNCHANGED <<url, headers>>
       ELSE IF url.credentials /\ setup.auth THEN Stop("auth") /\ UNCHANGED <<url, headers>>
       ELSE /\ at' = "dial" /\ UNCHANGED why
            /\ headers' = (headers \/ url.credentials)
            /\ url' = [url EXCEPT !.credentials = FALSE]
    /\ UNCHANGED <<setup, hop, use_override, trips>>

\* dial(): to the override or to the host, through the proxy if there is one,
\* then TLS with the client's certificate.  A SOCKS5 proxy is left to Socks5; an
\* HTTP proxy is asked for a tunnel, over TLS without that certificate.
AfterDial == at' = (IF url.scheme = "wss" THEN "tls" ELSE "request")
Dial ==
    /\ at = "dial"
    /\ \/ Stop("dial") /\ UNCHANGED trips
       \/ /\ IF setup.proxy \in {"http", "https"} THEN at' = "connect" ELSE AfterDial
          /\ UNCHANGED why
          /\ trips' = Append(trips, Trip(url, use_override /\ setup.override))
    /\ UNCHANGED <<setup, url, hop, headers, use_override>>
Tunnel ==
    /\ at = "connect"
    /\ (\E e \in {"proxy tls", "proxy connect"} : Stop(e)) \/ (AfterDial /\ UNCHANGED why)
    /\ UNCHANGED <<setup, url, hop, headers, use_override, trips>>
Tls ==
    /\ at = "tls"
    /\ trips' = [trips EXCEPT ![Len(trips)].cert = setup.cert]
    /\ \/ Stop("tls")
       \/ at' = "request" /\ UNCHANGED why
    /\ UNCHANGED <<setup, url, hop, headers, use_override>>

\* The request, with its own headers over the caller's.
Ask ==
    /\ at = "request"
    /\ trips' = [trips EXCEPT ![Len(trips)] = [@ EXCEPT !.headers = headers, !.asked = TRUE]]
    /\ at' = "response" /\ UNCHANGED why
    /\ UNCHANGED <<setup, url, hop, headers, use_override>>

\* Url::join, and the scheme of a web page for the one of a WebSocket.
Joined(l) == IF l.kind = "relative" THEN url
             ELSE [scheme |-> CASE l.scheme = "http" -> "ws" [] l.scheme = "https" -> "wss"
                                [] OTHER -> l.scheme,
                   host |-> l.host, credentials |-> l.credentials, fragment |-> l.fragment]

KeepsHeaders(next_url) == headers /\ origin(url) = origin(next_url)

\* (fault) The schemes are compared with the first URL only.
DowngradesLate(next_url) == setup.url.scheme = "wss" /\ next_url.scheme # "wss"
Downgrades(next_url) == url.scheme = "wss" /\ next_url.scheme # "wss"

\* (fault) The certificate goes along.
CertificateLeavesAlways(next_url) == FALSE
CertificateLeaves(next_url) == setup.cert /\ origin(url) # origin(next_url)

\* A redirect that is followed or refused.
Redirect ==
    /\ at = "response" /\ setup.location
    /\ \E l \in Locations :
         LET next_url == Joined(l)
             refused == IF hop >= setup.max_redirects THEN "maximum redirects"
                        ELSE IF l.kind = "missing" THEN "location"
                        ELSE IF ~validate_url(next_url) THEN "url"
                        ELSE IF next_url.credentials THEN "credentials"
                        ELSE IF Downgrades(next_url) THEN "downgrade"
                        ELSE IF CertificateLeaves(next_url) THEN "certificate"
                        ELSE "none"
         IN IF refused # "none"
            THEN Stop(refused) /\ UNCHANGED <<url, hop, headers, use_override>>
            ELSE /\ url' = next_url /\ hop' = hop + 1
                 /\ headers' = KeepsHeaders(next_url)
                 /\ use_override' = (use_override /\ origin(url) = origin(next_url))
                 /\ at' = "dial" /\ UNCHANGED why
    /\ UNCHANGED <<setup, trips>>

ProtocolFine(p) ==
    /\ Cardinality(p) <= 1
    /\ p = {} => setup.subprotocols = {}
    /\ p \subseteq setup.subprotocols
\* At most one extension, the one offered, each parameter once: the contexts as
\* flags, the server's window within its range, nothing of the client's window.
parse_extensions(values) ==
    values # << >> =>
        /\ Len(values) = 1 /\ values[1].name = "permessage-deflate"
        /\ LET params == values[1].params
           IN \A i \in 1..Len(params) :
                /\ \A j \in 1..(i - 1) : params[i][1] # params[j][1]
                /\ \/ params[i][1] \in {"client_nct", "server_nct"} /\ params[i][2] = 0
                   \/ params[i][1] = "server_bits" /\ params[i][2] \in 8..15
\* Any other answer: has_token, the one accept value, the subprotocol and the
\* extensions; from_stream_with_extensions then takes over.
Answer ==
    /\ at = "response"
    /\ \E u \in Upgrades :
         IF u.status # 101 THEN Stop("status") /\ UNCHANGED trips
         ELSE IF ~u.upgrade THEN Stop("upgrade") /\ UNCHANGED trips
         ELSE IF u.accepts # <<"right">> THEN Stop("accept") /\ UNCHANGED trips
         ELSE IF ~ProtocolFine(u.protocols) THEN Stop("subprotocol") /\ UNCHANGED trips
         ELSE IF ~parse_extensions(u.extensions) THEN Stop("extensions") /\ UNCHANGED trips
         ELSE /\ at' = "open" /\ UNCHANGED why
              /\ trips' = [trips EXCEPT ![Len(trips)].protocol =
                              IF u.protocols = {} THEN "none" ELSE CHOOSE p \in u.protocols : TRUE]
    /\ UNCHANGED <<setup, url, hop, headers, use_override>>

Connecting == at \in {"dial", "connect", "tls", "request", "response"}
\* connect(): one timer over all of it.
Deadline ==
    /\ Connecting /\ Stop("deadline")
    /\ UNCHANGED <<setup, url, hop, headers, use_override, trips>>

RedirectsStep == NewConfig \/ Dial \/ Tunnel \/ Tls \/ Ask \/ Redirect \/ Answer \/ Deadline
RedirectsSpec ==
    RedirectsInit /\ [][RedirectsStep]_rvars /\ WF_rvars(NewConfig) /\ WF_rvars(Deadline)

-----------------------------------------------------------------------------
\* connect_inner: along any chain of redirects, back and forth, the caller's
\* headers, the address that overrides DNS and the client's certificate are
\* used only towards the origin of the URL the caller gave.
CredentialsStayHome ==
    \A i \in 1..Len(trips) :
        trips[i].headers \/ trips[i].cert \/ trips[i].override =>
            trips[i].to = origin(setup.url)

\* connect_inner: the chain never leaves wss once it has reached it.
NeverDowngrades ==
    \A i, j \in 1..Len(trips) : i < j /\ trips[i].to.scheme = "wss" => trips[j].to.scheme = "wss"

\* connect_inner: headers that were dropped on the way do not come back, so
\* those sent form a beginning of the chain, which has at most one hop more
\* than the redirects allowed.
HeadersOnlyAtFirst ==
    /\ Len(trips) <= setup.max_redirects + 1
    /\ \A i, j \in 1..Len(trips) :
          i < j /\ trips[j].headers => trips[i].headers \/ ~trips[i].asked

=============================================================================
