-------------------------- MODULE RedirectsProofs ---------------------------
(***************************************************************************)
(* The chain of redirects, for every setup, every number of hops and every *)
(* set of locations: what was meant for the first origin stays there.      *)
(***************************************************************************)
EXTENDS Redirects, TLAPS

Protocols == {"none"} \cup UNION {u.protocols : u \in Upgrades}
TripType == [to : [scheme : {"ws", "wss"}, host : Hosts], headers : BOOLEAN, cert : BOOLEAN,
             override : BOOLEAN, asked : BOOLEAN, protocol : Protocols]
Home(u) == origin(u) = origin(setup.url)

\* Types, and how far the chain has come at each place of connect_inner.
Shape ==
    /\ setup \in Setups /\ url \in Url /\ hop \in 0..setup.max_redirects
    /\ headers \in BOOLEAN /\ use_override \in BOOLEAN
    /\ trips \in Seq(TripType)
    /\ Len(trips) <= hop + 1
    /\ at \in {"args", "dial", "connect", "tls", "request", "response", "open", "failed"}
    /\ at = "args" => trips = << >> /\ hop = 0 /\ origin(url) = origin(setup.url)
    /\ at = "dial" => Len(trips) = hop
    /\ at \notin {"args", "failed"} => url.scheme \in {"ws", "wss"}
    /\ at \in {"connect", "tls", "request", "response"} =>
          Len(trips) = hop + 1 /\ trips[Len(trips)].to = origin(url)

\* What may still be shown to the next server is shown at home; a trip over
\* TLS leaves no way back; headers still in use were sent all along.
Ahead ==
    /\ at \notin {"args", "failed", "open"} =>
          /\ headers => Home(url)
          /\ use_override => Home(url)
          /\ setup.cert => Home(url)
          /\ \A i \in 1..Len(trips) : trips[i].to.scheme = "wss" => url.scheme = "wss"
    /\ at \in {"dial", "connect", "tls", "request", "response"} =>
          \A i \in 1..Len(trips) : headers /\ i <= hop => trips[i].headers \/ ~trips[i].asked
    /\ at = "response" => trips[Len(trips)].headers = headers
    /\ at \in {"connect", "tls", "request"} => ~trips[Len(trips)].headers
    /\ \A i \in 1..Len(trips) : trips[i].cert => setup.cert

IInv == Shape /\ Ahead /\ CredentialsStayHome /\ NeverDowngrades /\ HeadersOnlyAtFirst

-----------------------------------------------------------------------------
\* A step that leaves the chain alone, or stops, keeps the invariant.
LEMMA StopsKeep ==
    ASSUME IInv, at' = "failed", UNCHANGED <<setup, url, hop, headers, use_override, trips>>
    PROVE  IInv'
<1>1. Shape'
  BY DEF IInv, Shape
<1>2. Ahead'
  BY DEF IInv, Ahead
<1>3. CredentialsStayHome' /\ NeverDowngrades' /\ HeadersOnlyAtFirst'
  BY DEF IInv, CredentialsStayHome, NeverDowngrades, HeadersOnlyAtFirst
<1>4. QED BY <1>1, <1>2, <1>3 DEF IInv

\* Config::new takes the credentials out of the URL and keeps its origin.
LEMMA NewConfigKeeps == ASSUME IInv, NewConfig PROVE IInv'
<1>1. CASE at' = "failed"
  <2>1. UNCHANGED <<setup, url, hop, headers, use_override, trips>>
    BY <1>1 DEF NewConfig, Stop
  <2>2. QED BY <1>1, <2>1, StopsKeep
<1>2. CASE at' # "failed"
  <2>1. /\ at' = "dial" /\ headers' = (headers \/ url.credentials) /\ validate_url(url)
        /\ url' = [url EXCEPT !.credentials = FALSE]
        /\ UNCHANGED <<setup, hop, use_override, trips>>
    BY <1>2 DEF NewConfig, Stop
  <2>2. url \in Url /\ trips = << >> /\ hop = 0 /\ Home(url)
    BY DEF NewConfig, IInv, Shape, Home
  <2>3. url' \in Url /\ url'.scheme = url.scheme /\ url'.host = url.host
    BY <2>1, <2>2, Zenon DEF Url
  <2>4. headers' \in BOOLEAN
    BY <2>1, Zenon
  <2>5. Shape'
    BY <2>1, <2>2, <2>3, <2>4 DEF IInv, Shape, validate_url
  <2>6. Ahead'
    BY <2>1, <2>2, <2>3 DEF Ahead, Home, origin
  <2>7. CredentialsStayHome' /\ NeverDowngrades' /\ HeadersOnlyAtFirst'
    BY <2>1 DEF IInv, CredentialsStayHome, NeverDowngrades, HeadersOnlyAtFirst
  <2>8. QED BY <2>5, <2>6, <2>7 DEF IInv
<1>3. QED BY <1>1, <1>2

\* dial() adds a trip to the origin of the URL at hand.
LEMMA DialKeeps == ASSUME IInv, Dial PROVE IInv'
<1>1. CASE at' = "failed"
  <2>1. UNCHANGED <<setup, url, hop, headers, use_override, trips>>
    BY <1>1 DEF Dial, Stop, AfterDial
  <2>2. QED BY <1>1, <2>1, StopsKeep
<1>2. CASE at' # "failed"
  <2>0. PICK o \in BOOLEAN : o = (use_override /\ setup.override)
    BY Zenon
  <2>1. /\ at = "dial" /\ at' \in {"connect", "tls", "request"}
        /\ trips' = Append(trips, Trip(url, o))
        /\ UNCHANGED <<setup, url, hop, headers, use_override>>
    BY <1>2, <2>0 DEF Dial, Stop, AfterDial
  <2>3. FALSE \in BOOLEAN
    BY Zenon
  <2>4. origin(url) \in [scheme : {"ws", "wss"}, host : Hosts]
    BY <2>1 DEF IInv, Shape, Url, origin
  <2>5. Trip(url, o) \in TripType
    BY <2>3, <2>4 DEF Trip, TripType, Protocols
  <2>p. PICK trip \in TripType : trip = Trip(url, o)
    BY <2>5
  <2>6. /\ trip.to = origin(url) /\ ~trip.headers /\ ~trip.cert /\ ~trip.asked
        /\ trip.override => Home(url)
    BY <2>0, <2>1, <2>p, Zenon DEF IInv, Ahead, Trip
  <2>7. /\ trips \in Seq(TripType) /\ Len(trips) = hop /\ hop \in Nat
        /\ trips' \in Seq(TripType) /\ Len(trips') = hop + 1
        /\ trips'[Len(trips')] = trip
        /\ \A i \in 1..hop : trips'[i] = trips[i]
    BY <2>1, <2>p, SetupsAssumption DEF IInv, Shape
  <2>8. Shape'
    BY <2>1, <2>6, <2>7 DEF IInv, Shape
  <2>9. Ahead'
    BY <2>1, <2>6, <2>7 DEF IInv, Ahead, Home, origin
  <2>10. CredentialsStayHome'
    BY <2>1, <2>6, <2>7 DEF IInv, CredentialsStayHome, Home
  <2>11. NeverDowngrades'
    BY <2>1, <2>6, <2>7 DEF IInv, Ahead, NeverDowngrades, origin
  <2>12. HeadersOnlyAtFirst'
    <3>1. Len(trips') <= setup'.max_redirects + 1
      BY <2>1, <2>7, SetupsAssumption DEF IInv, Shape
    <3>2. ASSUME NEW i \in 1..Len(trips'), NEW j \in 1..Len(trips'), i < j, trips'[j].headers
          PROVE  trips'[i].headers \/ ~trips'[i].asked
      BY <2>6, <2>7, <3>2 DEF IInv, HeadersOnlyAtFirst
    <3>3. QED BY <3>1, <3>2 DEF HeadersOnlyAtFirst
  <2>13. QED BY <2>8, <2>9, <2>10, <2>11, <2>12 DEF IInv
<1>3. QED BY <1>1, <1>2

\* The tunnel through a proxy shows nothing to the server.
LEMMA TunnelKeeps == ASSUME IInv, Tunnel PROVE IInv'
<1>1. UNCHANGED <<setup, url, hop, headers, use_override, trips>> /\ at = "connect"
  BY Zenon DEF Tunnel
<1>2. CASE at' = "failed"
  BY <1>1, <1>2, StopsKeep
<1>3. CASE at' \in {"tls", "request"}
  <2>1. Shape' /\ Ahead'
    BY <1>1, <1>3 DEF IInv, Shape, Ahead, Home
  <2>2. CredentialsStayHome' /\ NeverDowngrades' /\ HeadersOnlyAtFirst'
    BY <1>1 DEF IInv, CredentialsStayHome, NeverDowngrades, HeadersOnlyAtFirst
  <2>3. QED BY <2>1, <2>2 DEF IInv
<1>4. QED BY <1>2, <1>3, Zenon DEF Tunnel, AfterDial, Stop

\* A step that changes only what the last trip showed, to its own origin.
LEMMA ShowsKeep ==
    ASSUME IInv, at \in {"tls", "request", "response"}, NEW t \in TripType,
           trips' = [trips EXCEPT ![Len(trips)] = t],
           UNCHANGED <<setup, url, hop, headers, use_override>>,
           t.to = origin(url), t.cert => setup.cert,
           t.override = trips[Len(trips)].override,
           t.headers => headers,
           at' \in {"request", "response", "open", "failed"},
           at' = "request" => ~t.headers,
           at' = "response" => t.headers = headers
    PROVE  IInv'
<1>1. /\ trips \in Seq(TripType) /\ Len(trips) = hop + 1 /\ hop \in Nat
      /\ trips[Len(trips)].to = origin(url) /\ headers \in BOOLEAN
      /\ Len(trips) \in 1..Len(trips)
  BY SetupsAssumption DEF IInv, Shape
<1>2. /\ trips' \in Seq(TripType) /\ Len(trips') = hop + 1 /\ trips'[Len(trips')] = t
      /\ \A i \in 1..hop : trips'[i] = trips[i]
      /\ \A i \in 1..Len(trips') : trips'[i].to = trips[i].to
  BY <1>1
<1>3. Shape'
  BY <1>1, <1>2 DEF IInv, Shape
<1>4. Ahead'
  BY <1>1, <1>2 DEF IInv, Ahead, Home
<1>5. CredentialsStayHome'
  <2> SUFFICES ASSUME NEW i \in 1..Len(trips'),
                      trips'[i].headers \/ trips'[i].cert \/ trips'[i].override
               PROVE  trips'[i].to = origin(setup.url)
    BY DEF CredentialsStayHome
  <2>1. CASE i \in 1..hop
    BY <1>1, <1>2, <2>1 DEF IInv, CredentialsStayHome
  <2>2. CASE i = hop + 1 /\ t.override
    BY <1>1, <1>2, <2>2 DEF IInv, CredentialsStayHome
  <2>3. CASE i = hop + 1 /\ ~t.override
    BY <1>1, <1>2, <2>3 DEF IInv, Ahead, Home
  <2>4. QED BY <1>1, <1>2, <2>1, <2>2, <2>3
<1>6. NeverDowngrades'
  BY <1>1, <1>2 DEF IInv, NeverDowngrades
<1>7. HeadersOnlyAtFirst'
  <2>1. Len(trips') <= setup'.max_redirects + 1
    BY <1>1, <1>2, SetupsAssumption DEF IInv, Shape
  <2>2. ASSUME NEW i \in 1..Len(trips'), NEW j \in 1..Len(trips'), i < j, trips'[j].headers
        PROVE  trips'[i].headers \/ ~trips'[i].asked
    <3>1. i \in 1..hop
      BY <1>1, <1>2, <2>2
    <3>2. CASE j = hop + 1
      BY <1>1, <1>2, <2>2, <3>1, <3>2 DEF IInv, Ahead
    <3>3. CASE j \in 1..hop
      BY <1>1, <1>2, <2>2, <3>1, <3>3 DEF IInv, HeadersOnlyAtFirst
    <3>4. QED BY <1>1, <1>2, <3>2, <3>3
  <2>3. QED BY <2>1, <2>2 DEF HeadersOnlyAtFirst
<1>8. QED BY <1>3, <1>4, <1>5, <1>6, <1>7 DEF IInv

\* TLS shows the certificate, which is there only for the first origin.
LEMMA TlsKeeps == ASSUME IInv, Tls PROVE IInv'
<1>1. PICK last \in TripType : last = trips[Len(trips)]
  BY SetupsAssumption DEF Tls, IInv, Shape
<1>2. PICK c \in BOOLEAN : c = setup.cert
  BY SetupsAssumption DEF IInv, Shape
<1>3. PICK t : t = [last EXCEPT !.cert = c]
  BY Zenon
<1>4. /\ t \in TripType /\ t.to = last.to /\ t.cert = c /\ t.headers = last.headers
      /\ t.override = last.override
  BY <1>1, <1>2, <1>3 DEF TripType
<1>5. /\ trips' = [trips EXCEPT ![Len(trips)] = t] /\ at = "tls" /\ at' \in {"failed", "request"}
      /\ UNCHANGED <<setup, url, hop, headers, use_override>>
  BY <1>1, <1>2, <1>3 DEF Tls, Stop
<1>6. last.to = origin(url) /\ ~last.headers
  BY <1>1, <1>5 DEF IInv, Shape, Ahead
<1>7. QED BY <1>1, <1>2, <1>4, <1>5, <1>6, ShowsKeep, Zenon

\* The request shows the caller's headers, if they are still in use.
LEMMA AskKeeps == ASSUME IInv, Ask PROVE IInv'
<1>1. PICK last \in TripType : last = trips[Len(trips)]
  BY SetupsAssumption DEF Ask, IInv, Shape
<1>2. PICK h \in BOOLEAN : h = headers
  BY DEF IInv, Shape
<1>3. PICK t : t = [last EXCEPT !.headers = h, !.asked = TRUE]
  OBVIOUS
<1>t. TRUE \in BOOLEAN
  BY Zenon
<1>4. /\ t \in TripType /\ t.to = last.to /\ t.cert = last.cert /\ t.headers = h
      /\ t.override = last.override
  BY <1>1, <1>2, <1>3, <1>t, Zenon DEF TripType
<1>5. /\ trips' = [trips EXCEPT ![Len(trips)] = t] /\ at = "request" /\ at' = "response"
      /\ UNCHANGED <<setup, url, hop, headers, use_override>>
  BY <1>1, <1>2, <1>3 DEF Ask
<1>6. last.to = origin(url) /\ (last.cert => setup.cert)
  BY <1>1, <1>5 DEF IInv, Shape, Ahead
<1>7. /\ t \in TripType /\ t.to = origin(url) /\ (t.cert => setup.cert)
      /\ t.override = trips[Len(trips)].override /\ t.headers = headers
  BY <1>1, <1>2, <1>4, <1>6, Zenon
<1>8. QED BY <1>5, <1>7, ShowsKeep, Zenon

\* An answer ends the chain.
LEMMA AnswerKeeps == ASSUME IInv, Answer PROVE IInv'
<1>1. CASE at' = "failed"
  <2>1. UNCHANGED <<setup, url, hop, headers, use_override, trips>>
    BY <1>1 DEF Answer, Stop
  <2>2. QED BY <1>1, <2>1, StopsKeep
<1>2. CASE at' # "failed"
  <2>1. PICK last \in TripType : last = trips[Len(trips)]
    BY SetupsAssumption DEF Answer, IInv, Shape
  <2>2. PICK u \in Upgrades :
           trips' = [trips EXCEPT ![Len(trips)].protocol =
                        IF u.protocols = {} THEN "none" ELSE CHOOSE p \in u.protocols : TRUE]
    BY <1>2 DEF Answer, Stop
  <2>3. PICK q \in Protocols : q = IF u.protocols = {} THEN "none" ELSE CHOOSE p \in u.protocols : TRUE
    BY Zenon DEF Protocols
  <2>4. PICK t : t = [last EXCEPT !.protocol = q]
    BY Zenon
  <2>5. /\ t \in TripType /\ t.to = last.to /\ t.cert = last.cert /\ t.headers = last.headers
        /\ t.override = last.override
    BY <2>1, <2>3, <2>4, Zenon DEF TripType
  <2>6. /\ trips' = [trips EXCEPT ![Len(trips)] = t] /\ at = "response" /\ at' = "open"
        /\ UNCHANGED <<setup, url, hop, headers, use_override>>
    BY <1>2, <2>1, <2>2, <2>3, <2>4 DEF Answer, Stop
  <2>7. last.to = origin(url) /\ (last.cert => setup.cert) /\ last.headers = headers
    BY <2>1, <2>6 DEF IInv, Shape, Ahead
  <2>8. /\ t \in TripType /\ t.to = origin(url) /\ (t.cert => setup.cert)
        /\ t.override = trips[Len(trips)].override /\ t.headers = headers
    BY <2>1, <2>5, <2>7, Zenon
  <2>9. QED BY <2>6, <2>8, ShowsKeep, Zenon
<1>3. QED BY <1>1, <1>2

\* A redirect that is followed drops what must not leave the first origin.
LEMMA RedirectKeeps == ASSUME IInv, Redirect PROVE IInv'
<1>1. CASE at' = "failed"
  <2>1. UNCHANGED <<setup, url, hop, headers, use_override, trips>>
    BY <1>1, Zenon DEF Redirect, Stop
  <2>2. QED BY <1>1, <2>1, StopsKeep
<1>2. CASE at' # "failed"
  <2>1. PICK l \in Locations :
           /\ url' = Joined(l) /\ hop' = hop + 1 /\ ~(hop >= setup.max_redirects)
           /\ validate_url(Joined(l)) /\ ~Downgrades(Joined(l)) /\ ~CertificateLeaves(Joined(l))
           /\ headers' = KeepsHeaders(Joined(l))
           /\ use_override' = (use_override /\ origin(url) = origin(Joined(l)))
           /\ at = "response" /\ at' = "dial" /\ UNCHANGED <<setup, trips>>
    BY <1>2, Zenon DEF Redirect, Stop
  <2>2. Joined(l) \in Url
    BY SetupsAssumption DEF Joined, Url, Schemes, Hosts, IInv, Shape
  <2>3. headers' \in BOOLEAN /\ use_override' \in BOOLEAN
    BY <2>1, Zenon DEF KeepsHeaders
  <2>4. /\ Len(trips) = hop + 1 /\ hop \in Nat /\ hop' \in 0..setup'.max_redirects
        /\ trips[Len(trips)].to = origin(url)
    BY <2>1, SetupsAssumption DEF IInv, Shape
  <2>5. Shape'
    BY <2>1, <2>2, <2>3, <2>4 DEF IInv, Shape, validate_url
  <2>6. /\ headers' => headers /\ origin(url') = origin(url)
        /\ use_override' => use_override /\ origin(url') = origin(url)
        /\ setup.cert => origin(url') = origin(url)
        /\ url.scheme = "wss" => url'.scheme = "wss"
    BY <2>1, Zenon DEF KeepsHeaders, CertificateLeaves, Downgrades
  <2>7. Ahead'
    <3>1. (headers' => Home(url)') /\ (use_override' => Home(url)') /\ (setup'.cert => Home(url)')
      BY <2>1, <2>6 DEF IInv, Ahead, Home
    <3>2. \A i \in 1..Len(trips') : trips'[i].to.scheme = "wss" => url'.scheme = "wss"
      BY <2>1, <2>6 DEF IInv, Ahead
    <3>3. \A i \in 1..Len(trips') : headers' /\ i <= hop' => trips'[i].headers \/ ~trips'[i].asked
      <4> SUFFICES ASSUME NEW i \in 1..Len(trips), headers' PROVE trips[i].headers \/ ~trips[i].asked
        BY <2>1
      <4>1. headers
        BY <2>6
      <4>2. CASE i <= hop
        BY <2>1, <4>1, <4>2 DEF IInv, Ahead
      <4>3. CASE i = Len(trips)
        BY <2>1, <4>1, <4>3, Zenon DEF IInv, Ahead
      <4>4. QED BY <2>4, <4>2, <4>3
    <3>4. QED BY <2>1, <3>1, <3>2, <3>3, Zenon DEF IInv, Ahead
  <2>8. CredentialsStayHome' /\ NeverDowngrades' /\ HeadersOnlyAtFirst'
    BY <2>1, Zenon DEF IInv, CredentialsStayHome, NeverDowngrades, HeadersOnlyAtFirst
  <2>9. QED BY <2>5, <2>7, <2>8 DEF IInv
<1>3. QED BY <1>1, <1>2

\* The invariant holds at first and every step of connect keeps it.
LEMMA RedirectsInductive == RedirectsSpec => []IInv
<1>1. RedirectsInit => IInv
  <2> SUFFICES ASSUME RedirectsInit PROVE IInv
    OBVIOUS
  <2>1. use_override \in BOOLEAN
    BY Zenon DEF RedirectsInit
  <2>2. setup \in Setups /\ url = setup.url /\ trips = << >> /\ hop = 0 /\ at = "args" /\ headers = setup.headers
    BY DEF RedirectsInit
  <2>3. Shape
    BY <2>1, <2>2, SetupsAssumption DEF Shape
  <2>4. QED BY <2>2, <2>3, SetupsAssumption
               DEF IInv, Ahead, CredentialsStayHome, NeverDowngrades, HeadersOnlyAtFirst
<1>2. IInv /\ [RedirectsStep]_rvars => IInv'
  <2> SUFFICES ASSUME IInv, [RedirectsStep]_rvars PROVE IInv'
    OBVIOUS
  <2>1. CASE Deadline
    BY <2>1, StopsKeep DEF Deadline, Stop
  <2>2. CASE UNCHANGED rvars
    BY <2>2 DEF rvars, IInv, Shape, Ahead, Home, CredentialsStayHome, NeverDowngrades, HeadersOnlyAtFirst
  <2>3. QED BY <2>1, <2>2, NewConfigKeeps, DialKeeps, TunnelKeeps, TlsKeeps, AskKeeps, AnswerKeeps,
               RedirectKeeps DEF RedirectsStep
<1>3. QED BY <1>1, <1>2, PTL DEF RedirectsSpec

\* connect_inner, for every command line, every number of hops and whatever
\* locations servers send: the caller's headers, the address override and the
\* certificate reach only the origin of the caller's URL.
THEOREM StayHome == RedirectsSpec => []CredentialsStayHome
<1>1. IInv => CredentialsStayHome
  BY DEF IInv
<1>2. QED BY <1>1, RedirectsInductive, PTL

\* connect_inner: no chain leaves wss.
THEOREM NoDowngrade == RedirectsSpec => []NeverDowngrades
<1>1. IInv => NeverDowngrades
  BY DEF IInv
<1>2. QED BY <1>1, RedirectsInductive, PTL

\* connect_inner: the trips with the caller's headers come first, and there are
\* at most max_redirects + 1 trips.
THEOREM HeadersFirst == RedirectsSpec => []HeadersOnlyAtFirst
<1>1. IInv => HeadersOnlyAtFirst
  BY DEF IInv
<1>2. QED BY <1>1, RedirectsInductive, PTL
=============================================================================
