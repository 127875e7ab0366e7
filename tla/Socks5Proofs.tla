---------------------------- MODULE Socks5Proofs ----------------------------
(***************************************************************************)
(* TunnelClean, LengthsExact and CredentialsAsked of Socks5 for every      *)
(* proxy URL, target and answer, however much the target has sent.         *)
(***************************************************************************)
EXTENDS Socks5, TLAPS

Byte == [from : {"proxy", "target"}, byte : Nat]
\* Exactly the first k bytes that wait to be read are the proxy's.
Front(k) == \A i \in 1..Len(inbound) : inbound[i].from = "proxy" <=> i <= k
Message == [msg : {"greeting", "auth", "request"}, methods : SUBSET {0, 2},
            declared : Seq(Nat), lengths : Seq(Nat)]
Talking == {"method", "status", "reply", "length", "bound", "open"}

Shape ==
    /\ inbound \in Seq(Byte) /\ read \in Seq(Byte) /\ taken \in Nat /\ bound \in Nat
    /\ proxyUrl \in ProxyUrls /\ url \in Targets
    /\ step \in Talking \cup {"url", "target", "dial", "failed"}
    /\ target.len \in Nat
    /\ proxy.username \in Nat /\ proxy.password \in Nat
    /\ \A i \in 1..Len(read) : read[i].from = "proxy"
\* What was checked before the conversation.
Checked ==
    /\ step \notin {"url", "failed"} => proxy.username <= Limit /\ proxy.password <= Limit
    /\ step \in Talking /\ target.kind = "domain" => target.len <= Limit
\* How far the conversation is: one answer at a time.
Progress ==
    /\ sent \in Seq(Message)
    /\ taken <= Len(sent)
    /\ step \in {"url", "target", "dial"} => sent = << >>
    /\ Len(sent) = 0 => read = << >> /\ inbound = << >>
    /\ step = "method" => Len(sent) = 1 /\ read = << >>
    /\ Len(sent) > 0 => sent[1] = Greeting(proxy.auth)
    /\ step \in Talking => Len(sent) > 0
    /\ step = "status" => Len(sent) = 2 /\ sent[2].msg = "auth" /\ Len(read) = 2
    /\ step = "reply" => Len(sent) > 0 /\ sent[Len(sent)].msg = "request"
    /\ step \in {"length", "bound", "open"} => taken = Len(sent)
    /\ step \in Talking /\ taken < Len(sent) => taken = Len(sent) - 1 /\ inbound = << >>
\* Where the proxy's bytes end.
Waiting ==
    /\ step \in {"method", "status"} => Front(2) /\ Len(inbound) \in {0, 2}
    /\ step = "reply" /\ inbound # << >> =>
          /\ Len(inbound) >= 4 /\ \A i \in 1..4 : inbound[i].from = "proxy"
          /\ inbound[1].byte = 5 /\ inbound[2].byte = 0 =>
               /\ inbound[4].byte = 1 => Front(10)
               /\ inbound[4].byte = 4 => Front(22)
               /\ inbound[4].byte = 3 => Len(inbound) >= 5 /\ Front(inbound[5].byte + 7)
    /\ step = "length" => inbound # << >> /\ Front(inbound[1].byte + 3)
    /\ step = "bound" => Front(bound)
    /\ step = "open" => Front(0)

IInv == Shape /\ Checked /\ Progress /\ Waiting /\ LengthsExact /\ CredentialsAsked

-----------------------------------------------------------------------------
\* A message behind the others.
LEMMA Written ==
    ASSUME NEW s \in Seq(Message), NEW m \in Message
    PROVE  /\ Append(s, m) \in Seq(Message) /\ Len(Append(s, m)) = Len(s) + 1
           /\ Append(s, m)[Len(s) + 1] = m /\ \A i \in 1..Len(s) : Append(s, m)[i] = s[i]
  OBVIOUS

\* Two runs of bytes, one behind the other.
LEMMA Joined ==
    ASSUME NEW p \in Seq(Byte), NEW t \in Seq(Byte)
    PROVE  /\ Len(p \o t) = Len(p) + Len(t)
           /\ \A i \in 1..Len(p) : (p \o t)[i] = p[i]
           /\ \A i \in 1..Len(t) : (p \o t)[Len(p) + i] = t[i]
  OBVIOUS

\* read_exact moves the first n bytes, in order.
LEMMA ReadMoves ==
    ASSUME Shape, NEW n \in Nat, Read(n)
    PROVE  /\ inbound' \in Seq(Byte) /\ read' \in Seq(Byte)
           /\ Len(inbound) >= n /\ Len(inbound') = Len(inbound) - n /\ Len(read') = Len(read) + n
           /\ \A i \in 1..Len(inbound') : inbound'[i] = inbound[i + n]
           /\ \A i \in 1..Len(read) : read'[i] = read[i]
           /\ \A i \in 1..n : read'[Len(read) + i] = inbound[i]
<1>1. PICK a, b : /\ a = SubSeq(inbound, 1, n) /\ b = SubSeq(inbound, n + 1, Len(inbound))
                  /\ read' = read \o a /\ inbound' = b /\ Len(inbound) >= n
  BY Zenon DEF Read
<1>2. a \in Seq(Byte) /\ Len(a) = n /\ \A i \in 1..n : a[i] = inbound[i]
  BY <1>1 DEF Shape
<1>3. b \in Seq(Byte) /\ Len(b) = Len(inbound) - n /\ \A i \in 1..Len(b) : b[i] = inbound[i + n]
  BY <1>1 DEF Shape
<1>4. read' \in Seq(Byte) /\ Len(read') = Len(read) + n
  BY <1>1, <1>2 DEF Shape
<1>5. (\A i \in 1..Len(read) : read'[i] = read[i]) /\ \A i \in 1..n : read'[Len(read) + i] = a[i]
  BY <1>1, <1>2 DEF Shape
<1>6. QED BY <1>1, <1>2, <1>3, <1>4, <1>5

\* Bytes that are the proxy's leave what was read the proxy's, and what was
\* asked for stays asked for.
LEMMA ReadKeeps ==
    ASSUME IInv, NEW n \in Nat, Read(n), \A i \in 1..n : inbound[i].from = "proxy"
    PROVE  /\ \A i \in 1..Len(read') : read'[i].from = "proxy"
           /\ \A k \in Nat : k >= n /\ Front(k) => Front(k - n)'
           /\ UNCHANGED sent => CredentialsAsked'
<1>1. /\ inbound' \in Seq(Byte) /\ read' \in Seq(Byte) /\ inbound \in Seq(Byte) /\ read \in Seq(Byte)
      /\ Len(inbound) >= n /\ Len(inbound') = Len(inbound) - n /\ Len(read') = Len(read) + n
      /\ \A i \in 1..Len(inbound') : inbound'[i] = inbound[i + n]
      /\ \A i \in 1..Len(read) : read'[i] = read[i]
      /\ \A i \in 1..n : read'[Len(read) + i] = inbound[i]
  BY ReadMoves DEF IInv, Shape
<1>2. ASSUME NEW i \in 1..Len(read') PROVE read'[i].from = "proxy"
  <2>1. CASE i <= Len(read)
    <3>1. i \in 1..Len(read)
      BY <1>1, <2>1
    <3>2. read[i].from = "proxy"
      BY <3>1 DEF IInv, Shape
    <3>3. QED BY <1>1, <3>1, <3>2
  <2>2. CASE i > Len(read)
    <3>1. i - Len(read) \in 1..n /\ i = Len(read) + (i - Len(read))
      BY <1>1, <2>2
    <3>2. PICK j \in 1..n : i = Len(read) + j
      BY <3>1, Zenon
    <3>3. read'[Len(read) + j] = inbound[j] /\ inbound[j].from = "proxy"
      BY <1>1
    <3>4. QED BY <3>2, <3>3
  <2>3. QED BY <1>1, <2>1, <2>2
<1>3. ASSUME NEW k \in Nat, k >= n, Front(k) PROVE Front(k - n)'
  <2> SUFFICES ASSUME NEW i \in 1..Len(inbound') PROVE inbound'[i].from = "proxy" <=> i <= k - n
    BY DEF Front
  <2>1. i + n \in 1..Len(inbound) /\ inbound'[i] = inbound[i + n]
    BY <1>1
  <2>2. QED BY <1>1, <1>3, <2>1 DEF Front
<1>4. ASSUME UNCHANGED sent PROVE CredentialsAsked'
  <2>1. Len(read) >= 2 => Len(read') >= 2 /\ read'[2] = read[2]
    BY <1>1
  <2>2. Len(read) >= 4 => Len(read') >= 4 /\ read'[4] = read[4]
    BY <1>1
  <2>3. QED BY <1>4, <2>1, <2>2 DEF IInv, CredentialsAsked
<1>5. QED BY <1>2, <1>3, <1>4

\* Dialling that fails leaves nothing behind that matters.
LEMMA FailKeeps ==
    ASSUME IInv, step' = "failed", UNCHANGED <<proxyUrl, url, target, sent, taken>>, bound' \in Nat,
           inbound' \in Seq(Byte), read' \in Seq(Byte), CredentialsAsked',
           \A i \in 1..Len(read') : read'[i].from = "proxy",
           Len(sent) = 0 => read' = << >> /\ inbound' = << >>,
           proxy'.username \in Nat, proxy'.password \in Nat, sent # << >> => UNCHANGED proxy
    PROVE  IInv'
<1>1. Shape' /\ Checked' /\ Waiting' /\ LengthsExact'
  BY DEF IInv, Shape, Checked, Waiting, LengthsExact, Talking
<1>2. Progress'
  <2>1. Len(sent) > 0 => sent # << >>
    BY DEF IInv, Progress
  <2>2. Len(sent') > 0 => sent'[1] = Greeting(proxy'.auth)
    BY <2>1 DEF IInv, Progress
  <2>3. QED BY <2>2 DEF IInv, Progress, Talking
<1>3. QED BY <1>1, <1>2 DEF IInv

\* What is written tells its length, and is answered before the next message.
LEMMA SendKeeps ==
    ASSUME IInv, NEW m \in Message, m.declared = m.lengths, taken = Len(sent),
           sent' = Append(sent, m), UNCHANGED <<proxyUrl, url, proxy, target, taken, bound>>,
           inbound' = << >>, read' \in Seq(Byte), CredentialsAsked',
           \A i \in 1..Len(read') : read'[i].from = "proxy",
           step \notin {"url", "failed"}, target.kind = "domain" => target.len <= Limit,
           step' \in {"method", "status", "reply"},
           sent = << >> => m = Greeting(proxy.auth),
           step' = "method" => sent = << >> /\ read' = << >>,
           step' = "status" => Len(sent) = 1 /\ m.msg = "auth" /\ Len(read') = 2,
           step' = "reply" => m.msg = "request"
    PROVE  IInv'
<1>1. /\ sent \in Seq(Message) /\ sent' \in Seq(Message) /\ Len(sent') = Len(sent) + 1
      /\ sent'[Len(sent')] = m /\ \A i \in 1..Len(sent) : sent'[i] = sent[i]
  BY DEF IInv, Progress
<1>2. Shape'
  BY DEF IInv, Shape, Talking
<1>3. Checked'
  BY DEF IInv, Checked, Talking
<1>4. sent'[1] = Greeting(proxy.auth)
  <2>1. CASE sent = << >>
    BY <1>1, <2>1
  <2>2. CASE sent # << >>
    BY <1>1, <2>2 DEF IInv, Progress
  <2>3. QED BY <2>1, <2>2
<1>5. Progress'
  BY <1>1, <1>4 DEF IInv, Progress, Talking
<1>6. Waiting'
  BY DEF Waiting, Front
<1>7. LengthsExact'
  BY <1>1 DEF IInv, LengthsExact
<1>8. QED BY <1>2, <1>3, <1>5, <1>6, <1>7 DEF IInv

-----------------------------------------------------------------------------
\* Proxy::socks5 refuses credentials that do not fit.
LEMMA ParseKeeps == ASSUME IInv, ParseProxy PROVE IInv'
<1>1. /\ step = "url" /\ sent = << >> /\ read = << >> /\ proxyUrl \in ProxyUrls
      /\ UNCHANGED <<proxyUrl, url, target, sent, taken, inbound, read, bound>>
  BY DEF ParseProxy, IInv, Shape, Progress
<1>2. /\ proxyUrl.username \in Nat /\ proxyUrl.password \in Nat
  BY <1>1, LengthsAssumption
<1>3. /\ proxy'.username = proxyUrl.username
      /\ proxy'.password = IF proxyUrl.username > 0 THEN proxyUrl.password ELSE 0
  BY DEF ParseProxy
<1>4. proxy'.username \in Nat /\ proxy'.password \in Nat
  BY <1>2, <1>3
<1>5. CASE step' = "failed"
  BY <1>1, <1>4, <1>5, FailKeeps DEF IInv, Shape, Progress, CredentialsAsked
<1>6. CASE step' # "failed"
  <2>1. step' = "target" /\ ParseError = "none"
    BY <1>6 DEF ParseProxy, Fail
  <2>2. proxy'.username <= Limit /\ proxy'.password <= Limit
    BY <1>2, <1>3, <2>1 DEF ParseError, Limit
  <2>3. Shape' /\ Checked' /\ Waiting'
    BY <1>1, <1>4, <2>1, <2>2 DEF IInv, Shape, Checked, Waiting, Talking
  <2>4. Progress' /\ LengthsExact' /\ CredentialsAsked'
    BY <1>1, <2>1 DEF IInv, Progress, Talking, LengthsExact, CredentialsAsked
  <2>5. QED BY <2>3, <2>4 DEF IInv
<1>7. QED BY <1>5, <1>6

\* Proxy::target.
LEMMA ResolveKeeps == ASSUME IInv, ResolveTarget PROVE IInv'
<1>1. /\ step = "target" /\ sent = << >> /\ read = << >> /\ url \in Targets
      /\ UNCHANGED <<proxyUrl, url, proxy, sent, taken, inbound, read, bound>>
  BY DEF ResolveTarget, IInv, Shape, Progress
<1>2. CASE step' = "failed"
  <2>1. UNCHANGED target
    BY <1>2 DEF ResolveTarget
  <2>2. QED BY <1>1, <1>2, <2>1, FailKeeps DEF IInv, Shape, Progress, CredentialsAsked
<1>3. CASE step' # "failed"
  <2>1. step' = "dial" /\ target'.len \in Nat
    BY <1>1, <1>3, LengthsAssumption DEF ResolveTarget, Fail
  <2>2. Shape' /\ Checked' /\ Waiting'
    BY <1>1, <2>1 DEF IInv, Shape, Checked, Waiting, Talking
  <2>3. Progress' /\ LengthsExact' /\ CredentialsAsked'
    BY <1>1, <2>1 DEF IInv, Progress, Talking, LengthsExact, CredentialsAsked
  <2>4. QED BY <2>2, <2>3 DEF IInv
<1>4. QED BY <1>2, <1>3

\* The greeting goes out once the name is known to fit.
LEMMA DialKeeps == ASSUME IInv, Dial PROVE IInv'
<1>1. /\ step = "dial" /\ sent = << >> /\ read = << >>
      /\ UNCHANGED <<proxyUrl, url, proxy, target, taken, inbound, read, bound>>
  BY DEF Dial, IInv, Shape, Progress
<1>2. CASE step' = "failed"
  <2>1. UNCHANGED sent
    BY <1>2 DEF Dial
  <2>2. QED BY <1>1, <1>2, <2>1, FailKeeps DEF IInv, Shape, Progress, CredentialsAsked
<1>3. CASE step' # "failed"
  <2>1. /\ step' = "method" /\ sent' = <<Greeting(proxy.auth)>>
        /\ target.kind = "domain" => target.len <= Limit
    BY <1>1, <1>3 DEF Dial, Fail, IInv, Shape, Limit
  <2>2. taken = Len(sent) /\ inbound = << >>
    BY <1>1 DEF IInv, Shape, Progress
  <2>3. Greeting(proxy.auth) \in Message /\ Greeting(proxy.auth).declared = Greeting(proxy.auth).lengths
        /\ Greeting(proxy.auth).msg = "greeting"
    BY DEF Greeting, Message
  <2>4. sent' = Append(sent, Greeting(proxy.auth)) /\ CredentialsAsked'
    BY <1>1, <2>1, <2>3 DEF CredentialsAsked
  <2>5. QED BY <1>1, <2>1, <2>2, <2>3, <2>4, SendKeeps DEF IInv, Shape
<1>4. QED BY <1>2, <1>3

\* The two messages behind the greeting, once their lengths are checked.
LEMMA MessagesFit ==
    ASSUME IInv, step \in {"method", "status"}
    PROVE  /\ Request \in Message /\ Request.declared = Request.lengths /\ Request.msg = "request"
           /\ Credentials \in Message /\ Credentials.declared = Credentials.lengths
           /\ Credentials.msg = "auth"
<1>1. /\ proxy.username \in 0..255 /\ proxy.password \in 0..255
      /\ target.kind = "domain" => target.len \in 0..255
  <2>1. /\ proxy.username <= Limit /\ proxy.password <= Limit
        /\ target.kind = "domain" => target.len <= Limit
    BY DEF IInv, Checked, Talking
  <2>2. proxy.username \in Nat /\ proxy.password \in Nat /\ target.len \in Nat
    BY DEF IInv, Shape
  <2>3. QED BY <2>1, <2>2 DEF Limit
<1>2. /\ as_u8(proxy.username) = proxy.username /\ as_u8(proxy.password) = proxy.password
      /\ target.kind = "domain" => as_u8(target.len) = target.len
  BY <1>1 DEF as_u8
<1>3. Credentials \in Message /\ Credentials.declared = Credentials.lengths /\ Credentials.msg = "auth"
  BY <1>1, <1>2 DEF Credentials, Message
<1>4. Request \in Message /\ Request.declared = Request.lengths /\ Request.msg = "request"
  <2>1. CASE target.kind = "domain"
    BY <1>1, <1>2, <2>1 DEF Request, Message
  <2>2. CASE target.kind # "domain"
    BY <2>2 DEF Request, Message
  <2>3. QED BY <2>1, <2>2
<1>5. QED BY <1>3, <1>4

\* negotiate.
LEMMA MethodKeeps == ASSUME IInv, ReadMethod PROVE IInv'
<1>1. /\ step = "method" /\ Len(sent) = 1 /\ read = << >> /\ Read(2) /\ Len(inbound) >= 2
      /\ UNCHANGED <<proxyUrl, url, proxy, target, taken, bound>>
  BY DEF ReadMethod, Read, IInv, Progress
<1>2. \A i \in 1..2 : inbound[i].from = "proxy"
  BY <1>1 DEF IInv, Waiting, Front
<1>3. /\ inbound' = << >> /\ read' \in Seq(Byte) /\ Len(read') = 2 /\ read'[2] = inbound[2]
      /\ inbound' \in Seq(Byte)
  <2>1. /\ inbound' \in Seq(Byte) /\ read' \in Seq(Byte)
        /\ Len(inbound') = Len(inbound) - 2 /\ Len(read') = Len(read) + 2
        /\ \A i \in 1..2 : read'[Len(read) + i] = inbound[i]
    BY <1>1, ReadMoves, Zenon DEF IInv
  <2>2. Len(inbound) = 2
    BY <1>1 DEF IInv, Waiting
  <2>3. Len(read) = 0
    BY <1>1
  <2>4. inbound' = << >>
    BY <2>1, <2>2
  <2>5. read'[2] = inbound[2]
    BY <2>1, <2>3
  <2>6. QED BY <2>1, <2>3, <2>4, <2>5
<1>4. \A i \in 1..Len(read') : read'[i].from = "proxy"
  BY <1>1, <1>2, ReadKeeps
<1>5. CASE step' = "failed"
  <2>1. UNCHANGED sent
    BY <1>5 DEF ReadMethod
  <2>2. CredentialsAsked'
    BY <1>1, <1>2, <2>1, ReadKeeps
  <2>3. bound \in Nat /\ proxy.username \in Nat /\ proxy.password \in Nat
    BY DEF IInv, Shape
  <2>4. bound' \in Nat /\ proxy'.username \in Nat /\ proxy'.password \in Nat /\ UNCHANGED proxy
    BY <1>1, <2>3
  <2>5. Len(sent) # 0
    BY <1>1
  <2>6. QED BY <1>1, <1>3, <1>4, <1>5, <2>1, <2>2, <2>4, <2>5, FailKeeps
<1>6. CASE step' # "failed"
  <2>1. /\ step' = AfterMethod(inbound[2].byte) /\ step' # "failed"
        /\ sent' = Append(sent, IF step' = "reply" THEN Request ELSE Credentials)
    BY <1>6 DEF ReadMethod, Fail
  <2>2. step' \in {"reply", "status"} /\ (step' = "status" => inbound[2].byte = 2 /\ proxy.auth)
        /\ (step' = "reply" => inbound[2].byte = 0)
    BY <2>1 DEF AfterMethod
  <2>3. PICK m : m = IF step' = "reply" THEN Request ELSE Credentials
    OBVIOUS
  <2>4. m \in Message /\ m.declared = m.lengths /\ m.msg = IF step' = "reply" THEN "request" ELSE "auth"
    BY <1>1, <2>3, MessagesFit
  <2>5. sent' = Append(sent, m) /\ taken = Len(sent) /\ sent \in Seq(Message)
        /\ sent[1] = Greeting(proxy.auth)
    BY <1>1, <2>1, <2>3 DEF IInv, Progress, Talking, Shape
  <2>6. CredentialsAsked'
    <3>1. Len(sent') = 2 /\ sent'[2] = m /\ sent'[1] = sent[1]
      <4>1. /\ Len(sent') = Len(sent) + 1 /\ sent'[Len(sent) + 1] = m
            /\ \A k \in 1..Len(sent) : sent'[k] = sent[k]
        BY <2>4, <2>5, Written
      <4>2. Len(sent) = 1
        BY <1>1
      <4>3. QED BY <4>1, <4>2
    <3>2. sent'[1].msg = "greeting" /\ (proxy.auth => 2 \in sent'[1].methods)
      BY <2>5, <3>1 DEF Greeting
    <3>3. m.msg = "auth" => 2 \in sent'[1].methods /\ Len(read') >= 2 /\ read'[2].byte = 2
      BY <1>3, <2>2, <2>4, <3>2
    <3>4. m.msg = "request" => Len(read') >= 2 /\ read'[2].byte = 0
      BY <1>3, <2>2, <2>4
    <3>5. QED BY <3>1, <3>2, <3>3, <3>4 DEF CredentialsAsked
  <2>7. QED BY <1>1, <1>3, <1>4, <2>2, <2>4, <2>5, <2>6, SendKeeps DEF IInv, Checked, Talking
<1>7. QED BY <1>5, <1>6

\* authenticate.
LEMMA StatusKeeps == ASSUME IInv, ReadStatus PROVE IInv'
<1>1. /\ step = "status" /\ Len(sent) = 2 /\ Read(2) /\ Len(inbound) >= 2
      /\ UNCHANGED <<proxyUrl, url, proxy, target, taken, bound>>
  BY DEF ReadStatus, Read, IInv, Progress
<1>2. \A i \in 1..2 : inbound[i].from = "proxy"
  BY <1>1 DEF IInv, Waiting, Front
<1>3. inbound' = << >> /\ read' \in Seq(Byte) /\ inbound' \in Seq(Byte) /\ Len(read') = 4
      /\ read'[2] = read[2] /\ read'[4] = inbound[2] /\ Len(read) = 2
  <2>1. /\ inbound' \in Seq(Byte) /\ read' \in Seq(Byte) /\ Len(read') = Len(read) + 2
        /\ Len(inbound') = Len(inbound) - 2 /\ \A i \in 1..Len(read) : read'[i] = read[i]
        /\ \A i \in 1..2 : read'[Len(read) + i] = inbound[i]
    BY <1>1, ReadMoves, Zenon DEF IInv
  <2>2. Len(inbound) = 2 /\ Len(read) = 2
    BY <1>1 DEF IInv, Waiting, Progress
  <2>3. read'[2] = read[2] /\ read'[4] = inbound[2]
    BY <2>1, <2>2
  <2>4. QED BY <2>1, <2>2, <2>3
<1>4. \A i \in 1..Len(read') : read'[i].from = "proxy"
  BY <1>1, <1>2, ReadKeeps
<1>5. CASE step' = "failed"
  <2>1. UNCHANGED sent
    BY <1>5 DEF ReadStatus
  <2>2. CredentialsAsked'
    BY <1>1, <1>2, <2>1, ReadKeeps
  <2>3. bound \in Nat /\ proxy.username \in Nat /\ proxy.password \in Nat
    BY DEF IInv, Shape
  <2>4. bound' \in Nat /\ proxy'.username \in Nat /\ proxy'.password \in Nat /\ UNCHANGED proxy
    BY <1>1, <2>3
  <2>5. Len(sent) # 0
    BY <1>1
  <2>6. QED BY <1>1, <1>3, <1>4, <1>5, <2>1, <2>2, <2>4, <2>5, FailKeeps
<1>6. CASE step' # "failed"
  <2>1. step' = "reply" /\ sent' = Append(sent, Request) /\ inbound[2].byte = 0
    BY <1>6 DEF ReadStatus, Fail
  <2>2. Request \in Message /\ Request.declared = Request.lengths /\ Request.msg = "request"
    BY <1>1, MessagesFit
  <2>3. taken = Len(sent) /\ sent \in Seq(Message)
    BY <1>1 DEF IInv, Progress, Talking, Shape
  <2>4. CredentialsAsked'
    <3>1. /\ Len(sent') = 3 /\ sent'[3].msg = "request" /\ sent'[1] = sent[1]
          /\ \A k \in 1..2 : sent'[k] = sent[k]
      <4>1. /\ Len(sent') = Len(sent) + 1 /\ sent'[Len(sent) + 1] = Request
            /\ \A k \in 1..Len(sent) : sent'[k] = sent[k]
        BY <2>1, <2>2, <2>3, Written
      <4>2. Len(sent) = 2
        BY <1>1
      <4>3. QED BY <2>2, <4>1, <4>2
    <3>2. sent[1].msg = "greeting" /\ sent[2].msg = "auth"
      BY <1>1 DEF IInv, Progress, Greeting
    <3>3. 2 \in sent[1].methods /\ read[2].byte = 2
      BY <1>1, <3>2 DEF IInv, CredentialsAsked
    <3>4. Len(read') >= 4 /\ read'[2].byte = 2 /\ read'[4].byte = 0
      BY <1>3, <2>1, <3>3
    <3>5. QED BY <3>1, <3>2, <3>3, <3>4 DEF CredentialsAsked
  <2>5. target.kind = "domain" => target.len <= Limit
    BY <1>1 DEF IInv, Checked, Talking
  <2>6. QED BY <1>1, <1>3, <1>4, <2>1, <2>2, <2>3, <2>4, <2>5, SendKeeps
<1>7. QED BY <1>5, <1>6

\* read_reply, each of its reads: what is left of the reply is known before.
LEMMA ReplyKeeps ==
    ASSUME IInv, NEW n \in Nat, Read(n), \A i \in 1..n : inbound[i].from = "proxy",
           UNCHANGED <<proxyUrl, url, proxy, target, sent, taken>>, bound' \in Nat,
           step \in {"reply", "length", "bound"}, taken = Len(sent),
           \/ step' = "failed"
           \/ step' = "length" /\ inbound' # << >> /\ Front(inbound[1].byte + 3)'
           \/ step' = "bound" /\ Front(bound)'
           \/ step' = "open" /\ Front(0)'
    PROVE  IInv'
<1>1. /\ inbound' \in Seq(Byte) /\ read' \in Seq(Byte) /\ Len(read') = Len(read) + n
  BY ReadMoves DEF IInv
<1>2. (\A i \in 1..Len(read') : read'[i].from = "proxy") /\ CredentialsAsked'
  BY ReadKeeps
<1>3. Len(sent) > 0
  BY DEF IInv, Progress, Shape
<1>4. Shape'
  BY <1>1, <1>2 DEF IInv, Shape, Talking
<1>5. Checked'
  BY DEF IInv, Checked, Talking
<1>6. Progress'
  BY <1>3 DEF IInv, Progress, Talking
<1>7. Waiting'
  BY DEF Waiting
<1>8. LengthsExact'
  BY DEF IInv, LengthsExact
<1>9. QED BY <1>2, <1>4, <1>5, <1>6, <1>7, <1>8 DEF IInv

\* read_reply: the head.
LEMMA HeadKeeps == ASSUME IInv, ReadHead PROVE IInv'
<1>1. /\ step = "reply" /\ Read(4) /\ Len(inbound) >= 4
      /\ UNCHANGED <<proxyUrl, url, proxy, target, sent, taken>>
  BY DEF ReadHead, Read
<1>2. inbound # << >> /\ inbound \in Seq(Byte)
  BY <1>1 DEF IInv, Shape
<1>3. taken = Len(sent)
  BY <1>1, <1>2 DEF IInv, Shape, Progress, Talking
<1>4. /\ \A i \in 1..4 : inbound[i].from = "proxy"
      /\ inbound[1].byte = 5 /\ inbound[2].byte = 0 =>
            /\ inbound[4].byte = 1 => Front(10)
            /\ inbound[4].byte = 4 => Front(22)
            /\ inbound[4].byte = 3 => Len(inbound) >= 5 /\ Front(inbound[5].byte + 7)
  BY <1>1, <1>2 DEF IInv, Waiting
<1>5. /\ inbound' \in Seq(Byte) /\ Len(inbound') = Len(inbound) - 4
      /\ \A i \in 1..Len(inbound') : inbound'[i] = inbound[i + 4]
  BY <1>1, ReadMoves DEF IInv
<1>6. \A k \in Nat : k >= 4 /\ Front(k) => Front(k - 4)'
  BY <1>1, <1>4, ReadKeeps
<1>7. CASE step' = "failed"
  <2>1. bound' \in Nat
    BY <1>7 DEF ReadHead, IInv, Shape
  <2>2. QED BY <1>1, <1>3, <1>4, <1>7, <2>1, ReplyKeeps
<1>8. CASE step' # "failed"
  <2>1. /\ inbound[1].byte = 5 /\ inbound[2].byte = 0 /\ inbound[4].byte \in {1, 3, 4}
        /\ step' = (IF inbound[4].byte = 3 THEN "length" ELSE "bound")
        /\ bound' = BoundLength(inbound[4].byte)
    BY <1>8 DEF ReadHead, Fail, VERSION
  <2>2. CASE inbound[4].byte = 1
    <3>1. bound' = 6 /\ step' = "bound" /\ Front(10)
      BY <1>4, <2>1, <2>2 DEF BoundLength
    <3>2. Front(10 - 4)'
      BY <1>6, <3>1
    <3>3. Front(bound)'
      BY <3>1, <3>2 DEF Front
    <3>4. QED BY <1>1, <1>3, <1>4, <3>1, <3>3, ReplyKeeps
  <2>3. CASE inbound[4].byte = 4
    <3>1. bound' = 18 /\ step' = "bound" /\ Front(22)
      BY <1>4, <2>1, <2>3 DEF BoundLength
    <3>2. Front(22 - 4)'
      BY <1>6, <3>1
    <3>3. Front(bound)'
      BY <3>1, <3>2 DEF Front
    <3>4. QED BY <1>1, <1>3, <1>4, <3>1, <3>3, ReplyKeeps
  <2>4. CASE inbound[4].byte = 3
    <3>1. bound' = 0 /\ step' = "length" /\ Len(inbound) >= 5 /\ Front(inbound[5].byte + 7)
      BY <1>4, <2>1, <2>4 DEF BoundLength
    <3>2. PICK b \in Nat : b = inbound[5].byte
      <4>1. inbound[5] \in Byte
        BY <1>2, <3>1
      <4>2. QED BY <4>1 DEF Byte
    <3>3. Front(b + 7 - 4)'
      <4>1. b + 7 \in Nat /\ b + 7 >= 4 /\ Front(b + 7)
        BY <3>1, <3>2
      <4>2. QED BY <1>6, <4>1
    <3>4. inbound' # << >> /\ inbound'[1].byte = b
      BY <1>2, <1>5, <3>1, <3>2
    <3>5. Front(inbound[1].byte + 3)'
      BY <3>2, <3>3, <3>4 DEF Front
    <3>6. QED BY <1>1, <1>3, <1>4, <3>1, <3>4, <3>5, ReplyKeeps, Zenon
  <2>5. QED BY <2>1, <2>2, <2>3, <2>4
<1>9. QED BY <1>7, <1>8

\* read_reply: the length of a name.
LEMMA LengthKeeps == ASSUME IInv, ReadLength PROVE IInv'
<1>1. /\ step = "length" /\ Read(1) /\ Len(inbound) >= 1 /\ step' = "bound"
      /\ bound' = inbound[1].byte + 2 /\ UNCHANGED <<proxyUrl, url, proxy, target, sent, taken>>
  BY DEF ReadLength, Read
<1>2. PICK b \in Nat : b = inbound[1].byte /\ Front(b + 3) /\ taken = Len(sent)
  <2>1. inbound[1] \in Byte
    BY <1>1 DEF IInv, Shape
  <2>2. inbound[1].byte \in Nat
    BY <2>1 DEF Byte
  <2>3. QED BY <1>1, <2>2 DEF IInv, Waiting, Progress
<1>3. \A i \in 1..1 : inbound[i].from = "proxy"
  BY <1>1, <1>2 DEF Front
<1>4. Front(b + 3 - 1)'
  <2>1. b + 3 \in Nat /\ b + 3 >= 1 /\ Front(b + 3)
    BY <1>2
  <2>2. QED BY <1>1, <1>3, <2>1, ReadKeeps
<1>5. Front(bound)' /\ bound' \in Nat
  BY <1>1, <1>2, <1>4 DEF Front
<1>6. QED BY <1>1, <1>2, <1>3, <1>5, ReplyKeeps

\* read_reply: the bound address.
LEMMA BoundKeeps == ASSUME IInv, ReadBound PROVE IInv'
<1>1. /\ step = "bound" /\ Read(bound) /\ Len(inbound) >= bound /\ step' = "open"
      /\ UNCHANGED <<proxyUrl, url, proxy, target, sent, taken, bound>>
  BY DEF ReadBound, Read
<1>2. bound \in Nat /\ Front(bound) /\ taken = Len(sent) /\ inbound \in Seq(Byte)
  BY <1>1 DEF IInv, Shape, Waiting, Progress
<1>3. \A i \in 1..bound : inbound[i].from = "proxy"
  BY <1>1, <1>2 DEF Front
<1>4. Front(bound - bound)'
  BY <1>1, <1>2, <1>3, ReadKeeps
<1>5. Front(0)'
  BY <1>1, <1>2, <1>4 DEF Front
<1>6. QED BY <1>1, <1>2, <1>3, <1>5, ReplyKeeps

\* The connection ends.
LEMMA EofKeeps == ASSUME IInv, ReadEof PROVE IInv'
  BY FailKeeps, Zenon DEF ReadEof, Fail, IInv, Shape, Progress, CredentialsAsked

\* The proxy answers a message that was written, once, and relays behind a
\* reply that reports success.
LEMMA AnswersKeep == ASSUME IInv, ProxyAnswers PROVE IInv'
<1>1. /\ taken < Len(sent) /\ taken' = taken + 1 /\ taken \in Nat /\ inbound \in Seq(Byte)
      /\ sent \in Seq(Message)
      /\ UNCHANGED <<proxyUrl, url, proxy, target, step, error, sent, read, bound>>
  BY DEF ProxyAnswers, IInv, Shape, Progress
<1>2. PICK bytes \in Answers(sent[taken + 1].msg), n \in 0..TargetBytes :
         /\ n > 0 => sent[taken + 1].msg = "request" /\ bytes[2] = 0
         /\ inbound' = inbound \o Bytes("proxy", bytes) \o Bytes("target", [i \in 1..n |-> 5])
  BY Zenon DEF ProxyAnswers
<1>3. bytes \in Seq(Nat) /\ n \in Nat
  BY ProxyAssumption DEF Answers
<1>4. PICK p, t : p = Bytes("proxy", bytes) /\ t = Bytes("target", [i \in 1..n |-> 5])
  OBVIOUS
<1>5. /\ p \in Seq(Byte) /\ Len(p) = Len(bytes)
      /\ \A i \in 1..Len(bytes) : p[i].from = "proxy" /\ p[i].byte = bytes[i]
  BY <1>3, <1>4 DEF Bytes, Byte
<1>6. t \in Seq(Byte) /\ Len(t) = n /\ \A i \in 1..n : t[i].from = "target"
  BY <1>3, <1>4 DEF Bytes, Byte
<1>7. inbound' \in Seq(Byte) /\ inbound' = inbound \o p \o t
  BY <1>1, <1>2, <1>4, <1>5, <1>6
<1>8. Shape'
  BY <1>1, <1>7 DEF IInv, Shape
<1>9. Checked' /\ LengthsExact' /\ CredentialsAsked'
  BY <1>1 DEF IInv, Checked, LengthsExact, CredentialsAsked
<1>10. step \in Talking => taken = Len(sent) - 1 /\ inbound = << >> /\ step \in {"method", "status", "reply"}
  BY <1>1 DEF IInv, Progress, Talking
<1>11. Progress'
  BY <1>1, <1>10 DEF IInv, Progress, Talking
<1>12. Waiting'
  <2>1. CASE step \notin Talking
    BY <1>1, <2>1 DEF Waiting, Talking
  <2>2. CASE step \in Talking
    <3>1. inbound' = p \o t
      BY <1>5, <1>6, <1>7, <1>10, <2>2
    <3>2. /\ Len(inbound') = Len(bytes) + n
          /\ \A i \in 1..Len(bytes) : inbound'[i].from = "proxy" /\ inbound'[i].byte = bytes[i]
      <4>1. Len(inbound') = Len(p) + Len(t) /\ \A i \in 1..Len(p) : inbound'[i] = p[i]
        BY <1>5, <1>6, <3>1, Joined, Zenon
      <4>2. QED BY <1>3, <1>5, <1>6, <4>1
    <3>3. \A i \in 1..Len(inbound') : i > Len(bytes) => inbound'[i].from = "target"
      <4>1. \A i \in 1..Len(t) : inbound'[Len(p) + i] = t[i]
        BY <1>5, <1>6, <3>1, Joined, Zenon
      <4> SUFFICES ASSUME NEW i \in 1..Len(inbound'), i > Len(bytes) PROVE inbound'[i].from = "target"
        OBVIOUS
      <4>2. i - Len(p) \in 1..n /\ i = Len(p) + (i - Len(p))
        BY <1>3, <1>5, <3>2
      <4>3. QED BY <1>6, <4>1, <4>2, Zenon
    <3>4. \A k \in Nat : k = Len(bytes) => Front(k)'
      BY <1>3, <3>2, <3>3 DEF Front
    <3>5. CASE step \in {"method", "status"}
      <4>1. sent[taken + 1].msg \in {"greeting", "auth"}
        <5>1. CASE step = "method"
          <6>1. Len(sent) = 1 /\ taken = Len(sent) - 1
            BY <1>10, <2>2, <5>1 DEF IInv, Progress
          <6>2. taken + 1 = 1 /\ Len(sent) > 0
            BY <1>1, <6>1
          <6>3. sent[1] = Greeting(proxy.auth)
            BY <6>2 DEF IInv, Progress
          <6>4. QED BY <6>2, <6>3 DEF Greeting
        <5>2. CASE step = "status"
          <6>1. Len(sent) = 2 /\ taken = Len(sent) - 1 /\ sent[2].msg = "auth"
            BY <1>10, <2>2, <5>2 DEF IInv, Progress
          <6>2. taken + 1 = 2
            BY <1>1, <6>1
          <6>3. QED BY <6>1, <6>2
        <5>3. QED BY <3>5, <5>1, <5>2
      <4>2. bytes \in Methods \cup Statuses /\ n = 0
        BY <1>2, <1>3, <4>1 DEF Answers
      <4>3. Len(bytes) = 2
        BY <4>2, ProxyAssumption
      <4>4. QED BY <1>1, <1>3, <3>2, <3>4, <3>5, <4>2, <4>3 DEF Waiting
    <3>6. CASE step = "reply"
      <4>1. sent[taken + 1].msg = "request"
        BY <1>1, <1>10, <2>2, <3>6 DEF IInv, Progress
      <4>2. bytes \in Replies
        BY <1>2, <4>1 DEF Answers
      <4>3. /\ Len(bytes) >= 4
            /\ bytes[1] = 5 /\ bytes[2] = 0 =>
                 /\ bytes[4] = 1 => Len(bytes) = 10
                 /\ bytes[4] = 4 => Len(bytes) = 22
                 /\ bytes[4] = 3 => Len(bytes) >= 5 /\ Len(bytes) = bytes[5] + 7
        BY <4>2, ProxyAssumption
      <4>4. \A i \in 1..4 : inbound'[i].from = "proxy" /\ inbound'[i].byte = bytes[i]
        <5>1. \A i \in 1..4 : i \in 1..Len(bytes)
          BY <1>3, <4>3
        <5>2. QED BY <3>2, <5>1
      <4>5. Len(bytes) >= 5 => inbound'[5].byte = bytes[5]
        BY <1>3, <3>2
      <4>6. Front(Len(bytes))'
        BY <1>3, <3>2, <3>3 DEF Front
      <4>7. Len(inbound') >= 4 /\ (Len(bytes) >= 5 => Len(inbound') >= 5)
        BY <1>3, <3>2, <4>3
      <4>8. (inbound[1].byte = 5 /\ inbound[2].byte = 0)' =>
               /\ inbound'[4].byte = 1 => Front(10)'
               /\ inbound'[4].byte = 4 => Front(22)'
               /\ inbound'[4].byte = 3 => Len(inbound') >= 5 /\ Front(inbound[5].byte + 7)'
        <5>1. inbound'[1].byte = bytes[1] /\ inbound'[2].byte = bytes[2] /\ inbound'[4].byte = bytes[4]
          BY <4>4
        <5>2. bytes[4] = 1 /\ bytes[1] = 5 /\ bytes[2] = 0 => Front(10)'
          BY <4>3, <4>6, Zenon DEF Front
        <5>3. bytes[4] = 4 /\ bytes[1] = 5 /\ bytes[2] = 0 => Front(22)'
          BY <4>3, <4>6, Zenon DEF Front
        <5>4. bytes[4] = 3 /\ bytes[1] = 5 /\ bytes[2] = 0 =>
                 Len(inbound') >= 5 /\ Front(inbound[5].byte + 7)'
          BY <4>3, <4>5, <4>6, <4>7, Zenon DEF Front
        <5>5. QED BY <5>1, <5>2, <5>3, <5>4
      <4>9. QED BY <1>1, <3>6, <4>4, <4>7, <4>8 DEF Waiting
    <3>7. QED BY <1>10, <2>2, <3>5, <3>6
  <2>3. QED BY <2>1, <2>2
<1>13. QED BY <1>8, <1>9, <1>11, <1>12 DEF IInv

\* The invariant holds at first and every step keeps it.
LEMMA SocksInductive == SocksSpec => []IInv
<1>1. SocksInit => IInv
  <2> SUFFICES ASSUME SocksInit PROVE IInv
    OBVIOUS
  <2>1. Shape
    BY DEF SocksInit, Shape, NoTarget, NoProxy
  <2>2. Checked /\ Waiting
    BY DEF SocksInit, Checked, Waiting, Talking
  <2>3. Progress
    BY DEF SocksInit, Progress, Talking
  <2>4. LengthsExact /\ CredentialsAsked
    BY DEF SocksInit, LengthsExact, CredentialsAsked
  <2>5. QED BY <2>1, <2>2, <2>3, <2>4 DEF IInv
<1>2. IInv /\ [SocksNext]_svars => IInv'
  <2> SUFFICES ASSUME IInv, [SocksNext]_svars PROVE IInv'
    OBVIOUS
  <2>1. CASE UNCHANGED svars
    <3>1. Shape' /\ Checked'
      BY <2>1, Zenon DEF svars, IInv, Shape, Checked
    <3>2. Progress'
      BY <2>1 DEF svars, IInv, Progress
    <3>3. Waiting'
      BY <2>1 DEF svars, IInv, Waiting, Front
    <3>4. LengthsExact' /\ CredentialsAsked'
      BY <2>1, Zenon DEF svars, IInv, LengthsExact, CredentialsAsked
    <3>5. QED BY <3>1, <3>2, <3>3, <3>4 DEF IInv
  <2>2. QED BY <2>1, ParseKeeps, ResolveKeeps, DialKeeps, MethodKeeps, StatusKeeps, HeadKeeps, LengthKeeps,
               BoundKeeps, EofKeeps, AnswersKeep DEF SocksNext, SocksStep
<1>3. QED BY <1>1, <1>2, PTL DEF SocksSpec

\* read_reply: for every reply that is whole, the bytes dialling reads are the
\* proxy's and the bytes it leaves are the target's, however many have arrived.
THEOREM TunnelBegins == SocksSpec => []TunnelClean
<1>1. IInv => TunnelClean
  <2> SUFFICES ASSUME IInv PROVE TunnelClean
    OBVIOUS
  <2>1. \A i \in 1..Len(read) : read[i].from = "proxy"
    BY DEF IInv, Shape
  <2>2. ASSUME step = "open", NEW i \in 1..Len(inbound) PROVE inbound[i].from = "target"
    <3>1. inbound[i].from # "proxy"
      BY <2>2 DEF IInv, Waiting, Front
    <3>2. inbound[i] \in Byte
      BY DEF IInv, Shape
    <3>3. QED BY <3>1, <3>2 DEF Byte
  <2>3. QED BY <2>1, <2>2 DEF TunnelClean
<1>2. QED BY <1>1, SocksInductive, PTL

\* Proxy::socks5 and connect: for every URL, the lengths on the wire are exact.
THEOREM LengthsFit == SocksSpec => []LengthsExact
<1>1. IInv => LengthsExact
  BY DEF IInv
<1>2. QED BY <1>1, SocksInductive, PTL

\* negotiate and authenticate: credentials are offered, then asked for, then
\* sent.
THEOREM AskedFirst == SocksSpec => []CredentialsAsked
<1>1. IInv => CredentialsAsked
  BY Zenon DEF IInv
<1>2. QED BY <1>1, SocksInductive, PTL
=============================================================================
