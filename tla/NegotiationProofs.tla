------------------------- MODULE NegotiationProofs -------------------------
(***************************************************************************)
(* Whatever the two sides are configured with and built with, a handshake  *)
(* of two of ours ends with settings that fit.                             *)
(***************************************************************************)
EXTENDS Negotiation, TLAPS

Bits == NEGOTIABLE_WINDOW_BITS \cup {Absent}
Params == Seq([key : Key, value : Int])

\* An answer names only windows RFC 7692 allows.
Answer == [server_max_window_bits : Bits, client_max_window_bits : Bits,
           server_no_context_takeover : BOOLEAN, client_no_context_takeover : BOOLEAN]

\* The answer is typed, the server has resolved it, and it answers an offer
\* that our client made: one without zlib offers no window of its own.
NegotiationInv ==
    /\ zlib \in [{"Client", "Server"} -> BOOLEAN]
    /\ options \in [{"Client", "Server"} -> DeflateOptions]
    /\ header \in Seq(Extension) /\ next \in Nat \ {0}
    /\ answered \in BOOLEAN /\ answer \in Answer
    /\ DOMAIN config = {"Client", "Server"}
    /\ phase \in {"start", "offered"} => ~answered
    /\ config["Server"] = IF answered THEN resolve(answer, "Server") ELSE Without("off")
    /\ phase = "done" =>
          ours /\ config["Client"] = IF answered THEN resolve(to_string(answer), "Client")
                             ELSE Without("off")
    /\ ours /\ phase # "start" /\ ~options["Client"].enabled => header = << >>
    /\ ours /\ phase # "start" /\ ~zlib["Client"] =>
          \A i \in 1..Len(header) : "client_max_window_bits" \notin Keys(header[i].params)
    /\ answered /\ ours => options["Client"].enabled
    /\ answered /\ ours /\ ~zlib["Client"] => answer.client_max_window_bits = Absent
    /\ answered /\ ~zlib["Server"] =>
          /\ answer.client_max_window_bits = Absent
          /\ answer.server_max_window_bits \in {Absent, 15}

\* The value of a parameter that offer() accepts is one of those it allows.
LEMMA OfferValues ==
    ASSUME NEW params \in Params, IsOffer(params)
    PROVE  /\ ValueOf(params, "server_max_window_bits") \in Bits
           /\ ValueOf(params, "client_max_window_bits") \in Bits \cup {NoValue}
           /\ "client_max_window_bits" \notin Keys(params)
                 => ValueOf(params, "client_max_window_bits") = Absent
  <1> DEFINE S == {params[i] : i \in 1..Len(params)}
  <1>1. ASSUME NEW key, key \in Keys(params)
        PROVE  \E p \in S : p.key = key
    BY <1>1 DEF Keys
  <1>2. ASSUME NEW key, key \in Keys(params)
        PROVE  /\ (CHOOSE p \in S : p.key = key) \in S
               /\ (CHOOSE p \in S : p.key = key).key = key
    BY <1>1, <1>2, Zenon
  <1>3. \A p \in S : Allowed(p)
    BY DEF IsOffer
  <1>4. "server_max_window_bits" \in Keys(params)
            => ValueOf(params, "server_max_window_bits") \in NEGOTIABLE_WINDOW_BITS
    BY <1>2, <1>3 DEF ValueOf, Allowed
  <1>5. "server_max_window_bits" \notin Keys(params)
            => ValueOf(params, "server_max_window_bits") = Absent
    BY DEF ValueOf
  <1>6. "client_max_window_bits" \notin Keys(params)
            => ValueOf(params, "client_max_window_bits") = Absent
    BY DEF ValueOf
  <1>7. "client_max_window_bits" \in Keys(params)
            => ValueOf(params, "client_max_window_bits") \in NEGOTIABLE_WINDOW_BITS \cup {NoValue}
    BY <1>2, <1>3, Zenon DEF ValueOf, Allowed
  <1>8. ValueOf(params, "server_max_window_bits") \in Bits
    BY <1>4, <1>5 DEF Bits
  <1> QED  BY <1>6, <1>7, <1>8 DEF Bits

\* merge: an answer names only windows that may be named, and a side without
\* zlib keeps to the full window.
LEMMA MergeTyped ==
    ASSUME NEW o \in DeflateOptions, NEW z \in BOOLEAN, NEW params \in Params,
           IsOffer(params), CanHonor(offer(params), z)
    PROVE  LET m == merge(o, offer(params), z)
           IN /\ m \in Answer
              /\ ~z => m.client_max_window_bits = Absent /\ m.server_max_window_bits \in {Absent, 15}
              /\ "client_max_window_bits" \notin Keys(params) => m.client_max_window_bits = Absent
  <1> DEFINE f == offer(params)
             m == merge(o, f, z)
  <1>1. /\ f.server_max_window_bits \in Bits
        /\ f.client_max_window_bits \in Bits \cup {NoValue}
        /\ f.server_no_context_takeover \in BOOLEAN
        /\ f.client_no_context_takeover \in BOOLEAN
        /\ "client_max_window_bits" \notin Keys(params) => f.client_max_window_bits = Absent
    BY OfferValues DEF offer
  <1>2. CanHonor(f, z)
    OBVIOUS
  <1> HIDE DEF f
  <1>3. /\ Preference(o.server_max_window_bits, 9) \in Bits
        /\ Preference(o.client_max_window_bits, 8) \in Bits
    BY DEF Preference, clamp, Bits, NEGOTIABLE_WINDOW_BITS, DeflateOptions, Absent
  <1>4. ASSUME NEW a \in Bits \cup {NoValue}, NEW b \in Bits
        PROVE  MergedWindow(a, b) \in NEGOTIABLE_WINDOW_BITS
    BY DEF MergedWindow, min, Bits, NEGOTIABLE_WINDOW_BITS, Absent, NoValue
  <1>5. m.server_max_window_bits \in Bits /\ m.client_max_window_bits \in Bits
    BY <1>1, <1>3, <1>4 DEF merge, Bits
  <1>6. m.server_no_context_takeover \in BOOLEAN /\ m.client_no_context_takeover \in BOOLEAN
    BY <1>1, Zenon DEF merge, DeflateOptions
  <1>7. m \in Answer
    BY <1>5, <1>6 DEF merge, Answer
  <1>8. ~z => m.client_max_window_bits = Absent /\ m.server_max_window_bits \in {Absent, 15}
    BY <1>1, <1>2 DEF merge, CanHonor, smallest_window, Bits, NEGOTIABLE_WINDOW_BITS, Absent
  <1>9. "client_max_window_bits" \notin Keys(params) => m.client_max_window_bits = Absent
    BY <1>1 DEF merge
  <1> QED  BY <1>7, <1>8, <1>9 DEF f

\* The keys of two lists of parameters, one behind the other.
LEMMA ConcatKeys ==
    ASSUME NEW s \in Params, NEW t \in Params
    PROVE  s \o t \in Params /\ Keys(s \o t) = Keys(s) \cup Keys(t)
  <1>1. s \o t \in Params
    BY DEF Params
  <1>2. ASSUME NEW i \in 1..Len(s \o t)
        PROVE  (s \o t)[i].key \in Keys(s) \cup Keys(t)
    <2>1. CASE i <= Len(s)
      BY <2>1 DEF Keys, Params
    <2>2. CASE i > Len(s)
      <3>1. i - Len(s) \in 1..Len(t) /\ (s \o t)[i] = t[i - Len(s)]
        BY <2>2 DEF Params
      <3> QED  BY <3>1 DEF Keys
    <2> QED  BY <2>1, <2>2 DEF Params
  <1>3. ASSUME NEW i \in 1..Len(s)
        PROVE  s[i].key \in Keys(s \o t)
    <2>1. i \in 1..Len(s \o t) /\ (s \o t)[i] = s[i]
      BY DEF Params
    <2> QED  BY <2>1, Zenon DEF Keys
  <1>4. ASSUME NEW i \in 1..Len(t)
        PROVE  t[i].key \in Keys(s \o t)
    <2>1. i + Len(s) \in 1..Len(s \o t) /\ (s \o t)[i + Len(s)] = t[i]
      BY DEF Params
    <2> QED  BY <2>1, Zenon DEF Keys
  <1> QED  BY <1>1, <1>2, <1>3, <1>4, Zenon DEF Keys

\* A parameter that is there is one key; one that is not is none.
LEMMA ParamKeys ==
    ASSUME NEW key \in Key, NEW present, NEW value \in Int
    PROVE  /\ Param(key, present, value) \in Params
           /\ Keys(Param(key, present, value)) \subseteq {key}
           /\ ~present => Keys(Param(key, present, value)) = {}
  <1>1. CASE present
    <2>1. Param(key, present, value) = <<[key |-> key, value |-> value]>>
      BY <1>1, Zenon DEF Param
    <2>2. /\ Param(key, present, value) \in Params
          /\ Len(Param(key, present, value)) = 1
          /\ Param(key, present, value)[1].key = key
      BY <2>1 DEF Params
    <2>3. Keys(Param(key, present, value)) \subseteq {key}
      BY <2>2 DEF Keys
    <2> QED  BY <1>1, <2>2, <2>3, Zenon
  <1>2. CASE ~present
    <2>1. Param(key, present, value) = <<>>
      BY <1>2, Zenon DEF Param
    <2>2. << >> \in Params /\ Keys(<< >>) = {}
      BY DEF Params, Keys
    <2> QED  BY <2>1, <2>2, Zenon
  <1> QED  BY <1>1, <1>2, Zenon

\* The offer of our client: a client window is named only if it is set.
LEMMA OfferOfTyped ==
    ASSUME NEW o \in DeflateOptions, NEW z \in BOOLEAN
    PROVE  LET e == OfferOf(to_string(from_options(o, z)))
           IN e \in Extension /\ (~z => "client_max_window_bits" \notin Keys(e.params))
  <1> DEFINE ext == to_string(from_options(o, z))
             a == Param("server_max_window_bits", ext.server_max_window_bits # Absent, ext.server_max_window_bits)
             b == Param("client_max_window_bits", ext.client_max_window_bits # Absent, ext.client_max_window_bits)
             c == Param("server_no_context_takeover", ext.server_no_context_takeover, NoValue)
             d == Param("client_no_context_takeover", ext.client_no_context_takeover, NoValue)
  <1>1. /\ ext.server_max_window_bits \in Int /\ ext.client_max_window_bits \in Int
        /\ ~z => ext.client_max_window_bits = Absent
    BY DEF to_string, from_options, Spelled, DeflateOptions, NEGOTIABLE_WINDOW_BITS, Absent, NoValue
  <1>2. /\ NoValue \in Int
        /\ "server_max_window_bits" \in Key /\ "client_max_window_bits" \in Key
        /\ "server_no_context_takeover" \in Key /\ "client_no_context_takeover" \in Key
    BY DEF NoValue, Key
  <1> HIDE DEF ext
  <1>3. a \in Params /\ Keys(a) \subseteq {"server_max_window_bits"}
    BY <1>1, <1>2, ParamKeys, Zenon
  <1>4. b \in Params /\ (~z => Keys(b) = {})
    BY <1>1, <1>2, ParamKeys, Zenon
  <1>5. c \in Params /\ Keys(c) \subseteq {"server_no_context_takeover"}
    BY <1>2, ParamKeys, Zenon
  <1>6. d \in Params /\ Keys(d) \subseteq {"client_no_context_takeover"}
    BY <1>2, ParamKeys, Zenon
  <1>7. OfferOf(ext) = [name |-> "permessage-deflate", params |-> a \o b \o c \o d]
    BY Zenon DEF OfferOf
  <1> HIDE DEF a, b, c, d
  <1>8. a \o b \in Params /\ Keys(a \o b) = Keys(a) \cup Keys(b)
    BY <1>3, <1>4, ConcatKeys
  <1>9. a \o b \o c \in Params /\ Keys(a \o b \o c) = Keys(a \o b) \cup Keys(c)
    BY <1>5, <1>8, ConcatKeys, Zenon
  <1>10. a \o b \o c \o d \in Params /\ Keys(a \o b \o c \o d) = Keys(a \o b \o c) \cup Keys(d)
    BY <1>6, <1>9, ConcatKeys, Zenon
  <1>11. OfferOf(ext) \in Extension /\ OfferOf(ext).params = a \o b \o c \o d
    BY <1>7, <1>10 DEF Extension, Params
  <1>12. ~z => "client_max_window_bits" \notin Keys(a \o b \o c \o d)
    BY <1>3, <1>4, <1>5, <1>6, <1>8, <1>9, <1>10
  <1>13. ~z => "client_max_window_bits" \notin Keys(OfferOf(ext).params)
    BY <1>11, <1>12, Zenon
  <1> QED  BY <1>11, <1>13, Zenon DEF ext

\* The invariant holds initially and every step keeps it.
LEMMA NegotiationInvariant == Spec => []NegotiationInv
  <1>1. Init => NegotiationInv
    <2> SUFFICES ASSUME Init  PROVE NegotiationInv
      OBVIOUS
    <2>1. options \in [{"Client", "Server"} -> DeflateOptions]
      <3>1. Disabled \in DeflateOptions
        BY DEF Disabled, DeflateOptions
      <3>2. PICK c \in DeflateOptions, s \in DeflateOptions : options = [Client |-> c, Server |-> s]
        BY <3>1, NegotiationAssumption, Zenon DEF Init
      <3> QED  BY <3>2
    <2>2. answer \in Answer
      BY Zenon DEF Init, Nothing, Answer, Bits
    <2>3. header \in Seq(Extension) /\ next \in Nat \ {0}
      BY DEF Init
    <2> QED  BY <2>1, <2>2, <2>3, Zenon DEF Init, NegotiationInv
  <1>2. NegotiationInv /\ [Next]_vars => NegotiationInv'
    <2> SUFFICES ASSUME NegotiationInv, [Next]_vars  PROVE NegotiationInv'
      OBVIOUS
    <2> USE DEF NegotiationInv
    <2>1. CASE Connect
      <3> DEFINE e == OfferOf(to_string(from_options(options["Client"], zlib["Client"])))
      <3>1. options["Client"] \in DeflateOptions /\ zlib["Client"] \in BOOLEAN
        OBVIOUS
      <3>2. e \in Extension /\ (~zlib["Client"] => "client_max_window_bits" \notin Keys(e.params))
        BY <3>1, OfferOfTyped, Zenon
      <3>3. header' = IF options["Client"].enabled THEN <<e>> ELSE << >>
        BY <2>1, Zenon DEF Connect
      <3> HIDE DEF e
      <3>4. header' \in Seq(Extension)
        BY <3>2, <3>3
      <3>5. ~zlib["Client"] =>
              \A i \in 1..Len(header') : "client_max_window_bits" \notin Keys(header'[i].params)
        BY <3>2, <3>3
      <3>6. ~options["Client"].enabled => header' = << >>
        BY <3>3
      <3> QED  BY <2>1, <3>4, <3>5, <3>6 DEF Connect
    <2>2. CASE ConnectOther
      <3>1. header' \in Seq(Extension)
        BY <2>2, NegotiationAssumption DEF ConnectOther
      <3> QED  BY <2>2, <3>1 DEF ConnectOther
    <2>3. CASE Decline
      BY <2>3 DEF Decline
    <2>4. CASE Accept
      <3> DEFINE p == header[next].params
                 m == merge(options["Server"], offer(p), zlib["Server"])
      <3>1. /\ options["Server"] \in DeflateOptions /\ zlib["Server"] \in BOOLEAN
            /\ next \in 1..Len(header) /\ header[next] \in Extension
        BY <2>4 DEF Accept
      <3>2. p \in Params /\ IsOffer(p) /\ CanHonor(offer(p), zlib["Server"])
        BY <2>4, <3>1 DEF Accept, Honored, Extension, Params
      <3>3. /\ m \in Answer
            /\ ~zlib["Server"] => m.client_max_window_bits = Absent /\ m.server_max_window_bits \in {Absent, 15}
            /\ "client_max_window_bits" \notin Keys(p) => m.client_max_window_bits = Absent
        BY <3>1, <3>2, MergeTyped, Zenon
      <3>4. /\ answer' = m /\ answered' = TRUE /\ phase' = "answered"
            /\ config' = [config EXCEPT !["Server"] = resolve(m, "Server")]
            /\ UNCHANGED <<zlib, options, ours, header, next>>
            /\ phase = "offered"
        BY <2>4 DEF Accept, Answering
      <3>5. ours /\ ~zlib["Client"] => "client_max_window_bits" \notin Keys(p)
        BY <3>1, <3>4
      <3>6. ours => options["Client"].enabled
        BY <3>1, <3>4
      <3> HIDE DEF p, m
      <3> QED  BY <3>1, <3>3, <3>4, <3>5, <3>6
    <2>5. CASE AnswerNone
      BY <2>5 DEF AnswerNone
    <2>6. CASE Verify
      <3>1. /\ phase = "answered" /\ ours /\ phase' = "done"
            /\ UNCHANGED <<zlib, options, ours, header, next, answered, answer>>
        BY <2>6 DEF Verify
      <3>2. /\ DOMAIN config' = {"Client", "Server"}
            /\ config'["Server"] = config["Server"]
            /\ config'["Client"] = IF answered THEN resolve(to_string(answer), "Client")
                                   ELSE Without("off")
        BY <2>6 DEF Verify
      <3> QED  BY <3>1, <3>2
    <2>7. CASE UNCHANGED vars
      BY <2>7 DEF vars
    <2> QED  BY <2>1, <2>2, <2>3, <2>4, <2>5, <2>6, <2>7, Zenon DEF Next
  <1> QED  BY <1>1, <1>2, PTL DEF Spec

\* What one side resolves from an answer fits what the other side resolves.
LEMMA ResolvedFits ==
    ASSUME NegotiationInv, phase = "done", ours, answered
    PROVE  Fits("Client", "Server") /\ Fits("Server", "Client")
  <1>1. /\ config["Server"] = resolve(answer, "Server")
        /\ config["Client"] = resolve(to_string(answer), "Client")
        /\ answer \in Answer
        /\ zlib["Client"] \in BOOLEAN /\ zlib["Server"] \in BOOLEAN
        /\ ~zlib["Client"] => answer.client_max_window_bits = Absent
        /\ ~zlib["Server"] =>
              answer.client_max_window_bits = Absent /\ answer.server_max_window_bits \in {Absent, 15}
    BY DEF NegotiationInv
  <1>2. to_string(answer) = answer
    BY <1>1, Zenon DEF to_string, Spelled, Answer, Bits
  <1> DEFINE client == Half(answer.client_no_context_takeover, answer.client_max_window_bits)
             server == Half(answer.server_no_context_takeover, answer.server_max_window_bits)
  <1>3. /\ config["Server"].outgoing = server /\ config["Server"].incoming = client
        /\ config["Client"].outgoing = client /\ config["Client"].incoming = server
    BY <1>1, <1>2 DEF resolve, Config
  <1>4. /\ BuiltWindow(client, zlib["Client"]) <= BuiltWindow(client, zlib["Server"])
        /\ BuiltWindow(server, zlib["Server"]) <= BuiltWindow(server, zlib["Client"])
    BY <1>1 DEF BuiltWindow, Half, Window, clamp, Answer, Bits, NEGOTIABLE_WINDOW_BITS, Absent
  <1> QED  BY <1>3, <1>4, Zenon DEF Fits

\* merge and resolve: whatever the options and the features of the two sides, a
\* handshake of two of ours ends with both compressing, with settings that fit
\* in both directions, or with neither compressing.
THEOREM SettingsFit == Spec => []ContextsAgree
  <1>1. NegotiationInv => ContextsAgree
    <2> SUFFICES ASSUME NegotiationInv, phase = "done"
                 PROVE  \/ config["Client"].result = "off" /\ config["Server"].result = "off"
                        \/ /\ config["Client"].result = "on" /\ config["Server"].result = "on"
                           /\ Fits("Client", "Server") /\ Fits("Server", "Client")
      BY Zenon DEF ContextsAgree
    <2>1. CASE answered
      BY <2>1, ResolvedFits DEF NegotiationInv, resolve, Config
    <2>2. CASE ~answered
      BY <2>2 DEF NegotiationInv, Without
    <2> QED  BY <2>1, <2>2
  <1> QED  BY <1>1, NegotiationInvariant, PTL
=============================================================================
