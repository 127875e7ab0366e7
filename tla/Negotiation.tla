---------------------------- MODULE Negotiation ----------------------------
(***************************************************************************)
(* permessage-deflate in the handshake: the client writes an offer, the    *)
(* server answers the first offer it can honor, and each side resolves the *)
(* answer into the settings it compresses and decompresses with.  Either   *)
(* side may be built with the zlib feature (window sizes can be chosen) or *)
(* without it (always 15 bits), and the client may be one of ours or any   *)
(* other.                                                                  *)
(*                                                                         *)
(* A header is the list of its extensions; how they are spelled is left    *)
(* out, except that a line outside the grammar is told apart and that a    *)
(* window size outside 8..15 is written without its value.                 *)
(***************************************************************************)
EXTENDS Integers, Sequences

CONSTANTS ClientOptions,  \* Options::compression of the client
          ServerOptions,  \* Options::compression of the server
          Headers         \* Sec-WebSocket-Extensions of other clients

\* Option<Option<u8>>: None, Some(None), or Some(Some(bits)).
Absent == -1
NoValue == -2
WINDOW_BITS == 9..15
NEGOTIABLE_WINDOW_BITS == 8..15
clamp(bits, low, high) == IF bits < low THEN low ELSE IF bits > high THEN high ELSE bits
min(a, b) == IF a < b THEN a ELSE b

\* Option<DeflateOptions>; `enabled' is is_some().
DeflateOptions ==
    [enabled : BOOLEAN, server_max_window_bits : 0..255 \cup {Absent},
     client_max_window_bits : 0..255 \cup {Absent},
     server_no_context_takeover : BOOLEAN, client_no_context_takeover : BOOLEAN]
WebSocketExtensions ==
    [server_max_window_bits : 0..255 \cup {Absent, NoValue},
     client_max_window_bits : 0..255 \cup {Absent, NoValue},
     server_no_context_takeover : BOOLEAN, client_no_context_takeover : BOOLEAN]
Key == {"server_max_window_bits", "client_max_window_bits", "server_no_context_takeover",
        "client_no_context_takeover", "unknown"}
Extension == [name : {"permessage-deflate", "other", "ungrammatical"},
              params : Seq([key : Key, value : Int])]

ASSUME NegotiationAssumption ==
    /\ ClientOptions \subseteq DeflateOptions
    /\ ServerOptions \subseteq DeflateOptions
    /\ Headers \subseteq Seq(Extension)

-----------------------------------------------------------------------------
(* The functions of the code. *)

\* From<&DeflateOptions>.
from_options(options, zlib) ==
    [server_max_window_bits |-> IF zlib THEN options.server_max_window_bits ELSE Absent,
     client_max_window_bits |-> IF zlib THEN options.client_max_window_bits ELSE Absent,
     server_no_context_takeover |-> options.server_no_context_takeover,
     client_no_context_takeover |-> options.client_no_context_takeover]

\* Display, as from_str reads it back: other window sizes lose their value.
Spelled(bits) == IF bits \in NEGOTIABLE_WINDOW_BITS \cup {Absent} THEN bits ELSE NoValue
to_string(extensions) ==
    [extensions EXCEPT !.server_max_window_bits = Spelled(@),
                       !.client_max_window_bits = Spelled(@)]

\* The parameters of one offer, by key.
Keys(params) == {params[i].key : i \in 1..Len(params)}
ValueOf(params, key) ==
    IF key \in Keys(params)
    THEN (CHOOSE p \in {params[i] : i \in 1..Len(params)} : p.key = key).value
    ELSE Absent

\* offer(): what RFC 7692 has the server decline is no offer.
Allowed(param) ==
    \/ param.key \in {"server_no_context_takeover", "client_no_context_takeover"}
       /\ param.value = NoValue
    \/ param.key = "server_max_window_bits" /\ param.value \in NEGOTIABLE_WINDOW_BITS
    \/ param.key = "client_max_window_bits" /\ param.value \in NEGOTIABLE_WINDOW_BITS \cup {NoValue}
IsOffer(params) ==
    /\ \A i \in 1..Len(params) : Allowed(params[i])
    /\ \A i, j \in 1..Len(params) : params[i].key = params[j].key => i = j
offer(params) ==
    [server_max_window_bits |-> ValueOf(params, "server_max_window_bits"),
     client_max_window_bits |-> ValueOf(params, "client_max_window_bits"),
     server_no_context_takeover |-> "server_no_context_takeover" \in Keys(params),
     client_no_context_takeover |-> "client_no_context_takeover" \in Keys(params)]

\* agree(): the smallest window this side's compressor can keep to.
smallest_window(zlib) == IF zlib THEN 9 ELSE 15
CanHonor(extensions, zlib) ==
    ~(extensions.server_max_window_bits \in 0..255
      /\ extensions.server_max_window_bits < smallest_window(zlib))

\* DeflateOptions::merge, one window: the offered value and this side's own.
MergedWindow(offered, preference) ==
    IF offered \in 0..255
    THEN IF preference = Absent THEN offered ELSE min(offered, preference)
    ELSE IF preference = Absent THEN 9 ELSE preference
Preference(bits, low) == IF bits = Absent THEN Absent ELSE clamp(bits, low, 15)

\* (fault) The server's own wish for the client's window is sent unasked.
mergeUnasked(options, offered, zlib) ==
    LET server_preference == Preference(options.server_max_window_bits, 9)
        client_preference == Preference(options.client_max_window_bits, 8)
    IN [client_no_context_takeover |->
            offered.client_no_context_takeover \/ options.client_no_context_takeover,
        server_no_context_takeover |->
            offered.server_no_context_takeover \/ options.server_no_context_takeover,
        client_max_window_bits |->
            IF ~zlib THEN Absent
            ELSE IF offered.client_max_window_bits = Absent THEN client_preference
            ELSE MergedWindow(offered.client_max_window_bits, client_preference),
        server_max_window_bits |->
            IF ~zlib THEN offered.server_max_window_bits
            ELSE IF offered.server_max_window_bits = Absent THEN server_preference
            ELSE MergedWindow(offered.server_max_window_bits, server_preference)]

merge(options, offered, zlib) ==
    LET server_preference == Preference(options.server_max_window_bits, 9)
        client_preference == Preference(options.client_max_window_bits, 8)
    IN [client_no_context_takeover |->
            offered.client_no_context_takeover \/ options.client_no_context_takeover,
        server_no_context_takeover |->
            offered.server_no_context_takeover \/ options.server_no_context_takeover,
        client_max_window_bits |->
            IF ~zlib \/ offered.client_max_window_bits = Absent THEN Absent
            ELSE MergedWindow(offered.client_max_window_bits, client_preference),
        server_max_window_bits |->
            IF ~zlib THEN offered.server_max_window_bits
            ELSE IF offered.server_max_window_bits = Absent THEN server_preference
            ELSE MergedWindow(offered.server_max_window_bits, server_preference)]

\* CompressionConfig::resolve, per direction; a window that is not named is None.
Window(bits) == IF bits \in 0..255 THEN clamp(bits, 9, 15) ELSE Absent
Half(no_context_takeover, bits) ==
    [no_context_takeover |-> no_context_takeover, window_bits |-> Window(bits)]
HalfConfig == [no_context_takeover : BOOLEAN, window_bits : WINDOW_BITS \cup {Absent}]
\* Ok(Some(config)), and without settings Ok(None) and Err.
Config(outgoing, incoming) == [result |-> "on", outgoing |-> outgoing, incoming |-> incoming]
Without(result) ==
    [result |-> result, outgoing |-> Half(FALSE, Absent), incoming |-> Half(FALSE, Absent)]

\* (fault) The client compresses with the server's settings.
resolveSwapped(extensions, role) ==
    Config(Half(extensions.server_no_context_takeover, extensions.server_max_window_bits),
           Half(extensions.client_no_context_takeover, extensions.client_max_window_bits))

resolve(extensions, role) ==
    LET client == Half(extensions.client_no_context_takeover, extensions.client_max_window_bits)
        server == Half(extensions.server_no_context_takeover, extensions.server_max_window_bits)
    IN IF role = "Client" THEN Config(client, server) ELSE Config(server, client)

\* The window a Compressor or Decompressor is built with.
BuiltWindow(half, zlib) == IF zlib /\ half.window_bits # Absent THEN half.window_bits ELSE 15

-----------------------------------------------------------------------------
VARIABLES
    zlib,      \* is the side built with the zlib feature?
    options,   \* Options::compression of the two sides
    ours,      \* the client is one of ours
    phase,     \* of the handshake
    header,    \* the extensions in the request
    next,      \* the extension the server looks at
    answered,  \* the response names extensions
    answer,    \* the extensions in the response
    config     \* what each side resolved

vars == <<zlib, options, ours, phase, header, next, answered, answer, config>>

Nothing == [server_max_window_bits |-> Absent, client_max_window_bits |-> Absent,
            server_no_context_takeover |-> FALSE, client_no_context_takeover |-> FALSE]

\* Options::compression is None; another client has no options of ours.
Disabled == [enabled |-> FALSE, server_max_window_bits |-> Absent, client_max_window_bits |-> Absent,
             server_no_context_takeover |-> FALSE, client_no_context_takeover |-> FALSE]

Init ==
    /\ zlib \in [{"Client", "Server"} -> BOOLEAN]
    /\ ours \in BOOLEAN
    /\ \E c \in IF ours THEN ClientOptions ELSE {Disabled}, s \in ServerOptions :
          options = [Client |-> c, Server |-> s]
    /\ phase = "start" /\ header = << >> /\ next = 1
    /\ answered = FALSE /\ answer = Nothing
    /\ config = [Client |-> Without("off"), Server |-> Without("off")]

\* The request of our client: one offer, or none without compression.
Param(key, present, value) == IF present THEN <<[key |-> key, value |-> value]>> ELSE << >>
OfferOf(ext) ==
    [name |-> "permessage-deflate",
     params |->
        Param("server_max_window_bits", ext.server_max_window_bits # Absent, ext.server_max_window_bits)
        \o Param("client_max_window_bits", ext.client_max_window_bits # Absent, ext.client_max_window_bits)
        \o Param("server_no_context_takeover", ext.server_no_context_takeover, NoValue)
        \o Param("client_no_context_takeover", ext.client_no_context_takeover, NoValue)]
Connect ==
    /\ phase = "start" /\ ours
    /\ header' = IF options["Client"].enabled
                 THEN <<OfferOf(to_string(from_options(options["Client"], zlib["Client"])))>>
                 ELSE << >>
    /\ phase' = "offered"
    /\ UNCHANGED <<zlib, options, ours, next, answered, answer, config>>

\* The request of another client.
ConnectOther ==
    /\ phase = "start" /\ ~ours
    /\ header' \in Headers
    /\ phase' = "offered"
    /\ UNCHANGED <<zlib, options, ours, next, answered, answer, config>>

\* offers() yields nothing if any line is outside the grammar.
Grammatical == \A i \in 1..Len(header) : header[i].name # "ungrammatical"
Answering == phase = "offered" /\ options["Server"].enabled /\ Grammatical
Honored(extension) ==
    /\ extension.name = "permessage-deflate"
    /\ IsOffer(extension.params)
    /\ CanHonor(offer(extension.params), zlib["Server"])

\* The server passes over what it cannot honor ...
Decline ==
    /\ Answering /\ next <= Len(header) /\ ~Honored(header[next])
    /\ next' = next + 1
    /\ UNCHANGED <<zlib, options, ours, phase, header, answered, answer, config>>

\* ... answers the first offer it can, and resolves its own side ...
Accept ==
    /\ Answering /\ next <= Len(header) /\ Honored(header[next])
    /\ LET merged == merge(options["Server"], offer(header[next].params), zlib["Server"])
       IN /\ answered' = TRUE /\ answer' = merged
          /\ config' = [config EXCEPT !["Server"] = resolve(merged, "Server")]
    /\ phase' = "answered"
    /\ UNCHANGED <<zlib, options, ours, header, next>>

\* ... or answers without extensions.
AnswerNone ==
    /\ phase = "offered"
    /\ ~options["Server"].enabled \/ ~Grammatical \/ next > Len(header)
    /\ phase' = "answered"
    /\ UNCHANGED <<zlib, options, ours, header, next, answered, answer, config>>

\* The client reads the response: nothing negotiated, not asked for, or agreed.
Verify ==
    /\ phase = "answered" /\ ours
    /\ config' = [config EXCEPT !["Client"] =
            IF ~answered THEN Without("off")
            ELSE IF ~options["Client"].enabled THEN Without("failed")
            ELSE resolve(to_string(answer), "Client")]
    /\ phase' = "done"
    /\ UNCHANGED <<zlib, options, ours, header, next, answered, answer>>

Next == Connect \/ ConnectOther \/ Decline \/ Accept \/ AnswerNone \/ Verify
Spec == Init /\ [][Next]_vars

-----------------------------------------------------------------------------
(* Properties. *)

\* What one side compresses with, the other can decompress: the same resets,
\* and a window no larger than the one it was built with.
Fits(from, to) ==
    LET half == config[from].outgoing
        other == config[to].incoming
    IN /\ half.no_context_takeover = other.no_context_takeover
       /\ BuiltWindow(half, zlib[from]) <= BuiltWindow(other, zlib[to])

\* agree, merge, to_string, from_str and resolve together: after a handshake of
\* two of ours either both sides compress, with settings that fit in both
\* directions, or neither does; the client never fails on the answer.
ContextsAgree ==
    phase = "done" =>
        \/ config["Client"].result = "off" /\ config["Server"].result = "off"
        \/ /\ config["Client"].result = "on" /\ config["Server"].result = "on"
           /\ Fits("Client", "Server") /\ Fits("Server", "Client")

\* agree and merge: the answer to any client grants what its offer demands,
\* names no client window that was not offered or is larger, and the server's
\* compressor keeps to the window the answer names.
AnswerKeepsOffer ==
    phase = "answered" /\ answered =>
        LET offered == offer(header[next].params)
            server == BuiltWindow(config["Server"].outgoing, zlib["Server"])
        IN /\ offered.server_no_context_takeover => answer.server_no_context_takeover
           /\ answer.client_max_window_bits # Absent => offered.client_max_window_bits # Absent
           /\ offered.client_max_window_bits \in 8..15 =>
                 answer.client_max_window_bits <= offered.client_max_window_bits
           /\ offered.server_max_window_bits \in 8..15 =>
                 answer.server_max_window_bits \in 8..offered.server_max_window_bits
           /\ answer.server_max_window_bits # Absent => server <= answer.server_max_window_bits
=============================================================================
