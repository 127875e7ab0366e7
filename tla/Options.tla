------------------------------ MODULE Options -------------------------------
(***************************************************************************)
(* Options (src/native/options.rs), built by a chain of with_ calls in any *)
(* order, and Negotiation::new, which turns them into the settings that a  *)
(* connection runs with.  Which window sizes and context resets are agreed *)
(* is the subject of Negotiation; here they are fields like any other.     *)
(***************************************************************************)
EXTENDS Integers, Sequences, FiniteSets

CONSTANTS Values,   \* arguments of the calls
          MaxCalls  \* the length of a chain

VARIABLES opts, calls
ovars == <<opts, calls>>

None == -1
MAX_PAYLOAD_READ == 1024 * 1024
MAX_READ_BUFFER == 2 * 1024 * 1024

\* DeflateOptions and Fragmentation with what their Default gives; `some' is
\* whether the Option that holds them is Some.  Levels are named.
DeflateDefault(some, level) ==
    [some |-> some, level |-> level, server_max_window_bits |-> None,
     client_max_window_bits |-> None, server_no_context_takeover |-> 0,
     client_no_context_takeover |-> 0, compression_threshold |-> 0, pool |-> None]
Fragmentation(some) == [some |-> some, timeout |-> None, fragment_size |-> None]
Default ==
    [max_payload_read |-> None, max_read_buffer |-> None, read_buffer_capacity |-> None,
     write_buffer_capacity |-> None, compression |-> DeflateDefault(FALSE, "default"),
     fragmentation |-> Fragmentation(FALSE), check_utf8 |-> 0, no_delay |-> 0,
     max_backpressure_write_boundary |-> None]

\* The calls that set one plain field, one field of `compression' or of
\* `fragmentation', to the argument; the flags among them set 1.
PlainFields == {"max_payload_read", "max_read_buffer", "read_buffer_capacity", "write_buffer_capacity",
          "check_utf8", "no_delay", "max_backpressure_write_boundary"}
OfDeflate == {"server_max_window_bits", "client_max_window_bits", "server_no_context_takeover",
              "client_no_context_takeover", "compression_threshold", "pool"}
OfFragmentation == {"timeout", "fragment_size"}
Flags == {"check_utf8", "no_delay", "server_no_context_takeover", "client_no_context_takeover"}
Presets == [low_latency |-> "fast", high_compression |-> "best", balanced |-> "default"]

Call(name, value) == [name |-> name, value |-> value]
Calls == {Call(name, 1) : name \in Flags}
         \cup {Call(name, v) : name \in (PlainFields \cup OfDeflate \cup OfFragmentation) \ Flags, v \in Values}
         \cup {Call(name, 0) : name \in DOMAIN Presets \cup {"limits", "level", "without_compression"}}

\* unwrap_or_default, then one field: what an earlier call set stays.
WithDeflate(o, name, value) ==
    [o EXCEPT !.compression = [@ EXCEPT !.some = TRUE, ![name] = value]]

\* (fault) The other field of `fragmentation' goes back to its default.
WithFragmentationAnew(o, name, value) ==
    [o EXCEPT !.fragmentation = [Fragmentation(TRUE) EXCEPT ![name] = value]]
WithFragmentation(o, name, value) ==
    [o EXCEPT !.fragmentation = [@ EXCEPT !.some = TRUE, ![name] = value]]

\* with_limits(1, 3) stands for a call with two arguments, with_compression_level
\* for one with the highest level.
Apply(o, c) ==
    CASE c.name \in PlainFields -> [o EXCEPT ![c.name] = c.value]
      [] c.name \in OfDeflate -> WithDeflate(o, c.name, c.value)
      [] c.name \in OfFragmentation -> WithFragmentation(o, c.name, c.value)
      [] c.name \in DOMAIN Presets -> [o EXCEPT !.compression = DeflateDefault(TRUE, Presets[c.name])]
      [] c.name = "level" -> WithDeflate(o, "level", "best")
      [] c.name = "limits" -> [o EXCEPT !.max_payload_read = 1, !.max_read_buffer = 3]
      [] c.name = "without_compression" -> [o EXCEPT !.compression = DeflateDefault(FALSE, "default")]

unwrap_or(value, default) == IF value = None THEN default ELSE value

\* Negotiation::new without the extensions, and WebSocket::new, which passes
\* the two fields of `fragmentation' on.  The product of the read buffer
\* wraps in a usize; the sizes here are far from that.
Settings(o) ==
    [max_payload_read |-> unwrap_or(o.max_payload_read, MAX_PAYLOAD_READ),
     max_read_buffer |-> unwrap_or(o.max_read_buffer,
                            IF o.max_payload_read # None THEN 2 * o.max_payload_read
                            ELSE MAX_READ_BUFFER),
     read_buffer_capacity |-> o.read_buffer_capacity,
     write_buffer_capacity |-> o.write_buffer_capacity,
     check_utf8 |-> o.check_utf8,
     max_backpressure_write_boundary |-> o.max_backpressure_write_boundary,
     timeout |-> IF o.fragmentation.some THEN o.fragmentation.timeout ELSE None,
     fragment_size |-> IF o.fragmentation.some THEN o.fragmentation.fragment_size ELSE None,
     compression_threshold |-> IF o.compression.some THEN o.compression.compression_threshold ELSE 0,
     pool |-> IF o.compression.some THEN o.compression.pool ELSE None]

OptionsInit == opts = Default /\ calls = << >>
With ==
    /\ Len(calls) < MaxCalls
    /\ \E c \in Calls : opts' = Apply(opts, c) /\ calls' = Append(calls, c)

-----------------------------------------------------------------------------
\* The last call of a chain that sets a field, or 0.
Sets(c, field) ==
    \/ c.name = field
    \/ c.name = "limits" /\ field \in {"max_payload_read", "max_read_buffer"}
    \/ c.name \in DOMAIN Presets \cup {"without_compression"} /\ field \in OfDeflate
LastSetting(field) ==
    LET at == {i \in 1..Len(calls) : Sets(calls[i], field)}
    IN IF at = {} THEN 0 ELSE CHOOSE i \in at : \A j \in at : j <= i
Asked(field, default) ==
    LET i == LastSetting(field)
    IN IF i = 0 \/ calls[i].name # field
       THEN IF i # 0 /\ calls[i].name = "limits" THEN IF field = "max_payload_read" THEN 1 ELSE 3
            ELSE default
       ELSE calls[i].value

\* Options and Negotiation::new: whatever the order of the calls, each setting
\* a connection runs with is the one its last call asked for, or the default;
\* no call undoes another, except that a preset or without_compression
\* replaces all that was said about compression.  A read buffer that was not
\* sized holds two payloads.
SettingsAsAsked ==
    LET s == Settings(opts)
        payload == Asked("max_payload_read", None)
    IN /\ \A f \in {"read_buffer_capacity", "write_buffer_capacity", "timeout", "fragment_size",
                    "max_backpressure_write_boundary", "pool"} : s[f] = Asked(f, None)
       /\ s.check_utf8 = Asked("check_utf8", 0)
       /\ s.compression_threshold = Asked("compression_threshold", 0)
       /\ s.max_payload_read = unwrap_or(payload, MAX_PAYLOAD_READ)
       /\ s.max_read_buffer = unwrap_or(Asked("max_read_buffer", None), 2 * s.max_payload_read)
=============================================================================
