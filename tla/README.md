# yawc in TLA+

A verification project for yawc, a WebSocket library (RFC 6455 with
permessage-deflate) for asynchronous Rust. The modules model the code under
`src/src` from its source; `PROJECT.json` maps every definition to the lines it
stands for.

## The system

| Part | Source | State it keeps | Operations | Model |
|---|---|---|---|---|
| Frames, opcodes, close codes | `frame.rs`, `close.rs` | none | `is_control`, `into_fragments`, `is_allowed` | `Frames` |
| Read half | `native/split.rs` | `is_closed`, `compressed_stream` | `poll_frame` | `Endpoint` |
| Write half | `native/split.rs` | `close_state`, `streaming` | `poll_ready`, `start_send`, `poll_flush`, `poll_close` | `Endpoint` |
| Streaming | `native/streaming.rs` | `obligated_sends`, `flush_sends`, codecs, buffers | `poll_next_frame`, the sink, `poll_flush_obligated` | `Endpoint`, `FragmentLayer` |
| WebSocket | `native/mod.rs` | fragment layer, `check_utf8` | `poll_next_frame`, the sink, `poll_flush_fragments` | `Endpoint`, `FragmentLayer` |
| Fragment layer | `native/mod.rs` | outgoing queue, incoming fragment and buffer | `fragment_outgoing`, `assemble_incoming` | `FragmentLayer` |
| Wake proxy | `native/mod.rs` | one waker per kind of poll | `set_waker`, `poll_with_context`, `wake_by_ref` | `WakeProxy` |
| Frame codec, masking | `codec.rs`, `mask.rs` | `ReadState` | `decode`, `encode`, `apply_mask`, `copy_mask` | `Codec`, `Mask` |
| Compression contexts, pool | `compression.rs`, `compression/pool.rs` | LZ77 windows, pooled states | `compress`, `decompress`, `take_*`, `put_*` | `Deflate` |
| Offers and negotiation | `compression/offer.rs`, `compression.rs`, `native/mod.rs` | none | `offers`, `agree`, `resolve` | `Negotiation` |
| Options | `native/options.rs` | the settings | setters, presets, `Negotiation::new` | `Options` |
| SOCKS5 | `native/socks5.rs` | position in the dialogue | `negotiate`, `authenticate`, `send_request`, `read_reply` | `Socks5` |
| Builder, dialling, TLS, both handshakes | `native/builder.rs`, `native/mod.rs`, `native/upgrade.rs`, `native/http2.rs` | stage of the connection | `connect_*`, `http1_upgrade`, `http2::handshake`, `verify`, `upgrade_*`, `from_request_parts` | `Connecting` |
| yawcc: connect | `yawcc/src/connection.rs` | URL, hop, what may still be sent | `connect_inner`, `dial` | `Redirects` |
| yawcc: sessions | `yawcc/src/session.rs`, `server.rs`, `terminal.rs` | select loops, channels, timers | `run`, `finish_peer_close`, `serve`, `run_async` | `Session`, `Yawcc` |
| WebAssembly client | `wasm.rs` | two channels, browser callbacks | `connect`, handlers, sink, stream, `drop` | `Wasm` |
| Transport enum | `stream.rs` | none | delegation | the transport of `Endpoint` |

How they interact. An application polls a `WebSocket`, as one task or, after
`split()`, as a reader and a writer task behind a lock. A read takes frames off
the framed transport through `Streaming` and the read half, puts fragments
together, and leaves what it *owes* the peer (a Pong, the reply to a Close, the
Close that reports an error) in `obligated_sends`. The owed frames are sent by
whichever comes first: a read that finds nothing to read, or a write that asks
for room. A write goes through the fragment queue, the obligations, the write
half and the write buffer of `Framed`. Both tasks share the transport, which
knows one waker per direction: `WakeProxy` forwards its wakes. Before all that, a
client collects options, dials (through a proxy or not), wraps the stream in TLS,
sends an HTTP request and checks the answer, while a server checks the request;
what they negotiate configures the compression contexts. The command line tool
connects on its own, following redirects, and runs a select loop over frames,
input, signals and timers. In a browser none of this code runs: `wasm.rs` wraps
the browser's socket.

What is hard in it, and listed line by line under `hazards` in `PROJECT.json`:
two tasks working on one obligation queue and one close state, each able to stop
pending at any point; a read that reports the end of the connection while its
last reply is still buffered; wakes that race a registration; a message
abandoned halfway, with its bytes and later fragments still around; limits that
one layer computes and another applies; errors that `poll_close` does not look at;
byte streams cut anywhere, with a protocol boundary inside (proxy to target, HTTP
to WebSocket, one frame to the next); two parties who must come to the same
verdict from what each of them sees; select loops that do not read while they send.

## Modules

`Frames` has opcodes, FIN and payloads of symbolic bytes, the allowed close codes
and `into_fragments`. Reserved bits and masks are below this level; whatever the
decoder refuses is the one value `Malformed`.

`Endpoint` is one side of an established connection. Its variables are the
fields of the code (`obligated_sends`, `flush_sends`, `close_state`, `is_closed`,
`outgoing_fragments`, whether `incoming_fragment` is there), the write buffer of
`Framed`, the transport, and histories that only the properties read. `poll`
names the call in progress. A call excludes the other task until it returns, and
is one action per iteration of its loops; between two actions the peer and the
transport move. `Begin*` starts a call; `Read*` is one iteration of
`poll_next_frame` by kind of frame; `Obligated*` is the loop of
`poll_flush_obligated`; `SendFragment`, `Accept`, `NotReady` and `Flush` are the
sink; `Close*` are the arms of `WriteHalf::poll_close`. `Framed` is external and
modelled by how it is used: `poll_ready` touches the transport only at the
backpressure boundary, a flush writes what fits and is ready when the buffer is
empty. The buffer and the transport are counted in whole frames. A transport
that fails stays failed (`broken`), and an error may hit any of its operations.

`FragmentLayer` is one direction from a sender to a receiver: `start_send` and
`poll_flush_fragments` with Pongs in between, then the payload limit of
`Streaming::on_frame`, `assemble_incoming` and the UTF-8 check. After an error
the application may read on, as the code allows. `SendRaw` replaces our sender
by one that sends any data frames. Time is one flag: `Elapse` says that the
timeout of the current message has passed. UTF-8 has characters of one byte and
of two, so that a cut may fall inside a character.

`MessageChannel` is what the two ends promise together: each message delivered
is one that was offered, whole, with its opcode, in order and at most once.

`WakeProxy` is the proxy with its two `AtomicWaker`s, the polls that register
with it before polling (`with_context`) or between two polls
(`poll_with_context`), and `wake_by_ref` in its three steps, once per direction
of the transport at the same time. A task is one for both kinds (`SameTask`) or
one each.

`Negotiation` is the choice of compression settings in one handshake: the
client's offer, or the header of another client, the server's search for the
first offer it can honor, `merge`, the answer, the client's check of it and
`resolve` on both sides, each side built with zlib or without. A header is a
sequence of extensions with their parameters; its spelling is left out.

`Deflate` is what follows: connections of one direction each, a `Compressor`, the
frames and a `Decompressor`, that share two pools. LZ77 is reduced to what can go
wrong with it. A symbol becomes a token that refers to every symbol in the
compressor's window, so it comes out right only if the decompressor remembers
the same ones; a window of b bits remembers b - 8 symbols. Taking a state and
storing it are two actions, because other connections use the pool in between.
Without a flush some output may stay behind in either state. A sender of another
kind may close its stream with a final block at the end of a message. `Drop` ends
a connection with whatever it holds. flate2 is external and assumed not to fail
on what a compressor made.

`Mask` has the masking routines of every build (AVX2, plain x86, NEON, big endian)
on sequences of bytes: words, the rotation of the key by the bytes in front of the
first aligned word, vector blocks and remainders. `Codec` puts them to use: a client's
encoder, a server that decodes whatever pieces arrive and echoes each frame, the
client's decoder. `src` and `state` are the decoder's buffer and `ReadState`; `idle`
is the negation of `Framed`'s `is_readable`. Streams of other implementations are
given as bytes, some behind the handshake response. The 64-bit length form occurs
only in these.

`Options` is the setters in any order; those that assign one field each stand for
each other. `Socks5` is the proxy conversation: lengths are numbers, the answers are
bytes that arrive in pieces, and each byte knows whether the proxy or the target
sent it. `Connecting` extends `Negotiation`, `Socks5` and `Options` and is everything
from the builder to the open WebSocket. A plan is one way to connect: the call, the
HTTP version, URL, local address, connector, the caller's own headers, the server's
entry point. The steps of the extended modules happen inside its steps. hyper,
TLS and DNS are external: hyper may read any number of the bytes that follow the
response, and its calls (`handshake`, `send_request`, `upgrade::on`) may fail, which
is `ConnectionBreaks` and one end of `ReadResponse`. When they fail behind the
server's decision the server may have accepted a client that has failed.
`VerdictsAgree` says that this is the only way for the two to differ: an open client
was accepted, and the client turns down no answer that accepts it. What becomes of
the server's `UpgradeFut` then is its own transport's error and not modelled. `TlsDisabled` and `MissingTlsConnector` are one case.

`Redirects` is `connect` of the command line tool: `trips` records, for each hop, what
was shown to whom. `Session` is its select loop, the input thread, the server's
sessions and the server's main loop. The WebSocket underneath is reduced to what
`Endpoint` says of it. `Yawcc` composes them: a session begins where a chain of
redirects has ended.

`Wasm` is the browser client. The browser is external: the network queues tasks, a
task changes the ready state and calls a handler, and the caller's code runs between
two tasks.

The `MC` modules give the constants values for TLC. Definitions marked `(fault)` are
plausible mistakes; no specification uses them. They exist to show that the
properties notice.

## Runs

| Run | Checks | Instance |
|---|---|---|
| `endpoint` | `DataInOrder`, `CloseKept`, `CloseReplyOnWire`, `DoneMeansFlushed`, `PongsAnswerPings` | two accepted frames (a message cut in two, a Close), two from the peer out of two Pings, Closes with a good and a bad code and a refused frame, boundary 2, room for 1, a transport that may fail |
| `endpoint_live` | `ObligationsMet`, `CloseCompletes`, `SilentAfterDone` | one accepted frame, two from the peer out of a Ping, a Pong, fragments and a Close with a code that is not allowed, boundary and room 1 |
| `wake` | `NoLostWakeup`, `WokenEventually` | two tasks, wakes of both directions at the same time |
| `fragment_layer` | `NoSilentLoss`, `BufferBounded`, `Messaging`, `AllAnswered` | three messages of six kinds or three raw frames, fragment size 2, both limits within reach, timeout, UTF-8 check |
| `connecting` | `RequestInsideTunnel`, `TunnelClean`, `CredentialsAsked`, `VerdictsAgree`, `PushedArrive`, `SettingsAsAsked`, `ContextsAgree`, `AnswerKeepsOffer` | every API, version and server entry point, a connection that breaks at any point of the handshake; lengths around 255; every answer of a proxy; windows around each limit, with and without zlib; three setter calls |
| `deflate` | `TypeOK`, `MessagesIntact`, `MessagesWhole`, `PoolClean`, `IdleHoldsNothing` | two connections of different settings, a pool of one, three frames, final blocks |
| `codec` | `FramesIntact`, `MaskedByteWise`, `ChunkingIrrelevant`, `NothingWithheld` | payloads around 125, 256 and the limit, four builds, two alignments, cuts anywhere in the first 17 bytes |
| `yawcc` | `CredentialsStayHome`, `NeverDowngrades`, `OkMeansBothClosed`, `BroadcastNoGap`, `ShutdownEnds`, `CloseEnds` | three redirects over two hosts and two schemes, all proxies; eight scenes of one or two clients, room for one frame, a broadcast backlog of one |
| `wasm` | `MessagesKept`, `ConnectResolves`, `ClosedStreamEnds` | three messages of the peer, two calls of the caller |

The bounds are chosen so that the cases happen: the transport holds one frame
and the boundary is at most two, so every call can be left pending at every
stage while another frame is queued behind it; two inbound frames are a Ping
before a Close, two Pings, or a Close behind another. The deflate run has messages
longer than the smallest window and a pool that is both empty and full. Three
redirects are a way out, a way back and one too many. The codec's cuts cover two
headers with mask and extended length; the vector routines need no cut inside a
payload, which is decoded whole. With room for one frame a client and an echo server
block each other in `send`, which is what the timers are for. Larger bounds repeat
these situations. Endpoint and wake runs check deadlock. The others do not: a
handshake or a session ends, a script is sent, and an idle connection rightly stops.

Three runs show where the code does not do what its documentation says:

- `second_close`: a Close that arrives after this side sent its own is echoed
  all the same; `native/mod.rs:668` promises a reply "if not already closing".
- `close_drops_fragments`: `WebSocket::poll_close` does not flush the fragment
  queue, so a message accepted by `start_send` can be cut short by the
  application's own close; `split.rs:469` says pending frames are flushed.
- `fragmented_control`: `into_fragments` cuts control frames as well;
  `frame.rs:137` says they cannot be fragmented.

Three more were met while reading the code; no run checks them. The fragment
timeout is looked at only when another
continuation arrives (`options.rs:182` says an error is returned when it
expires). A limit on the client's own window is lost when the answer does not
repeat it (`options.rs:717`). The low latency profile keeps both contexts
(`options.rs:761` says it does not).

## Fairness

- `Endpoint!LiveSpec`: weak fairness of `PollStep` (a call that began returns),
  strong fairness of `BeginRead` (the reader's task polls again and again,
  though the writer may hold the lock each time it looks), weak fairness of
  `PeerTake` (the peer reads). Nothing is assumed of the writer, except that a
  shutdown that is polled again and again is not pending for ever (strong fairness
  of `CloseShutdown`, a property of TCP and TLS); `CloseCompletes` itself speaks of
  the runs in which `poll_close` is called again and again.
- `WakeProxy!LiveSpec`: a poll and a wake run to their end; a task that was woken
  gets to poll (strong, for the same lock). A task that was not woken may never
  poll again: that is what makes the property say something.
- `FragmentLayer!FairSpec`: the sender flushes (strong: a Pong may take the room
  each time) and the receiver reads. No fairness makes the clock advance.
- `YawccSpec`: timers fire (the session's deadline, the connect deadline, the
  timeouts inside the send and close steps), tasks that can go on are polled.
  Nothing is assumed of users, of other servers or of the network.
- `Wasm!Spec`: the browser runs its tasks, ends a handshake and, once it is closing,
  the connection, as the WHATWG standard asks; a woken task and the caller's stream
  are polled. Messages, calls and the peer's own close need not happen.

## Proofs

For all values of the constants that satisfy the assumptions named in the
modules (`EndpointAssumption`, `FragmentAssumption`, `WakeAssumption`,
`NegotiationAssumption`, `DeflateAssumption`, `SetupsAssumption`,
`LengthsAssumption`, `ProxyAssumption`), TLAPS checks:

- `EndpointProofs`: `TypeCorrect`; `CloseIsKept`, `CloseReply`, `DoneFlushed` and
  `Silent`, that is, `CloseKept`, `CloseReplyOnWire`, `DoneMeansFlushed` and
  `SilentAfterDone`.
- `WakeProxyProofs`: `NoWakeupLost`, that is, `NoLostWakeup`.
- `FragmentLayerProofs`: `BufferIsBounded`, that is, `TypeOK` and `BufferBounded`.
- `NegotiationProofs`: `SettingsFit`, that is, `ContextsAgree`.
- `DeflateProofs`: `PoolIsClean` and `StateIsBorrowed`, that is, `PoolClean` and
  `IdleHoldsNothing`.
- `RedirectsProofs`: `StayHome`, `NoDowngrade` and `HeadersFirst`, that is,
  `CredentialsStayHome`, `NeverDowngrades` and `HeadersOnlyAtFirst`.
- `Socks5Proofs`: `TunnelBegins`, `LengthsFit` and `AskedFirst`, that is,
  `TunnelClean`, `LengthsExact` and `CredentialsAsked`.

The close properties are not inductive one by one: that the reader reports the
end only after its Close left the buffer depends on `flush_sends` being set
whenever the Close sits in the buffer, and that `Done` means flushed depends on
what `Flushing` and `Closing` guarantee. `CloseInv` states these facts together.
The steps of the endpoint fall into four groups (nothing moves, the buffer
drains, a frame enters the buffer, a Close is queued), each with a lemma that it
keeps `CloseInv`. `WakeInv` adds to `NoLostWakeup` that a parked task's waker is
installed or held by a running wake, and that the direction it waits for has the
proxy registered or a wake under way that has not passed its waker yet.
`FramesProofs` has the arithmetic of the cut.

`SettingsFit` needs that every parameter that travels is typed and that an answer
is the merge of an offer with the server's options; with that, `resolve` on the
two sides reads the same windows and flags. `DeflateAssumption` takes over its
conclusion: a compressor's window is at most the decompressor's. `PoolInv`, behind
the two theorems on `Deflate`, says of each connection that a frame about to be
compressed or decompressed has a state with the negotiated window, that opcodes
agree with `streaming`, and that no continuation on the wire carries the
compression bit; the last one makes `compressed_stream` cover every frame of a
compressed message, so the state is given back exactly at its end.

For redirects the code compares each URL only with the one before, while the
properties speak of the whole chain. `Ahead` closes the gap: whatever may still be
sent (headers, override, certificate) is at home at the current URL, and once a trip
went over TLS the current URL does too. For SOCKS5 the invariant has four parts
besides the properties: `Shape` (types, and only the proxy's bytes were read),
`Checked` (lengths were checked before the dialogue began), `Progress` (which messages
were sent at each step) and `Waiting` (where the proxy's bytes end in what has
arrived, which each read consumes exactly).

Three theorems have no run of their own: `TypeCorrect`, `HeadersFirst` and
`LengthsFit` hold for every instance, and a run would only repeat them.

Only model-checked: liveness; `DataInOrder` and `PongsAnswerPings` (they filter
sequences, which needs induction over data); `NoSilentLoss`,
`AnswerKeepsOffer`; `MessagesIntact` and `MessagesWhole` (what a decompressor
makes of a sequence of tokens, again an induction); the refinement of
`MessageChannel` (it needs that the concatenation of fragments is the message);
everything about `Codec`, which decodes by recursion and XORs bit by bit; the
properties of the composed handshake, of sessions and of the browser client.

## Not modelled

- Line editing, colours, history and the restoring of the terminal, reading of
  certificate files, `NoCertificateVerification`: input and output.
- `stream.rs`: each method delegates to TCP or TLS.
- Growth, release and reuse of byte buffers, and how errors are classified
  (`WebSocketError` is the name of a failure here).
- The spelling of headers, URLs and names. Where it decides, a URL has a kind: an IPv6
  host, which its brackets keep from being a server name for TLS
  (`native/mod.rs:1591`), a proxy host that does not parse, user info that does not
  decode.
- Sizes near the top of `usize`: the default read buffer is twice the payload limit
  and may overflow (`native/mod.rs:278`).
- Two `Endpoint`s back to back. The peer of `Endpoint` may send any frames at any
  time and is assumed to take what was sent only where liveness is claimed, so its
  safety properties cover a second endpoint as peer; that both sides may wait for
  each other behind two crossing Closes is not excluded.
- A peer that always has another Ping ready: the reader then never flushes and
  `obligated_sends` has no bound. `ObligationsMet` speaks of finite input.
- Compression inside `Endpoint` (`Deflate` has it), a frame split over several writes,
  failures of flate2 on input no compressor made, data a peer puts behind a final
  block inside a message (the code drops it), and a fragment size of 0 with a
  non-empty payload, for which `into_fragments` does not end. A panic in
  `fragment_outgoing` for frames that are fragmented by hand is excluded by
  `EndpointAssumption`.
- In `Connecting`, a caller who sets `Sec-WebSocket-Key` on an HTTP/1.1 request: the
  server answers for the caller's key and the client, which checks its own, refuses.
  `VerdictsAgree` leaves this caller out.
