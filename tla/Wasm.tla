-------------------------------- MODULE Wasm --------------------------------
(***************************************************************************)
(* The client for browsers (wasm.rs).  The browser's WebSocket is          *)
(* external: the network hands it events, and for each a task changes the  *)
(* ready state and calls the handler registered for it.  Handlers feed two *)
(* unbounded channels: outcome, which connect awaits, and channel, which   *)
(* the caller polls.                                                       *)
(***************************************************************************)
EXTENDS Integers, Sequences

CONSTANTS MaxMessages, MaxSends   \* bounds: messages of the peer, calls of the caller

VARIABLES at,       \* the caller: "start", "connecting", "connected", "failed", "dropped"
          ready,    \* readyState, "none" before the constructor
          tasks,    \* events not yet dispatched
          net,      \* the connection: "none", "dialling", "up", "down"
          registered, outcome, channel,
          fired,    \* history: messages handed to a registered handler
          got,      \* history: what poll_next returned
          opened,   \* history: the open event was handled
          arrived,  \* messages the network delivered so far
          calls

vars == <<at, ready, tasks, net, registered, outcome, channel, fired, got, opened, arrived, calls>>

Init ==
    /\ at = "start" /\ ready = "none" /\ tasks = << >> /\ net = "none" /\ registered = FALSE
    /\ outcome = << >> /\ channel = << >> /\ fired = << >> /\ got = << >> /\ opened = FALSE
    /\ arrived = 0 /\ calls = 0

-----------------------------------------------------------------------------
(* The browser: external. *)

Handshake ==
    /\ net = "dialling"
    /\ \/ net' = "up" /\ tasks' = Append(tasks, "open")
       \/ net' = "down" /\ tasks' = Append(tasks, "fail")
    /\ UNCHANGED <<at, ready, registered, outcome, channel, fired, got, opened, arrived, calls>>

\* A value that is neither text nor an array buffer is a "blob".
Message ==
    /\ net = "up" /\ arrived < MaxMessages
    /\ \E m \in {"text", "binary", "blob"} : tasks' = Append(tasks, m)
    /\ arrived' = arrived + 1
    /\ UNCHANGED <<at, ready, net, registered, outcome, channel, fired, got, opened, calls>>

\* The peer closes, answers a Close, or the connection breaks.
Hangup ==
    /\ net = "up" /\ net' = "down" /\ tasks' = Append(tasks, "close")
    /\ UNCHANGED <<at, ready, registered, outcome, channel, fired, got, opened, arrived, calls>>

\* stream.close(): before the handshake has completed it fails the connection.
BrowserClose ==
    /\ ready' = IF ready = "closed" THEN ready ELSE "closing"
    /\ IF net = "dialling" THEN net' = "down" /\ tasks' = Append(tasks, "fail")
       ELSE UNCHANGED <<net, tasks>>

-----------------------------------------------------------------------------
(* The handlers, run by the browser's tasks. *)

onopen == outcome' = Append(outcome, "ok")

\* (fault) Only an open event ends the handshake.
FailedQuietly == UNCHANGED outcome
\* onerror and onclose each report a failed handshake.
Failed == outcome' = Append(outcome, "err")

\* (fault) Messages are passed on once connect has returned.
onmessageLate(m) ==
    channel' = IF m = "blob" \/ at # "connected" THEN channel ELSE Append(channel, m)
onmessage(m) == channel' = IF m = "blob" THEN channel ELSE Append(channel, m)

\* (fault) The end is not reported.
oncloseFrameOnly == channel' = Append(channel, "close")
onclose == channel' = channel \o <<"close", "end">>

\* A failed connection fires error and then close, with no other event in
\* between; the caller's code may run there.
Dispatch ==
    /\ tasks # << >>
    /\ tasks' = IF Head(tasks) = "fail" THEN <<"close">> \o Tail(tasks) ELSE Tail(tasks)
    /\ LET task == Head(tasks)
       IN \/ /\ task = "open" /\ ready = "connecting" /\ ready' = "open"
             /\ IF registered THEN onopen /\ opened' = TRUE ELSE UNCHANGED <<outcome, opened>>
             /\ UNCHANGED <<channel, fired>>
          \/ /\ task \in {"text", "binary", "blob"} /\ ready = "open"
             /\ IF registered THEN /\ onmessage(task)
                                   /\ fired' = IF task = "blob" THEN fired ELSE Append(fired, task)
                ELSE UNCHANGED <<channel, fired>>
             /\ UNCHANGED <<ready, outcome, opened>>
          \/ /\ task = "fail" /\ ready' = "closed"
             /\ IF registered THEN Failed ELSE UNCHANGED outcome
             /\ UNCHANGED <<channel, fired, opened>>
          \/ /\ task = "close" /\ ready' = "closed"
             /\ IF registered THEN onclose /\ Failed ELSE UNCHANGED <<channel, outcome>>
             /\ UNCHANGED <<fired, opened>>
          \* The browser drops what comes once it is closing.
          \/ /\ \/ task = "open" /\ ready # "connecting"
                \/ task \in {"text", "binary", "blob"} /\ ready # "open"
             /\ UNCHANGED <<ready, channel, outcome, fired, opened>>
    /\ UNCHANGED <<at, net, registered, got, arrived, calls>>

-----------------------------------------------------------------------------
(* The caller. *)

\* open(): the constructor refuses a URL, or every handler is registered before
\* a task can run.
Open ==
    /\ at = "start"
    /\ \/ at' = "failed" /\ UNCHANGED <<ready, net, registered>>
       \/ at' = "connecting" /\ ready' = "connecting" /\ net' = "dialling" /\ registered' = TRUE
    /\ UNCHANGED <<tasks, outcome, channel, fired, got, opened, arrived, calls>>

\* Drop for WebSocket; the closures and both channels go with it.
DropSocket(then) == at' = then /\ BrowserClose /\ registered' = FALSE

OutcomeFine(first) == first = "ok"
\* connect() resumes with the first outcome.
Connect ==
    /\ at = "connecting" /\ outcome # << >>
    /\ IF OutcomeFine(Head(outcome)) THEN at' = "connected" /\ UNCHANGED <<ready, net, tasks, registered>>
       ELSE DropSocket("failed")
    /\ UNCHANGED <<outcome, channel, fired, got, opened, arrived, calls>>
\* The caller drops the future, or later the socket.
Drop ==
    /\ at \in {"connecting", "connected"} /\ DropSocket("dropped")
    /\ UNCHANGED <<outcome, channel, fired, got, opened, arrived, calls>>

\* start_send: a Close without a code, or with one a page may not use, fails and
\* leaves the socket as it is; data is accepted, though a closing browser socket
\* discards it; the browser handles the rest by itself.  poll_close closes.
StartSend ==
    /\ at = "connected" /\ calls < MaxSends /\ calls' = calls + 1
    /\ \E call \in {"text", "binary", "ping", "close 1000", "close 1001", "close", "poll_close"} :
         IF call \in {"close 1000", "poll_close"} THEN BrowserClose ELSE UNCHANGED <<ready, net, tasks>>
    /\ UNCHANGED <<at, registered, outcome, channel, fired, got, opened, arrived>>

\* poll_next: behind the end it is pending for good, the handlers hold a sender.
PollNext ==
    /\ at = "connected" /\ channel # << >>
    /\ got' = Append(got, Head(channel)) /\ channel' = Tail(channel)
    /\ UNCHANGED <<at, ready, tasks, net, registered, outcome, fired, opened, arrived, calls>>

Next ==
    \/ Handshake \/ Message \/ Hangup \/ Dispatch
    \/ Open \/ Connect \/ Drop \/ StartSend \/ PollNext

\* The browser runs its tasks, gives up a handshake and, once it is closing, the
\* connection (WHATWG); the executor polls a task that was woken, and the caller
\* its stream.
Spec ==
    /\ Init /\ [][Next]_vars
    /\ WF_vars(Open) /\ WF_vars(Handshake) /\ WF_vars(Hangup /\ ready = "closing")
    /\ WF_vars(Dispatch) /\ WF_vars(Connect) /\ WF_vars(PollNext)

-----------------------------------------------------------------------------

\* onmessage, onclose and poll_next: what the browser fires, between the
\* handshake and connect's return as well, reaches the caller once and in
\* order, and the stream ends once, as its last item, right behind the Close.
MessagesKept ==
    /\ at \in {"connecting", "connected"} =>
          fired = SelectSeq(got \o channel, LAMBDA f : f \in {"text", "binary"})
    /\ \A i \in 1..Len(got) : got[i] = "end" => i = Len(got) /\ i > 1 /\ got[i - 1] = "close"

\* connect: unless its future is dropped it resolves, whatever the network does,
\* and not to a socket whose handshake failed.
ConnectResolves == <>(at \in {"failed", "dropped"} \/ (at = "connected" /\ opened))

\* poll_close, Drop: a socket that is closed gets the caller's stream to its end
\* unless the caller drops it.
ClosedStreamEnds ==
    (at = "connected" /\ ready \in {"closing", "closed"}) ~>
        (at = "dropped" \/ (got # << >> /\ got[Len(got)] = "end"))
=============================================================================
