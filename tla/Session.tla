------------------------------ MODULE Session -------------------------------
(***************************************************************************)
(* The command line client's session (yawcc/src/session.rs), fed by the    *)
(* terminal (terminal.rs), with the sessions of the command line server    *)
(* and its main loop (server.rs) at the other end.                         *)
(*                                                                         *)
(* The WebSocket underneath is reduced to what Endpoint says of it: frames *)
(* arrive in order; reading a Close queues a reply, which the next poll    *)
(* writes; a side that is dropped lets the other read what was written and *)
(* then fail.  A direction holds Room frames, and a send waits for room.   *)
(* Timers may fire at any time after they were set.  Two close codes stand *)
(* for 1000 and 1001 ("close") and for the others ("close3000").  The      *)
(* automatic Pongs are left out.                                           *)
(***************************************************************************)
EXTENDS Integers, Sequences, FiniteSets

CONSTANTS Clients,
          Scenes,    \* [who, lines, typed, interactive, wait, strict, fits]
          Channel,   \* capacity of the terminal's channel and of the upgrade queue
          Backlog,   \* capacity of the broadcast channel
          Room

VARIABLES scene,
          script,    \* what the user of each client still types
          terminal,  \* the channel from the terminal thread
          client,    \* [pc, out, closing (the code), input_done, deadline]
          up, down,  \* frames in flight
          typed,     \* what the user of the server still types
          server,    \* the main loop: "running", "draining", "stopped"
          queue,     \* upgrade_rx
          session,   \* [pc, out, missed] of each client at the server
          cast,      \* broadcast frames a session has not received, numbered
          sent,      \* history: what each client's session wrote
          shown,     \* history: frames each client has read
          said,      \* history: the broadcast frames each session wrote, numbered
          number     \* of broadcast frames so far

yvars == <<scene, script, terminal, client, up, down, typed, server, queue, session, cast, sent,
           shown, said, number>>

Closed == "eof"   \* in flight: the sender was dropped
NoFrame == "none"
IsClose(frame) == frame \in {"close", "close3000"}
Idle == [pc |-> "off", out |-> NoFrame, closing |-> NoFrame, input_done |-> FALSE,
         deadline |-> "none"]
NoSession == [pc |-> "none", out |-> [frame |-> NoFrame, n |-> 0], missed |-> FALSE]

SessionInit ==
    /\ scene \in Scenes /\ script = scene.lines /\ typed = scene.typed
    /\ terminal = [c \in Clients |-> << >>] /\ client = [c \in Clients |-> Idle]
    /\ up = [c \in Clients |-> << >>] /\ down = [c \in Clients |-> << >>]
    /\ server = "running" /\ queue = << >> /\ session = [c \in Clients |-> NoSession]
    /\ cast = [c \in Clients |-> << >>]
    /\ sent = [c \in Clients |-> << >>] /\ shown = [c \in Clients |-> << >>]
    /\ said = [c \in Clients |-> << >>] /\ number = 0

Alive(c) == client[c].pc \notin {"off", "ok", "failed"}
Serving(c) == session[c].pc \notin {"none", "done"}

-----------------------------------------------------------------------------
(* The server accepts. *)

\* upgrade(): a request for another path or subprotocol is refused; the others
\* are queued, waiting for room.
Upgrade(c) ==
    /\ server = "running" /\ c \in scene.who /\ client[c].pc = "off" /\ session[c].pc = "none"
    /\ IF scene.fits
       THEN /\ Len(queue) < Channel
            /\ queue' = Append(queue, c)
            /\ session' = [session EXCEPT ![c].pc = "queued"]
            /\ UNCHANGED client
       ELSE client' = [client EXCEPT ![c].pc = "failed"] /\ UNCHANGED <<queue, session>>
    /\ UNCHANGED <<scene, script, terminal, up, down, typed, server, cast, sent, shown, said, number>>

\* The connection's task writes the response, on which connect() returns.
Respond(c) ==
    /\ server = "running" /\ client[c].pc = "off" /\ session[c].pc # "none"
    /\ client' = [client EXCEPT ![c].pc = "running"]
    /\ UNCHANGED <<scene, script, terminal, up, down, typed, server, queue, session, cast, sent,
                   shown, said, number>>

\* The loop takes it from the queue: from here on it is sent what is broadcast.
Spawn ==
    /\ server = "running" /\ queue # << >>
    /\ session' = [session EXCEPT ![Head(queue)].pc = "upgrading"]
    /\ queue' = Tail(queue)
    /\ UNCHANGED <<scene, script, terminal, client, up, down, typed, server, cast, sent, shown,
                   said, number>>

-----------------------------------------------------------------------------
(* The client. *)

\* parse(): /close and /ping are frames, a bad one is an error, a comment nothing.
parse(line) == CASE line \in {"ping", "close", "close3000", "text"} -> line
                 [] line = "comment" -> NoFrame [] OTHER -> "error"

\* display(): whether a frame can be shown; text that is not JSON may not.
display(frame) == IF frame = "text" /\ scene.strict THEN BOOLEAN ELSE {TRUE}

\* The input thread: one event per line while the channel has room.
Type(c) ==
    /\ Alive(c) /\ script[c] # << >> /\ Len(terminal[c]) < Channel
    /\ terminal' = [terminal EXCEPT ![c] = Append(@, Head(script[c]))]
    /\ script' = [script EXCEPT ![c] = Tail(@)]
    /\ UNCHANGED <<scene, client, up, down, typed, server, queue, session, cast, sent, shown, said, number>>

\* A side that ends is dropped with its WebSocket.
EndClient(c, result) ==
    /\ client' = [client EXCEPT ![c].pc = result]
    /\ up' = [up EXCEPT ![c] = Append(@, Closed)]

\* (fault) No timer is started.
StartSendUntimed(c, frame) ==
    client' = [client EXCEPT ![c] = [@ EXCEPT !.pc = "sending", !.out = frame,
                  !.closing = IF IsClose(frame) THEN frame ELSE @,
                  !.input_done = @ \/ IsClose(frame)]]
\* The end of the loop body: a Close stops the input and starts a timer of
\* two seconds, before it is sent.
StartSend(c, frame) ==
    client' = [client EXCEPT ![c] = [@ EXCEPT !.pc = "sending", !.out = frame,
                  !.closing = IF IsClose(frame) THEN frame ELSE @,
                  !.input_done = @ \/ IsClose(frame),
                  !.deadline = IF IsClose(frame) THEN "close" ELSE @]]

\* The select: input ...
Input(c) ==
    /\ client[c].pc = "running" /\ ~client[c].input_done
    /\ \/ /\ terminal[c] # << >>
          /\ terminal' = [terminal EXCEPT ![c] = Tail(@)]
          /\ LET line == Head(terminal[c])
                 frame == IF line = "interrupt" THEN "close" ELSE parse(line)
             IN IF frame = "error" THEN EndClient(c, "failed")
                ELSE IF frame = NoFrame THEN UNCHANGED <<client, up>>
                ELSE StartSend(c, frame) /\ UNCHANGED up
       \/ /\ terminal[c] = << >> /\ script[c] = << >>
          /\ client' = [client EXCEPT ![c] = [@ EXCEPT !.input_done = TRUE,
                            !.deadline = IF scene.wait THEN "wait" ELSE "none"]]
          /\ UNCHANGED <<terminal, up>>
    /\ UNCHANGED <<scene, script, down, typed, server, queue, session, cast, sent, shown, said, number>>

\* ... Ctrl-C, unless a Close was sent, or the deadline: the first one closes,
\* the one behind a Close fails ...
Interrupt(c) ==
    /\ client[c].pc = "running" /\ client[c].closing = NoFrame
    /\ StartSend(c, "close")
    /\ UNCHANGED <<scene, script, terminal, up, down, typed, server, queue, session, cast, sent,
                   shown, said, number>>
SessionDeadline(c) ==
    /\ client[c].pc = "running" /\ client[c].deadline # "none"
    /\ IF client[c].closing # NoFrame THEN EndClient(c, "failed")
       ELSE StartSend(c, "close") /\ UNCHANGED up
    /\ UNCHANGED <<scene, script, terminal, down, typed, server, queue, session, cast, sent, shown,
                   said, number>>

\* The code decides: 1000, 1001 or the one the session closed with itself.
Verdict(c, frame) == IF frame = "close" \/ frame = client[c].closing THEN "ok" ELSE "failed"
\* (fault) The session ends at once, its reply unwritten.
AfterPeerCloseAtOnce(c, frame) == EndClient(c, Verdict(c, frame))
\* A Close behind one of its own ends the session, else it polls once more.
AfterPeerClose(c, frame) ==
    IF client[c].closing # NoFrame THEN EndClient(c, Verdict(c, frame))
    ELSE /\ client' = [client EXCEPT ![c].pc = "finishing", ![c].out = frame]
         /\ UNCHANGED up

\* ... and a frame.  One that cannot be displayed fails.
Receive(c) ==
    /\ client[c].pc = "running" /\ down[c] # << >>
    /\ LET frame == Head(down[c])
       IN \/ /\ frame = Closed \/ FALSE \in display(frame)
             /\ EndClient(c, "failed") /\ UNCHANGED shown
          \/ /\ frame # Closed
             /\ shown' = [shown EXCEPT ![c] = Append(@, frame)]
             /\ IF IsClose(frame) THEN AfterPeerClose(c, frame) ELSE UNCHANGED <<client, up>>
    /\ down' = [down EXCEPT ![c] = Tail(@)]
    /\ UNCHANGED <<scene, script, terminal, typed, server, queue, session, cast, sent, said, number>>

\* finish_peer_close: the reply is written, two seconds pass, or the write fails
\* because the server is gone.
FinishClient(c) ==
    /\ client[c].pc = "finishing"
    /\ \/ /\ Len(up[c]) < Room
          /\ client' = [client EXCEPT ![c].pc = Verdict(c, client[c].out)]
          /\ up' = [up EXCEPT ![c] = @ \o <<client[c].out, Closed>>]
          /\ sent' = [sent EXCEPT ![c] = Append(@, client[c].out)]
       \/ /\ Len(up[c]) >= Room \/ session[c].pc = "done"
          /\ EndClient(c, "failed") /\ UNCHANGED sent
    /\ UNCHANGED <<scene, script, terminal, down, typed, server, queue, session, cast, shown, said, number>>

\* ws.send: there is room, or five seconds pass, or the server is gone.
SendClient(c) ==
    /\ client[c].pc = "sending"
    /\ \/ /\ Len(up[c]) < Room
          /\ up' = [up EXCEPT ![c] = Append(@, client[c].out)]
          /\ sent' = [sent EXCEPT ![c] = Append(@, client[c].out)]
          /\ client' = [client EXCEPT ![c].pc = "running", ![c].out = NoFrame]
       \/ (Len(up[c]) >= Room \/ session[c].pc = "done") /\ EndClient(c, "failed") /\ UNCHANGED sent
    /\ UNCHANGED <<scene, script, terminal, down, typed, server, queue, session, cast, shown, said, number>>

-----------------------------------------------------------------------------
(* A session of the server. *)

EndSession(c) ==
    /\ session' = [session EXCEPT ![c].pc = "done"]
    /\ down' = [down EXCEPT ![c] = Append(@, Closed)]
ToSend(c, frame, n) ==
    session' = [session EXCEPT ![c].pc = "sending", ![c].out = [frame |-> frame, n |-> n]]

\* serve(): the upgrade ends, within five seconds ...
Upgraded(c) ==
    /\ session[c].pc = "upgrading"
    /\ IF client[c].pc = "off" \/ (client[c].pc = "failed" /\ up[c] = << >>) THEN EndSession(c)
       ELSE session' = [session EXCEPT ![c].pc = "serving"] /\ UNCHANGED down
    /\ UNCHANGED <<scene, script, terminal, client, up, typed, server, queue, cast, sent, shown,
                   said, number>>

Echoes(frame) == ~scene.interactive /\ frame = "text"
\* ... then a frame of the client ...
Hear(c) ==
    /\ session[c].pc = "serving" /\ up[c] # << >>
    /\ LET frame == Head(up[c])
       IN \/ frame = Closed /\ EndSession(c)
          \/ scene.interactive /\ FALSE \in display(frame) /\ EndSession(c)
          \/ /\ IsClose(frame) /\ UNCHANGED down
             /\ session' = [session EXCEPT ![c].pc = "finishing", ![c].out.frame = frame]
          \/ /\ frame # Closed /\ ~IsClose(frame) /\ UNCHANGED down
             /\ IF Echoes(frame) THEN ToSend(c, frame, 0) ELSE UNCHANGED session
    /\ up' = [up EXCEPT ![c] = Tail(@)]
    /\ UNCHANGED <<scene, script, terminal, client, typed, server, queue, cast, sent, shown, said, number>>

\* (fault) A session that fell behind goes on with what is left.
TakeCastAny(c) == ToSend(c, Head(cast[c]).frame, Head(cast[c]).n) /\ UNCHANGED down
\* ... or a frame to broadcast; one that fell behind ends instead.
TakeCast(c) ==
    IF session[c].missed THEN EndSession(c)
    ELSE ToSend(c, Head(cast[c]).frame, Head(cast[c]).n) /\ UNCHANGED down
Relay(c) ==
    /\ session[c].pc = "serving" /\ cast[c] # << >>
    /\ TakeCast(c)
    /\ cast' = [cast EXCEPT ![c] = Tail(@)]
    /\ UNCHANGED <<scene, script, terminal, client, up, typed, server, queue, sent, shown, said, number>>

\* ws.send of the session.
SendSession(c) ==
    /\ session[c].pc = "sending"
    /\ LET out == session[c].out
       IN \/ /\ Len(down[c]) < Room
             /\ down' = [down EXCEPT ![c] = Append(@, out.frame)]
             /\ said' = IF out.n > 0 THEN [said EXCEPT ![c] = Append(@, out.n)] ELSE said
             /\ session' = [session EXCEPT ![c].pc =
                               IF IsClose(out.frame) THEN "awaiting" ELSE "serving"]
          \/ /\ Len(down[c]) >= Room \/ ~Alive(c)
             /\ EndSession(c) /\ UNCHANGED said
    /\ UNCHANGED <<scene, script, terminal, client, up, typed, server, queue, cast, sent, shown, number>>

\* Behind its own Close it waits two seconds for the client's.
Await(c) ==
    /\ session[c].pc = "awaiting"
    /\ \/ /\ up[c] # << >> /\ up' = [up EXCEPT ![c] = Tail(@)]
          /\ IF Head(up[c]) = Closed \/ IsClose(Head(up[c])) THEN EndSession(c) ELSE UNCHANGED <<session, down>>
       \/ EndSession(c) /\ UNCHANGED up
    /\ UNCHANGED <<scene, script, terminal, client, typed, server, queue, cast, sent, shown, said, number>>

\* finish_peer_close of the session.
FinishSession(c) ==
    /\ session[c].pc = "finishing"
    /\ session' = [session EXCEPT ![c].pc = "done"]
    /\ down' = [down EXCEPT ![c] =
                  IF Len(@) < Room THEN @ \o <<session[c].out.frame, Closed>> ELSE Append(@, Closed)]
    /\ UNCHANGED <<scene, script, terminal, client, up, typed, server, queue, cast, sent, shown,
                   said, number>>

-----------------------------------------------------------------------------
(* The server's main loop. *)

Subscribed(c) == session[c].pc \notin {"none", "queued", "done"}
\* A broadcast channel keeps the last Backlog frames of every receiver.
Broadcast(frame) ==
    /\ number' = number + 1
    /\ cast' = [c \in Clients |->
                  IF ~Subscribed(c) THEN cast[c]
                  ELSE LET all == Append(cast[c], [frame |-> frame, n |-> number + 1])
                       IN IF Len(all) > Backlog THEN Tail(all) ELSE all]
    /\ session' = [c \in Clients |->
                     [session[c] EXCEPT !.missed = @ \/ (Subscribed(c) /\ Len(cast[c]) >= Backlog)]]

\* A line typed at the server: broadcast, nothing, or the error is shown.
ServerInput ==
    /\ server = "running" /\ scene.interactive /\ typed # << >>
    /\ typed' = Tail(typed)
    /\ LET frame == parse(Head(typed))
       IN IF frame \in {NoFrame, "error"} THEN UNCHANGED <<cast, session, number>> ELSE Broadcast(frame)
    /\ UNCHANGED <<scene, script, terminal, client, up, down, server, queue, sent, shown, said>>

\* Ctrl-C, or the end of the input: the connections that have not been answered
\* are aborted, a Close goes out.
Shutdown ==
    /\ server = "running" /\ server' = "draining"
    /\ client' = [c \in Clients |-> IF client[c].pc = "off" THEN [client[c] EXCEPT !.pc = "failed"]
                                    ELSE client[c]]
    /\ Broadcast("close")
    /\ UNCHANGED <<scene, script, terminal, up, down, typed, queue, sent, shown, said>>

\* (fault) The queue keeps the connections no session was spawned for.
ServerStopsOnly ==
    /\ server = "draining" /\ server' = "stopped"
    /\ session' = [c \in Clients |-> IF Subscribed(c) THEN [session[c] EXCEPT !.pc = "done"] ELSE session[c]]
    /\ down' = [c \in Clients |-> IF Subscribed(c) THEN Append(down[c], Closed) ELSE down[c]]
    /\ UNCHANGED <<scene, script, terminal, client, up, typed, queue, cast, sent, shown, said, number>>
\* All sessions have ended or three seconds have passed; what is left of them,
\* and of the queue, is dropped.
ServerStops ==
    /\ server = "draining" /\ server' = "stopped"
    /\ session' = [c \in Clients |-> IF Serving(c) THEN [session[c] EXCEPT !.pc = "done"] ELSE session[c]]
    /\ down' = [c \in Clients |-> IF Serving(c) THEN Append(down[c], Closed) ELSE down[c]]
    /\ queue' = << >>
    /\ UNCHANGED <<scene, script, terminal, client, up, typed, cast, sent, shown, said, number>>

ClientStep(c) ==
    \/ Type(c) \/ Input(c) \/ Interrupt(c) \/ SessionDeadline(c) \/ Receive(c)
    \/ FinishClient(c) \/ SendClient(c)
ServerStep(c) ==
    \/ Upgraded(c) \/ Hear(c) \/ Relay(c) \/ SendSession(c) \/ Await(c) \/ FinishSession(c)
SessionNext ==
    \/ Spawn \/ ServerInput \/ Shutdown \/ ServerStops
    \/ \E c \in Clients : Upgrade(c) \/ Respond(c) \/ ClientStep(c) \/ ServerStep(c)

-----------------------------------------------------------------------------
\* run and finish_peer_close: a session ends well only if a Close went both
\* ways, whichever side began and whatever was in flight, and with a code that
\* means no failure or is the one it sent.
OkMeansBothClosed ==
    \A c \in Clients : client[c].pc = "ok" =>
        /\ shown[c] # << >> /\ sent[c] # << >>
        /\ LET theirs == shown[c][Len(shown[c])]
               ours == sent[c][Len(sent[c])]
           IN IsClose(theirs) /\ IsClose(ours) /\ theirs \in {"close", ours}

\* serve: a session that cannot keep up with what is broadcast ends, and never
\* leaves out a frame.
BroadcastNoGap ==
    \A c \in Clients : \A i \in 1..(Len(said[c]) - 1) : said[c][i + 1] = said[c][i] + 1

\* run_async: once the server shuts down it stops, and every client's session
\* ends, be it blocked in a send, waiting for a Close or still in the queue.
ShutdownEnds == server = "draining" ~> (server = "stopped" /\ \A c \in Clients : ~Alive(c))

\* run: a session that has begun to close ends.
CloseEnds == \A c \in Clients : client[c].closing # NoFrame ~> ~Alive(c)
=============================================================================
