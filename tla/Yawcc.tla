------------------------------- MODULE Yawcc --------------------------------
(***************************************************************************)
(* The command line tool (yawcc/src/main.rs, client.rs): a client connects *)
(* as in Redirects, and where the server it reaches is the tool's own, the *)
(* sessions of both follow as in Session.                                  *)
(***************************************************************************)
EXTENDS Redirects, Session

\* client::run has parsed what --execute gave before it connects.
YawccInit ==
    /\ RedirectsInit /\ SessionInit
    /\ setup.serves <=> scene.served

YawccNext ==
    \/ RedirectsStep /\ UNCHANGED yvars
    \/ at = "open" /\ setup.serves /\ SessionNext /\ UNCHANGED rvars

yawcc == <<rvars, yvars>>
\* The timers fire, and the runtime polls every task that can go on.
Fair(c) ==
    /\ WF_yawcc(SessionDeadline(c) /\ UNCHANGED rvars)
    /\ WF_yawcc((Receive(c) \/ FinishClient(c) \/ SendClient(c)) /\ UNCHANGED rvars)
    /\ WF_yawcc(ServerStep(c) /\ UNCHANGED rvars)
YawccSpec ==
    /\ YawccInit /\ [][YawccNext]_yawcc
    /\ WF_yawcc(NewConfig /\ UNCHANGED yvars) /\ WF_yawcc(Deadline /\ UNCHANGED yvars)
    /\ WF_yawcc(ServerStops /\ UNCHANGED rvars)
    /\ \A c \in Clients : Fair(c)

-----------------------------------------------------------------------------
=============================================================================
