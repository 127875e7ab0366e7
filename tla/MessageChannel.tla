--------------------------- MODULE MessageChannel ---------------------------
(***************************************************************************)
(* What a WebSocket promises about messages, whatever is done to them on   *)
(* the way: each one handed to the application is one that was sent, whole *)
(* and with its type, in the order of sending and at most once.  A message *)
(* may be refused instead of delivered.                                    *)
(***************************************************************************)
EXTENDS Integers, Sequences

CONSTANT Messages

VARIABLES offered,    \* messages handed to the sink, in order
          delivered   \* what the stream returned: which message, and its value

Init == offered = << >> /\ delivered = << >>

Offer(m) ==
    /\ offered' = Append(offered, m)
    /\ UNCHANGED delivered

Last == IF delivered = << >> THEN 0 ELSE delivered[Len(delivered)].at

Deliver(i) ==
    /\ Last < i
    /\ delivered' = Append(delivered, [at |-> i, msg |-> offered[i]])
    /\ UNCHANGED offered

Next == (\E m \in Messages : Offer(m)) \/ (\E i \in 1..Len(offered) : Deliver(i))

Spec == Init /\ [][Next]_<<offered, delivered>>
=============================================================================
