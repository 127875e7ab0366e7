------------------------------ MODULE WakeProxy ------------------------------
(***************************************************************************)
(* The waker that Streaming hands to its transport.  The reader and the    *)
(* writer of one connection may be two tasks, while a transport keeps one  *)
(* waker per direction: WakeProxy is that waker, and forwards a wake to    *)
(* whoever is registered.                                                  *)
(*                                                                         *)
(* Polls of the two kinds exclude each other (one owner, or the lock of a  *)
(* split stream), but wake_by_ref runs on the transport's thread, between  *)
(* any two steps of a poll, and once per direction at the same time.       *)
(***************************************************************************)
EXTENDS Integers

CONSTANTS SameTask   \* one task drives both kinds, or each has its own

ASSUME WakeAssumption == SameTask \in BOOLEAN

Kinds == {"Read", "Write"}
Dirs == {"in", "out"}
TaskOf(k) == IF SameTask THEN "Read" ELSE k
None == "None"

VARIABLES
    ready,       \* transport: the direction can make progress
    registered,  \* transport: the proxy is to be woken for the direction
    waker,       \* WakeProxy.read_waker and write_waker
    waking,      \* progress of wake_by_ref, per direction that calls it
    taken,       \* wakers that call has taken
    poll,        \* the poll in progress: kind, direction, stage
    waiting,     \* directions the last poll of a kind was left pending on
    woken        \* the executor is to poll this kind again

vars == <<ready, registered, waker, waking, taken, poll, waiting, woken>>

NoPoll == [kind |-> None, dir |-> None, stage |-> None]
Polling(k, d, stage) == [kind |-> k, dir |-> d, stage |-> stage]

Init ==
    /\ ready = [d \in Dirs |-> FALSE]
    /\ registered = [d \in Dirs |-> FALSE]
    /\ waker = [k \in Kinds |-> None]
    /\ waking = [d \in Dirs |-> None]
    /\ taken = [d \in Dirs |-> {}]
    /\ poll = NoPoll
    /\ waiting = [k \in Kinds |-> {}]
    /\ woken = [k \in Kinds |-> TRUE]

-----------------------------------------------------------------------------
(* A poll: Streaming::poll_next_frame, poll_ready, poll_flush, poll_close. *)

\* A task polls.  A read registers "first" and then polls the input, or, while
\* decoded bytes are left, polls at once ("try", poll_with_context); a closed
\* reader only flushes its obligations.  A write always registers first.
Begin(k) ==
    /\ poll = NoPoll
    /\ \E d \in Dirs, stage \in {"first", "try"} :
          /\ k = "Write" => d = "out" /\ stage = "first"
          /\ poll' = Polling(k, d, stage)
    /\ waiting' = [waiting EXCEPT ![k] = {}]
    /\ woken' = [woken EXCEPT ![k] = FALSE]
    /\ UNCHANGED <<ready, registered, waker, waking, taken>>

\* The executor polls a kind because it was woken.
Run(k) == woken[k] /\ Begin(k)

\* The transport operation of a poll is ready, and may be ready once more.
UseReady ==
    /\ ready[poll.dir]
    /\ \E left \in BOOLEAN : ready' = [ready EXCEPT ![poll.dir] = left]
    /\ UNCHANGED <<registered, waker, waking, taken, waiting, woken>>

\* poll_with_context's first poll.  A write whose obligations are flushed goes
\* on to its own operation, under the waker it registered first.
TryReady ==
    /\ poll.stage = "try" /\ UseReady
    /\ poll' = IF poll.kind = "Write" THEN [poll EXCEPT !.stage = "own"] ELSE NoPoll
TryPending ==
    /\ poll.stage = "try" /\ ~ready[poll.dir]
    /\ registered' = [registered EXCEPT ![poll.dir] = TRUE]
    /\ poll' = [poll EXCEPT !.stage = "set"]
    /\ UNCHANGED <<ready, waker, waking, taken, waiting, woken>>

\* (fault) The caller's waker is installed and readiness is not checked again.
SetWakerNoRecheck ==
    /\ poll.stage \in {"first", "set"}
    /\ waker' = [waker EXCEPT ![poll.kind] = TaskOf(poll.kind)]
    /\ IF poll.stage = "set"
       THEN poll' = NoPoll /\ waiting' = [waiting EXCEPT ![poll.kind] = @ \cup {poll.dir}]
       ELSE poll' = [poll EXCEPT !.stage = "own"] /\ UNCHANGED waiting
    /\ UNCHANGED <<ready, registered, waking, taken, woken>>

\* WakeProxy::set_waker, ahead of the operation ("own"), of the flush of the
\* obligations ("try"), or between the two polls of poll_with_context.
SetWaker ==
    /\ poll.stage \in {"first", "set"}
    /\ waker' = [waker EXCEPT ![poll.kind] = TaskOf(poll.kind)]
    /\ \/ poll.stage = "set" /\ poll' = [poll EXCEPT !.stage = "poll"]
       \/ poll.stage = "first" /\ (poll.dir = "in" \/ poll.kind = "Write")
          /\ poll' = [poll EXCEPT !.stage = "own"]
       \/ poll.stage = "first" /\ poll.dir = "out" /\ poll' = [poll EXCEPT !.stage = "try"]
    /\ UNCHANGED <<ready, registered, waking, taken, waiting, woken>>

\* A poll after registration is ready.  If it was the second poll for a
\* write's obligations, the write's own operation is next.
PollReady ==
    /\ poll.stage \in {"poll", "own"} /\ UseReady
    /\ poll' = IF poll.stage = "poll" /\ poll.kind = "Write"
               THEN [poll EXCEPT !.stage = "own"] ELSE NoPoll

\* ... or pending.  A read that is pending goes on to flush its obligations.
PollPending ==
    /\ poll.stage \in {"poll", "own"} /\ ~ready[poll.dir]
    /\ registered' = [registered EXCEPT ![poll.dir] = TRUE]
    /\ waiting' = [waiting EXCEPT ![poll.kind] = @ \cup {poll.dir}]
    /\ \/ poll' = NoPoll
       \/ poll.dir = "in" /\ poll' = Polling(poll.kind, "out", "try")
    /\ UNCHANGED <<ready, waker, waking, taken, woken>>

PollStep == TryReady \/ TryPending \/ SetWaker \/ PollReady \/ PollPending

-----------------------------------------------------------------------------
(* The transport and WakeProxy::wake_by_ref. *)

\* A direction becomes ready, and the transport wakes the waker it holds.
Event(d) ==
    /\ ~ready[d]
    /\ registered[d] => waking[d] = None
    /\ ready' = [ready EXCEPT ![d] = TRUE]
    /\ registered' = [registered EXCEPT ![d] = FALSE]
    /\ waking' = [waking EXCEPT ![d] = IF registered[d] THEN "take_read" ELSE @]
    /\ UNCHANGED <<waker, taken, poll, waiting, woken>>

\* read_waker.take(), then write_waker.take().
TakeWaker(d, k, next) ==
    /\ waking' = [waking EXCEPT ![d] = next]
    /\ taken' = [taken EXCEPT ![d] = @ \cup ({waker[k]} \ {None})]
    /\ waker' = [waker EXCEPT ![k] = None]
    /\ UNCHANGED <<ready, registered, poll, waiting, woken>>
TakeRead(d) == waking[d] = "take_read" /\ TakeWaker(d, "Read", "take_write")
TakeWrite(d) == waking[d] = "take_write" /\ TakeWaker(d, "Write", "wake")

\* (fault) The wake waits for the poll in progress.
WakeBehindPoll(d) ==
    /\ waking[d] = "wake" /\ poll = NoPoll
    /\ woken' = [k \in Kinds |-> woken[k] \/ TaskOf(k) \in taken[d]]
    /\ taken' = [taken EXCEPT ![d] = {}]
    /\ waking' = [waking EXCEPT ![d] = None]
    /\ UNCHANGED <<ready, registered, waker, poll, waiting>>

\* Each distinct task that was registered is woken, and polls all it waits for.
Wake(d) ==
    /\ waking[d] = "wake"
    /\ woken' = [k \in Kinds |-> woken[k] \/ TaskOf(k) \in taken[d]]
    /\ taken' = [taken EXCEPT ![d] = {}]
    /\ waking' = [waking EXCEPT ![d] = None]
    /\ UNCHANGED <<ready, registered, waker, poll, waiting>>

wake_by_ref(d) == TakeRead(d) \/ TakeWrite(d) \/ Wake(d)

Next ==
    \/ \E k \in Kinds : Begin(k)
    \/ PollStep
    \/ \E d \in Dirs : Event(d) \/ wake_by_ref(d)

Spec == Init /\ [][Next]_vars

\* A poll and a wake run to their end; a woken task gets to poll, though the
\* other one may hold the connection now and then.
LiveSpec ==
    /\ Spec
    /\ WF_vars(PollStep)
    /\ \A d \in Dirs : WF_vars(wake_by_ref(d))
    /\ \A k \in Kinds : SF_vars(Run(k))

-----------------------------------------------------------------------------
(* Properties. *)

\* Every variable keeps its type; only the reader waits for input.
TypeOK ==
    /\ ready \in [Dirs -> BOOLEAN] /\ registered \in [Dirs -> BOOLEAN]
    /\ waker \in [Kinds -> Kinds \cup {None}]
    /\ waking \in [Dirs -> {None, "take_read", "take_write", "wake"}]
    /\ taken \in [Dirs -> SUBSET Kinds]
    /\ poll \in {NoPoll} \cup [kind : Kinds, dir : Dirs, stage : {"first", "try", "set", "poll", "own"}]
    /\ waiting \in [Kinds -> SUBSET Dirs]
    /\ woken \in [Kinds -> BOOLEAN]

\* A wake in progress holds the waker of k's task.
Held(k) == \E d \in Dirs : TaskOf(k) \in taken[d]
\* The wake that d caused has still to take k's waker.
ToTake(k, d) == waking[d] \in (IF k = "Read" THEN {"take_read"} ELSE {"take_read", "take_write"})

\* poll_with_context: "readiness cannot be lost between the first poll and
\* installing the caller's waker".  When a kind is parked on a direction that
\* is ready, its task has been woken, or a wake_by_ref that is running holds
\* its waker or is about to take it.
NoLostWakeup ==
    \A k \in Kinds : \A d \in waiting[k] :
        ready[d] =>
            woken[k] \/ Held(k) \/ (waker[k] # None /\ ToTake(k, d))

\* The poll in progress is k's and has installed its waker.
UnderWaker(k) ==
    /\ poll.kind = k
    /\ poll.stage \in {"poll", "own"} \/ (k = "Write" /\ poll.stage # "first")

\* The same, made inductive: a kind that waits, or polls under its own waker,
\* has that waker installed or on its way; each direction it waits for has the
\* proxy registered, or a wake that will still reach it.
WakeInv ==
    /\ \A d \in Dirs : registered[d] => ~ready[d]
    /\ \A k \in Kinds : waker[k] \in {None, TaskOf(k)}
    /\ \A k \in Kinds :
          waiting[k] # {} \/ UnderWaker(k) => woken[k] \/ Held(k) \/ waker[k] # None
    /\ \A k \in Kinds : \A d \in waiting[k] :
          woken[k] \/ Held(k) \/ registered[d] \/ ToTake(k, d)

\* wake_by_ref: a kind parked on a direction that is ready is polled again.
WokenEventually ==
    \A k \in Kinds : \A d \in Dirs :
        (d \in waiting[k] /\ ready[d]) ~> (d \notin waiting[k])
=============================================================================
