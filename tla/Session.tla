------------------------------ MODULE Session ------------------------------
(***************************************************************************)
(* One VCMP session (session.rs): the callers inside `exchange`, the       *)
(* pending table, the two bounded outgoing queues, the writer task, the    *)
(* reader (`drive`), the handler tasks and the shutdown sequence.          *)
(*                                                                         *)
(* Every actor runs on its own thread; an action is a stretch of code      *)
(* between two points where another thread can interfere (a lock, an       *)
(* atomic, a channel operation, an await).  The peer and the transport are *)
(* the environment: frames arrive in any order, writes fail or time out at *)
(* any time.  Heartbeat timers (Heartbeat.tla) appear here as the control  *)
(* frames they write and as a `close` at any time.                         *)
(*                                                                         *)
(* A send call, an incoming MSG and a heartbeat write all end up in        *)
(* `enqueue`, so one `stage` function describes all of them.  A budget     *)
(* counter is the set of outstanding permits; the byte counters and the    *)
(* shared budget are in ResourceBudget.tla, here any reservation may be    *)
(* refused.                                                                *)
(***************************************************************************)
EXTENDS Integers, Sequences, FiniteSets, Functions

CONSTANTS
    Sends,          \* calls of `exchange`, each with its own frame id
    Arrivals,       \* MSG frames the peer sends
    Beats,          \* heartbeat frames written by the heartbeat timers
    NoFrame,        \* "no frame"
    PendingLimit,   \* limits.resources.pending_requests
    QueueLimit,     \* limits.resources.queued_messages
    ControlLimit,   \* limits.resources.control_messages
    HandlerLimit,   \* limits.resources.handler_tasks
    MaxIgnored      \* bound on the ignored frames of one behaviour

Actors == Sends \cup Arrivals \cup Beats

Controls == Arrivals \cup Beats

ASSUME LimitsAssumption ==
    /\ PendingLimit \in Nat /\ QueueLimit \in Nat /\ ControlLimit \in Nat
    /\ HandlerLimit \in Nat /\ MaxIgnored \in Nat
    /\ Sends \cap Controls = {}
    /\ Arrivals \cap Beats = {}
    /\ NoFrame \notin Actors

VARIABLES
    open,           \* Inner::open
    closeRequested, \* the stored permit of Inner::close_requested
    pending,        \* Inner::pending, the ids with a waiting caller
    slot,           \* the oneshot of each send
    result,         \* what `exchange` returns
    requestPermits, \* outstanding Request permits
    queuePermits,   \* outstanding Data (of sends) and Control (of the others) permits
    dataQ,          \* the out_tx channel
    controlQ,       \* the control_tx channel
    writer,         \* the writer task
    writing,        \* the frame whose permits AdmittedSink holds
    handed,         \* history: frames given to the transport
    reader,         \* `drive`; "closed" is the published closed = true
    stopWriter,     \* the `closed` watch was notified for the writer
    busy,           \* the MSG the reader answers itself, without a task
    handlerPermits, \* outstanding Handler permits
    stage,          \* where each actor is
    ignored         \* Inner::ignored_frames

gate   == <<open, closeRequested>>
calls  == <<pending, slot, result, requestPermits>>
queues == <<queuePermits, dataQ, controlQ>>
sink   == <<writer, writing, handed>>
tasks  == <<reader, stopWriter, busy, handlerPermits>>
vars   == <<gate, calls, queues, sink, tasks, stage, ignored>>

Stages == {"idle", "admitted", "running", "check", "reserve", "push", "wait",
           "cleanup", "done", "panicked"}

LocalFailures == {"too_large", "not_open", "overloaded"}

Results == {"none", "ack", "nak", "closed", "timeout", "dropped"} \cup LocalFailures

\* Mutation: a channel one slot smaller than the budget.
Capacity_OffByOne(limit) == limit - 1

\* A channel has room for one frame even when the limit is zero.
Capacity(limit) == IF limit = 0 THEN 1 ELSE limit

Closed == reader = "closed"

----------------------------------------------------------------------------
Init ==
    /\ open = TRUE
    /\ closeRequested = FALSE
    /\ pending = {}
    /\ slot = [s \in Sends |-> "none"]
    /\ result = [s \in Sends |-> "none"]
    /\ stage = [a \in Actors |-> "idle"]
    /\ requestPermits = {} /\ handlerPermits = {} /\ queuePermits = {}
    /\ dataQ = <<>> /\ controlQ = <<>>
    /\ writer = "idle" /\ writing = NoFrame /\ stopWriter = FALSE
    /\ reader = "run" /\ busy = NoFrame
    /\ handed = {}
    /\ ignored = 0

\* Mutation: close() does not wake the reader.
CloseEffect_NoNotify == open' = FALSE /\ UNCHANGED closeRequested

\* close(): the first call clears `open` and leaves a notification.
CloseEffect ==
    /\ open' = FALSE
    /\ closeRequested' = (closeRequested \/ open)

\* A caller, a watchdog or the application closes the session.
Close ==
    /\ open
    /\ CloseEffect
    /\ UNCHANGED <<calls, queues, sink, tasks, stage, ignored>>

----------------------------------------------------------------------------
(* exchange *)

\* The payload is too large, or no Request permit is left.
ExchangeRefused(s) ==
    /\ stage[s] = "idle"
    /\ stage' = [stage EXCEPT ![s] = "done"]
    /\ \E why \in {"too_large", "overloaded"} : result' = [result EXCEPT ![s] = why]
    /\ UNCHANGED <<gate, queues, sink, tasks, pending, slot, requestPermits, ignored>>

ExchangeReserve(s) ==
    /\ stage[s] = "idle"
    /\ Cardinality(requestPermits) < PendingLimit
    /\ requestPermits' = requestPermits \cup {s}
    /\ stage' = [stage EXCEPT ![s] = "admitted"]
    /\ UNCHANGED <<gate, queues, sink, tasks, pending, slot, result, ignored>>

\* Mutation: register without checking `open` under the lock.
ExchangeRegister_Unchecked(s) ==
    /\ stage[s] = "admitted"
    /\ pending' = pending \cup {s}
    /\ stage' = [stage EXCEPT ![s] = "check"]
    /\ UNCHANGED <<gate, queues, sink, tasks, slot, result, requestPermits, ignored>>

\* Under the pending lock: check `open`, then register.
ExchangeRegister(s) ==
    /\ stage[s] = "admitted"
    /\ IF open
         THEN /\ pending' = pending \cup {s}
              /\ stage' = [stage EXCEPT ![s] = "check"]
              /\ UNCHANGED <<result, requestPermits>>
         ELSE /\ result' = [result EXCEPT ![s] = "not_open"]
              /\ stage' = [stage EXCEPT ![s] = "done"]
              /\ requestPermits' = requestPermits \ {s}
              /\ UNCHANGED pending
    /\ UNCHANGED <<gate, queues, sink, tasks, slot, ignored>>

\* The await ends: the oneshot has a value, the request deadline passes, or
\* the caller drops the future.
ExchangeSettle(s, outcome) ==
    /\ stage[s] = "wait"
    /\ result' = [result EXCEPT ![s] = outcome]
    /\ stage' = [stage EXCEPT ![s] = "cleanup"]
    /\ UNCHANGED <<gate, queues, sink, tasks, pending, slot, requestPermits, ignored>>

ExchangeReceive(s) == slot[s] # "none" /\ ExchangeSettle(s, slot[s])

\* Mutation: the request deadline is not applied.
ExchangeTimeout_Never(s) == FALSE

ExchangeTimeout(s) == slot[s] = "none" /\ ExchangeSettle(s, "timeout")

ExchangeDropped(s) == ExchangeSettle(s, "dropped")

\* Mutation: the pending entry outlives its caller.
ExchangeCleanup_KeepsEntry(s) ==
    /\ stage[s] = "cleanup"
    /\ stage' = [stage EXCEPT ![s] = "done"]
    /\ UNCHANGED <<gate, calls, queues, sink, tasks, ignored>>

\* Drop of PendingCleanup: forget the entry, releasing its permit.
ExchangeCleanup(s) ==
    /\ stage[s] = "cleanup"
    /\ pending' = pending \ {s}
    /\ requestPermits' = requestPermits \ {s}
    /\ stage' = [stage EXCEPT ![s] = "done"]
    /\ UNCHANGED <<gate, queues, sink, tasks, slot, result, ignored>>

----------------------------------------------------------------------------
(* enqueue, as called by exchange (data) and by write (control) *)

\* `write` closes the session when a control frame cannot be queued; then the
\* task, or the reader's handle_message, returns and drops its Handler permit.
ControlReturns(a) ==
    /\ stage' = [stage EXCEPT ![a] = "done"]
    /\ handlerPermits' = handlerPermits \ {a}
    /\ busy' = IF busy = a THEN NoFrame ELSE busy

\* Mutation: a control frame that cannot be queued is dropped silently.
EnqueueFails_KeepsOpen(a, why) ==
    IF a \in Sends
      THEN /\ result' = [result EXCEPT ![a] = why]
           /\ stage' = [stage EXCEPT ![a] = "cleanup"]
           /\ UNCHANGED <<gate, handlerPermits, busy>>
      ELSE ControlReturns(a) /\ UNCHANGED <<gate, result>>

EnqueueFails(a, why) ==
    IF a \in Sends
      THEN /\ result' = [result EXCEPT ![a] = why]
           /\ stage' = [stage EXCEPT ![a] = "cleanup"]
           /\ UNCHANGED <<gate, handlerPermits, busy>>
      ELSE /\ CloseEffect
           /\ ControlReturns(a)
           /\ UNCHANGED result

\* The open check and the size check.  exchange has checked a MSG's size.
EnqueueCheck(a) ==
    /\ stage[a] = "check"
    /\ \/ /\ open
          /\ stage' = [stage EXCEPT ![a] = "reserve"]
          /\ UNCHANGED <<gate, result, handlerPermits, busy>>
       \/ /\ ~open \/ a \in Controls
          /\ EnqueueFails(a, "not_open")
    /\ UNCHANGED <<queues, sink, pending, slot, requestPermits, stopWriter, reader, ignored>>

\* Mutation: heartbeats are queued as data.
UsesDataQueue_Heartbeats(a) == a \notin Arrivals

UsesDataQueue(a) == a \in Sends

QueueRoom(a) ==
    IF UsesDataQueue(a) THEN Cardinality(queuePermits \cap Sends) < QueueLimit
                        ELSE Cardinality(queuePermits \ Sends) < ControlLimit

EnqueueReserve(a) ==
    /\ stage[a] = "reserve"
    /\ \/ /\ QueueRoom(a)
          /\ queuePermits' = queuePermits \cup {a}
          /\ stage' = [stage EXCEPT ![a] = "push"]
          /\ UNCHANGED <<gate, result, handlerPermits, busy>>
       \/ /\ EnqueueFails(a, "overloaded")
          /\ UNCHANGED queuePermits
    /\ UNCHANGED <<sink, pending, slot, requestPermits, dataQ, controlQ, stopWriter, reader, ignored>>

\* The channel accepts a frame while its receiver lives and a slot is free.
HasSlot(a) ==
    /\ writer # "done"
    /\ IF UsesDataQueue(a) THEN Len(dataQ) < Capacity(QueueLimit)
                           ELSE Len(controlQ) < Capacity(ControlLimit)

\* try_send, and the return of `enqueue` to its caller.
Queued(a) ==
    /\ IF UsesDataQueue(a)
         THEN dataQ' = Append(dataQ, a) /\ UNCHANGED controlQ
         ELSE controlQ' = Append(controlQ, a) /\ UNCHANGED dataQ
    /\ IF a \in Sends
         THEN stage' = [stage EXCEPT ![a] = "wait"] /\ UNCHANGED <<handlerPermits, busy>>
         ELSE ControlReturns(a)

\* Mutation: `open` is checked again after the frame was queued.
EnqueuePush_ChecksLate(a) ==
    /\ stage[a] = "push" /\ HasSlot(a)
    /\ IF open \/ a \notin Sends
         THEN Queued(a) /\ UNCHANGED <<gate, result>>
         ELSE /\ dataQ' = Append(dataQ, a)
              /\ EnqueueFails(a, "not_open")
              /\ UNCHANGED controlQ
    /\ UNCHANGED <<sink, pending, slot, requestPermits, queuePermits, stopWriter, reader, ignored>>

EnqueuePush(a) ==
    /\ stage[a] = "push"
    /\ IF HasSlot(a)
         THEN /\ Queued(a)
              /\ UNCHANGED <<gate, result, queuePermits>>
         ELSE /\ EnqueueFails(a, "overloaded")
              /\ queuePermits' = queuePermits \ {a}
              /\ UNCHANGED <<dataQ, controlQ>>
    /\ UNCHANGED <<sink, pending, slot, requestPermits, stopWriter, reader, ignored>>

\* send_heartbeat: the first open check, then the write.
SendHeartbeat(b) ==
    /\ stage[b] = "idle"
    /\ stage' = [stage EXCEPT ![b] = IF open THEN "check" ELSE "done"]
    /\ UNCHANGED <<gate, calls, queues, sink, tasks, ignored>>

----------------------------------------------------------------------------
(* The writer task of drive *)

\* Both selects: the shutdown notification ends the loop.
WriterStops ==
    /\ writer \in {"idle", "writing"}
    /\ stopWriter
    /\ writer' = "closing"
    /\ UNCHANGED <<gate, calls, queues, tasks, stage, writing, handed, ignored>>

\* Take the next frame, control frames first; on a session that is not open
\* the frame is dropped, with its permits, and the loop ends.
WriterTakes ==
    /\ writer = "idle"
    /\ ~stopWriter
    /\ dataQ # <<>> \/ controlQ # <<>>
    /\ LET control == controlQ # <<>>
           frame   == Head(IF control THEN controlQ ELSE dataQ)
       IN  /\ controlQ' = IF control THEN Tail(controlQ) ELSE controlQ
           /\ dataQ' = IF control THEN dataQ ELSE Tail(dataQ)
           /\ IF open
                THEN /\ writer' = "writing"
                     /\ writing' = frame
                     /\ handed' = handed \cup {frame}
                     /\ UNCHANGED queuePermits
                ELSE /\ writer' = "closing"
                     /\ queuePermits' = queuePermits \ {frame}
                     /\ UNCHANGED <<writing, handed>>
    /\ UNCHANGED <<gate, calls, tasks, stage, ignored>>

WriterSent ==
    /\ writer = "writing"
    /\ writer' = "idle"
    /\ writing' = NoFrame
    /\ queuePermits' = queuePermits \ {writing}
    /\ UNCHANGED <<gate, calls, tasks, stage, dataQ, controlQ, handed, ignored>>

\* Mutation: a failed write ends the writer and leaves the session open.
WriterFails_KeepsOpen ==
    /\ writer = "writing"
    /\ writer' = "closing"
    /\ UNCHANGED <<gate, calls, queues, tasks, stage, writing, handed, ignored>>

\* The write fails or exceeds write_timeout; the sink keeps the frame's permits.
WriterFails ==
    /\ writer = "writing"
    /\ writer' = "closing"
    /\ CloseEffect
    /\ UNCHANGED <<calls, queues, tasks, stage, writing, handed, ignored>>

\* Mutation: the permits of the frames still queued are lost.
WriterDropped_Leaks ==
    /\ writer' = "done"
    /\ queuePermits' = queuePermits \ {writing}
    /\ dataQ' = <<>> /\ controlQ' = <<>> /\ writing' = NoFrame

\* The task ends: the sink and both receivers are dropped with their permits.
WriterDropped ==
    /\ writer' = "done"
    /\ queuePermits' = queuePermits \ (Range(dataQ) \cup Range(controlQ) \cup {writing})
    /\ dataQ' = <<>>
    /\ controlQ' = <<>>
    /\ writing' = NoFrame

WriterEnds ==
    /\ writer = "closing"
    /\ WriterDropped
    /\ UNCHANGED <<gate, calls, tasks, stage, handed, ignored>>

----------------------------------------------------------------------------
(* The reader loop of drive, and the handlers it spawns *)

\* The biased select reads a frame only when no close was requested.
Reading == reader = "run" /\ busy = NoFrame /\ ~closeRequested

\* An ACK or NAK takes the pending entry, drops its permit and settles.
ReceiveReply(s, outcome) ==
    /\ Reading
    /\ s \in handed \cap pending
    /\ pending' = pending \ {s}
    /\ requestPermits' = requestPermits \ {s}
    /\ slot' = [slot EXCEPT ![s] = outcome]
    /\ UNCHANGED <<gate, queues, sink, tasks, result, stage, ignored>>

\* A late, duplicate or unknown ACK or NAK, or an unparsable frame.
ReceiveIgnored ==
    /\ Reading
    /\ ignored < MaxIgnored
    /\ ignored' = ignored + 1
    /\ UNCHANGED <<gate, calls, queues, sink, tasks, stage>>

ReceiveOversized ==
    /\ Reading
    /\ CloseEffect
    /\ UNCHANGED <<calls, queues, sink, tasks, stage, ignored>>

\* handle_message up to the spawned task, or up to the NAK the reader writes.
ReceiveMessage(m) ==
    /\ Reading
    /\ stage[m] = "idle"
    /\ \/ /\ Cardinality(handlerPermits) < HandlerLimit
          /\ handlerPermits' = handlerPermits \cup {m}
          /\ \/ stage' = [stage EXCEPT ![m] = "running"] /\ busy' = busy
             \/ stage' = [stage EXCEPT ![m] = "check"] /\ busy' = m
       \/ /\ stage' = [stage EXCEPT ![m] = "check"]
          /\ busy' = m
          /\ UNCHANGED handlerPermits
    /\ UNCHANGED <<gate, calls, queues, sink, stopWriter, reader, ignored>>

\* The handler returns, fails or exceeds handler_timeout: ACK or NAK is written.
HandlerReturns(m) ==
    /\ stage[m] = "running"
    /\ stage' = [stage EXCEPT ![m] = "check"]
    /\ UNCHANGED <<gate, calls, queues, sink, tasks, ignored>>

\* The handler panics: its task unwinds and drops the permits, and the reader's
\* join_next discards the error.  The message gets no answer.
HandlerPanics(m) ==
    /\ stage[m] = "running"
    /\ stage' = [stage EXCEPT ![m] = "panicked"]
    /\ handlerPermits' = handlerPermits \ {m}
    /\ UNCHANGED <<gate, calls, queues, sink, stopWriter, reader, busy, ignored>>

\* The reader has no task for m, nor an answer of its own to write.
Joined(m) == stage[m] \in {"idle", "done", "panicked"}

----------------------------------------------------------------------------
(* Shutdown: the tail of drive, and finish_close *)

\* The loop ends on a close request.
ReaderCloses ==
    /\ reader = "run" /\ busy = NoFrame /\ closeRequested
    /\ reader' = "join"
    /\ open' = FALSE
    /\ closeRequested' = open
    /\ UNCHANGED <<calls, queues, sink, stage, handlerPermits, stopWriter, busy, ignored>>

\* The loop ends because the stream did.
StreamEnds ==
    /\ Reading
    /\ reader' = "join"
    /\ CloseEffect
    /\ UNCHANGED <<calls, queues, sink, stage, handlerPermits, stopWriter, busy, ignored>>

\* abort_all takes effect at the handler's next await.
AbortHandler(m) ==
    /\ reader = "join"
    /\ stage[m] = "running"
    /\ stage' = [stage EXCEPT ![m] = "done"]
    /\ handlerPermits' = handlerPermits \ {m}
    /\ UNCHANGED <<gate, calls, queues, sink, stopWriter, reader, busy, ignored>>

\* Mutation: the handler tasks are not joined.
HandlersJoined_NoWait ==
    /\ reader = "join"
    /\ reader' = "await"
    /\ stopWriter' = TRUE
    /\ UNCHANGED <<gate, calls, queues, sink, stage, handlerPermits, busy, ignored>>

\* Every handler task is joined; the writer is told to stop.
HandlersJoined ==
    /\ reader = "join"
    /\ \A m \in Arrivals : Joined(m)
    /\ reader' = "await"
    /\ stopWriter' = TRUE
    /\ UNCHANGED <<gate, calls, queues, sink, stage, handlerPermits, busy, ignored>>

WriterJoined ==
    /\ reader = "await"
    /\ writer = "done"
    /\ reader' = "drain"
    /\ UNCHANGED <<gate, calls, queues, sink, stage, handlerPermits, stopWriter, busy, ignored>>

\* shutdown_timeout passes first: the writer is aborted.
ShutdownTimeout ==
    /\ reader = "await"
    /\ writer # "done"
    /\ reader' = "drain"
    /\ WriterDropped
    /\ UNCHANGED <<gate, calls, stage, handlerPermits, stopWriter, busy, handed, ignored>>

\* Mutation: finish_close publishes without draining.
DrainPending_Skipped ==
    /\ reader = "drain"
    /\ reader' = "publish"
    /\ UNCHANGED <<gate, calls, queues, sink, stage, handlerPermits, stopWriter, busy, ignored>>

\* finish_close: every pending send fails with 503 Session closed.
DrainPending ==
    /\ reader = "drain"
    /\ reader' = "publish"
    /\ open' = FALSE
    /\ pending' = {}
    /\ requestPermits' = requestPermits \ pending
    /\ slot' = [s \in Sends |-> IF s \in pending THEN "closed" ELSE slot[s]]
    /\ UNCHANGED <<queues, sink, closeRequested, result, stage, handlerPermits, stopWriter, busy, ignored>>

PublishClosed ==
    /\ reader = "publish"
    /\ reader' = "closed"
    /\ UNCHANGED <<gate, calls, queues, sink, stage, handlerPermits, stopWriter, busy, ignored>>

----------------------------------------------------------------------------
Caller(s) ==
    \/ ExchangeRegister(s) \/ ExchangeReceive(s) \/ ExchangeTimeout(s)
    \/ ExchangeCleanup(s)

Enqueue(a) == EnqueueCheck(a) \/ EnqueueReserve(a) \/ EnqueuePush(a)

Writer ==
    WriterStops \/ WriterTakes \/ WriterSent \/ WriterFails \/ WriterEnds

Shutdown ==
    ReaderCloses \/ HandlersJoined \/ WriterJoined \/ ShutdownTimeout
    \/ DrainPending \/ PublishClosed

Environment ==
    \/ Close \/ StreamEnds \/ ReceiveIgnored \/ ReceiveOversized
    \/ \E s \in Sends :
          \/ ExchangeRefused(s) \/ ExchangeReserve(s) \/ ExchangeDropped(s)
          \/ \E outcome \in {"ack", "nak"} : ReceiveReply(s, outcome)
    \/ \E m \in Arrivals : ReceiveMessage(m)
    \/ \E b \in Beats : SendHeartbeat(b)

Next ==
    \/ \E s \in Sends : Caller(s)
    \/ \E a \in Actors : Enqueue(a)
    \/ \E m \in Arrivals : HandlerReturns(m) \/ HandlerPanics(m) \/ AbortHandler(m)
    \/ Writer
    \/ Shutdown
    \/ Environment

\* Started tasks keep being scheduled and armed timers fire; nothing obliges
\* the peer, the application or the transport to do anything.
Fairness ==
    /\ \A s \in Sends : WF_vars(Caller(s))
    /\ \A a \in Actors : WF_vars(Enqueue(a))
    /\ \A m \in Arrivals : WF_vars(HandlerReturns(m) \/ HandlerPanics(m) \/ AbortHandler(m))
    /\ WF_vars(Writer)
    /\ WF_vars(Shutdown)

Spec == Init /\ [][Next]_vars

FairSpec == Spec /\ Fairness
----------------------------------------------------------------------------
(* Properties *)

\* The type of the state; in particular data frames never travel in the
\* control channel or the other way round (the choice of `tx` in enqueue).
TypeOK ==
    /\ open \in BOOLEAN /\ closeRequested \in BOOLEAN /\ stopWriter \in BOOLEAN
    /\ pending \subseteq Sends
    /\ slot \in [Sends -> {"none", "ack", "nak", "closed"}]
    /\ result \in [Sends -> Results]
    /\ stage \in [Actors -> Stages]
    /\ requestPermits \subseteq Sends
    /\ handlerPermits \subseteq Arrivals
    /\ queuePermits \subseteq Actors
    /\ dataQ \in Seq(Sends)
    /\ controlQ \in Seq(Controls)
    /\ writer \in {"idle", "writing", "closing", "done"}
    /\ writing \in Actors \cup {NoFrame}
    /\ handed \subseteq Actors
    /\ reader \in {"run", "join", "await", "drain", "publish", "closed"}
    /\ busy \in Arrivals \cup {NoFrame}
    /\ ignored \in 0..MaxIgnored

\* A call that awaits its acknowledgement can always be reached: it is in the
\* pending table or its answer is in the oneshot.  Once finish_close has
\* drained the table nothing enters it again, whatever order `close`, the
\* registration under the pending lock and the drain run in.
NoStrandedSend ==
    /\ \A s \in Sends : stage[s] = "wait" => s \in pending \/ slot[s] # "none"
    /\ reader \in {"publish", "closed"} => pending = {}

\* A call that has returned, whatever the reason, has left neither a pending
\* entry nor a Request permit behind (PendingCleanup, and the early returns).
ReturnedCallLeavesNothing ==
    \A s \in Sends : stage[s] = "done" => s \notin pending \cup requestPermits

\* Every outstanding permit has exactly one live owner: the entry or call it
\* admitted, the queued or in-flight frame, the running handler.  Nothing is
\* released early and nothing leaks, on any of the failure paths.
PermitsMatchOwners ==
    /\ requestPermits = pending \cup {s \in Sends : stage[s] = "admitted"}
    /\ queuePermits = Range(dataQ) \cup Range(controlQ) \cup ({writing} \ {NoFrame})
                         \cup {a \in Actors : stage[a] = "push"}
    /\ {m \in Arrivals : stage[m] = "running"} \subseteq handlerPermits
    /\ handlerPermits \subseteq {m \in Arrivals : stage[m] \in {"running", "check", "reserve", "push"}}

\* A frame that was admitted by the budget finds a free channel slot while the
\* writer lives: `try_send` never reports an overload the budget did not.
AdmittedHasSlot ==
    \A a \in Actors : stage[a] = "push" /\ writer # "done" => HasSlot(a)

\* While the session is open no mandatory control frame is missing: the reply
\* to every message whose handler returned or that needed none, and every
\* heartbeat that was sent, is queued or was given to the transport (`write`
\* closes the session otherwise).  A handler that panics owes no reply.
NoReplyLost ==
    open => \A a \in Controls : stage[a] = "done" => a \in Range(controlQ) \cup handed

\* A call that failed locally (413, 503 not open, 503 overloaded) was never
\* given to the transport and never will be: only these may be retried blindly.
LocalFailureNeverSent ==
    \A s \in Sends : result[s] \in LocalFailures => s \notin Range(dataQ) \cup handed

\* When `closed` is published no handler runs, the writer is gone, both queues
\* are empty and the only permits left belong to calls still on their way out.
QuiescentWhenClosed ==
    Closed =>
        /\ writer = "done" /\ ~open
        /\ \A m \in Arrivals : Joined(m)
        /\ handlerPermits = {}
        /\ queuePermits \subseteq {a \in Actors : stage[a] = "push"}

\* A session that was closed, from whatever side, completes its shutdown.
CloseCompletes == ~open ~> Closed

\* Every admitted call returns: acknowledged, refused, timed out or closed.
SendSettles == \A s \in Sends : stage[s] = "admitted" ~> stage[s] = "done"

\* Every message the reader accepted is answered through the transport, or the
\* session closes, so the peer is never left without either; unless its handler
\* panics, in which case the peer gets no answer and the session stays open.
MessageAnswered ==
    \A m \in Arrivals : stage[m] # "idle" ~> (m \in handed \/ Closed \/ stage[m] = "panicked")

----------------------------------------------------------------------------
(* Session implements SessionApi *)

OutcomeClass(r) ==
    CASE r \in {"ack", "nak"} -> "peer"
      [] r \in LocalFailures \cup {"closed"} -> "unavailable"
      [] OTHER -> r

ApiPhase ==
    CASE reader = "closed" -> "closed"
      [] reader = "publish" -> "drained"
      [] reader \notin {"publish", "closed"} /\ open -> "open"
      [] OTHER -> "closing"

ApiOutcome ==
    [s \in Sends |->
        IF result[s] # "none" THEN OutcomeClass(result[s])
        ELSE IF slot[s] # "none" THEN OutcomeClass(slot[s])
        ELSE IF s \in pending THEN "waiting" ELSE "none"]

Api == INSTANCE SessionApi WITH Calls <- Sends, phase <- ApiPhase, outcome <- ApiOutcome

\* The session keeps the promises of SessionApi.
ImplementsApi == Api!Spec
=============================================================================
