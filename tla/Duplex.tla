------------------------------- MODULE Duplex -------------------------------
(***************************************************************************)
(* Two sessions (session.rs) joined by a transport: what a send means to   *)
(* the application at the other end, in which order frames arrive, and     *)
(* that two ends that send to each other never wait on each other for      *)
(* good.  The steps inside enqueue, exchange and the shutdown of one end   *)
(* are Session.tla's; here each is one step.  The two polls of the         *)
(* writer's biased select are kept apart: a frame may enter the control    *)
(* queue between them.                                                     *)
(***************************************************************************)
EXTENDS Naturals, Sequences, SequencesExt

CONSTANTS
    A, B,           \* the two ends
    Calls,          \* calls of exchange, by the end that makes them
    DataLimit,      \* room of an end's application queue
    ControlLimit,   \* room of its control queue
    WireLimit,      \* frames the transport holds before a write blocks
    Failures        \* may sessions close, calls time out, messages fail and handlers panic?

Ends == {A, B}

ASSUME DuplexAssumption ==
    /\ A # B
    /\ Calls \subseteq Ends \X Nat
    /\ DataLimit \in Nat \ {0} /\ ControlLimit \in Nat \ {0} /\ WireLimit \in Nat \ {0}
    /\ Failures \in BOOLEAN

Other(e) == IF e = A THEN B ELSE A
Caller(c) == c[1]
Callee(c) == Other(c[1])

Frames == [kind : {"MSG", "ACK", "NAK"}, call : Calls]

VARIABLES
    open,       \* is the end's session open?
    dataQ,      \* out_tx: messages waiting to be written
    controlQ,   \* control_tx: answers waiting to be written
    writer,     \* which queue the writer polls next, or "writing"
    writing,    \* the frame being written, as a sequence of at most one
    wire,       \* the frames an end has written and the other has not read
    received,   \* frames_received
    call,       \* what the caller knows: "idle", "waiting" or the result
    handler,    \* what became of the message at the callee
    arrival,    \* of the message at the callee (0: not arrived)
    acked,      \* arrival of the ACK at the caller (0: not acknowledged)
    sent,       \* history: the messages each end has queued, in order
    before      \* history: what the callee had queued when it queued the ACK

queues == <<dataQ, controlQ>>
output == <<writer, writing>>
arrivals == <<received, arrival, acked>>
history == <<sent, before>>
vars == <<open, queues, output, wire, call, handler, arrivals, history>>

Init ==
    /\ open = [e \in Ends |-> TRUE]
    /\ dataQ = [e \in Ends |-> <<>>]
    /\ controlQ = [e \in Ends |-> <<>>]
    /\ writer = [e \in Ends |-> "control"]
    /\ writing = [e \in Ends |-> <<>>]
    /\ wire = [e \in Ends |-> <<>>]
    /\ received = [e \in Ends |-> 0]
    /\ call = [c \in Calls |-> "idle"]
    /\ handler = [c \in Calls |-> "none"]
    /\ arrival = [c \in Calls |-> 0]
    /\ acked = [c \in Calls |-> 0]
    /\ sent = [e \in Ends |-> <<>>]
    /\ before = [c \in Calls |-> {}]

----------------------------------------------------------------------------
\* A session closes: its queues and the frame being written are dropped, its
\* pending calls fail, its handlers are aborted.  What it has written may
\* still arrive.
CloseEnd(e) ==
    /\ open' = [open EXCEPT ![e] = FALSE]
    /\ dataQ' = [dataQ EXCEPT ![e] = <<>>]
    /\ controlQ' = [controlQ EXCEPT ![e] = <<>>]
    /\ writing' = [writing EXCEPT ![e] = <<>>]
    /\ writer' = [writer EXCEPT ![e] = "ended"]
    /\ call' = [c \in Calls |-> IF Caller(c) = e /\ call[c] = "waiting" THEN "failed" ELSE call[c]]
    /\ handler' = [c \in Calls |-> IF Callee(c) = e /\ handler[c] = "running" THEN "aborted" ELSE handler[c]]

\* Session::close, the peer hanging up, a failed or overdue write, the watchdog.
Close(e) ==
    /\ Failures /\ open[e]
    /\ CloseEnd(e)
    /\ UNCHANGED <<wire, arrivals, history>>

\* The stream ends once everything the closed end has written is read.
StreamEnds(e) ==
    /\ open[e] /\ ~open[Other(e)] /\ wire[Other(e)] = <<>>
    /\ CloseEnd(e)
    /\ UNCHANGED <<wire, arrivals, history>>

\* exchange: registered and queued, or refused at once.
Send(c) ==
    LET e == Caller(c) IN
    /\ call[c] = "idle"
    /\ IF open[e] /\ Len(dataQ[e]) < DataLimit
         THEN /\ call' = [call EXCEPT ![c] = "waiting"]
              /\ dataQ' = [dataQ EXCEPT ![e] = Append(@, c)]
              /\ sent' = [sent EXCEPT ![e] = Append(@, c)]
         ELSE call' = [call EXCEPT ![c] = "failed"] /\ UNCHANGED <<dataQ, sent>>
    /\ UNCHANGED <<open, controlQ, output, wire, handler, arrivals, before>>

\* request_timeout, or the call is dropped.
CallEnds(c) ==
    /\ Failures /\ call[c] = "waiting"
    /\ call' = [call EXCEPT ![c] = "failed"]
    /\ UNCHANGED <<open, queues, output, wire, handler, arrivals, history>>

\* write: the answer is queued, or the session closes because it cannot be.
Answer(c, kind, outcome) ==
    LET e == Callee(c) IN
    IF Len(controlQ[e]) < ControlLimit
      THEN /\ controlQ' = [controlQ EXCEPT ![e] = Append(@, [kind |-> kind, call |-> c])]
           /\ handler' = [handler EXCEPT ![c] = outcome]
           /\ before' = [before EXCEPT ![c] = ToSet(sent[e])]
           /\ UNCHANGED <<open, dataQ, output, call>>
      ELSE CloseEnd(e) /\ UNCHANGED before

\* The handler returns its result or an error, or handler_timeout passes.
HandlerReturns(c) ==
    /\ handler[c] = "running"
    /\ \/ Answer(c, "ACK", "ok")
       \/ Failures /\ Answer(c, "NAK", "error")
    /\ UNCHANGED <<wire, arrivals, sent>>

\* The handler panics, which nobody looks at: there is no answer.
HandlerPanics(c) ==
    /\ Failures /\ handler[c] = "running"
    /\ handler' = [handler EXCEPT ![c] = "panicked"]
    /\ UNCHANGED <<open, queues, output, wire, call, arrivals, history>>

----------------------------------------------------------------------------
(* The writer *)

\* control_rx is polled first, and found empty.
ControlEmpty(e) ==
    /\ writer[e] = "control" /\ controlQ[e] = <<>>
    /\ writer' = [writer EXCEPT ![e] = "data"]
    /\ UNCHANGED <<open, queues, writing, wire, call, handler, arrivals, history>>

TakeControl(e) ==
    /\ writer[e] = "control" /\ controlQ[e] # <<>>
    /\ writing' = [writing EXCEPT ![e] = <<Head(controlQ[e])>>]
    /\ controlQ' = [controlQ EXCEPT ![e] = Tail(@)]
    /\ writer' = [writer EXCEPT ![e] = "writing"]
    /\ UNCHANGED <<open, dataQ, wire, call, handler, arrivals, history>>

\* Nothing to write: the select waits and polls again when woken.
DataEmpty(e) ==
    /\ writer[e] = "data" /\ dataQ[e] = <<>>
    /\ writer' = [writer EXCEPT ![e] = "control"]
    /\ UNCHANGED <<open, queues, writing, wire, call, handler, arrivals, history>>

\* Mutation: the latest message goes first.
TakeData_Latest(e) ==
    /\ writer[e] = "data" /\ dataQ[e] # <<>>
    /\ writing' = [writing EXCEPT ![e] = <<[kind |-> "MSG", call |-> Last(dataQ[e])]>>]
    /\ dataQ' = [dataQ EXCEPT ![e] = Front(@)]
    /\ writer' = [writer EXCEPT ![e] = "writing"]
    /\ UNCHANGED <<open, controlQ, wire, call, handler, arrivals, history>>

TakeData(e) ==
    /\ writer[e] = "data" /\ dataQ[e] # <<>>
    /\ writing' = [writing EXCEPT ![e] = <<[kind |-> "MSG", call |-> Head(dataQ[e])]>>]
    /\ dataQ' = [dataQ EXCEPT ![e] = Tail(@)]
    /\ writer' = [writer EXCEPT ![e] = "writing"]
    /\ UNCHANGED <<open, controlQ, wire, call, handler, arrivals, history>>

\* The write completes once the transport has room.
Written(e) ==
    /\ writer[e] = "writing" /\ Len(wire[e]) < WireLimit
    /\ wire' = [wire EXCEPT ![e] = Append(@, writing[e][1])]
    /\ writing' = [writing EXCEPT ![e] = <<>>]
    /\ writer' = [writer EXCEPT ![e] = "control"]
    /\ UNCHANGED <<open, queues, call, handler, arrivals, history>>

----------------------------------------------------------------------------
(* The reader: it never waits for a handler or for the writer *)

\* The next frame is taken off the wire; every frame counts as an arrival.
Arrives(e, frame) ==
    /\ open[e] /\ wire[Other(e)] # <<>>
    /\ frame = Head(wire[Other(e)])
    /\ wire' = [wire EXCEPT ![Other(e)] = Tail(@)]
    /\ received' = [received EXCEPT ![e] = @ + 1]

\* Mutation: the read loop waits while the writer is blocked.
ReceiveMessage_WhenWritable(e, frame) ==
    /\ Arrives(e, frame) /\ frame.kind = "MSG" /\ writer[e] # "writing"
    /\ arrival' = [arrival EXCEPT ![frame.call] = received[e] + 1]
    /\ handler' = [handler EXCEPT ![frame.call] = "running"]
    /\ UNCHANGED <<open, queues, output, call, acked, history>>

\* handle_message: a handler starts, or a NAK is queued (Handler budget
\* exhausted, invalid message, no handler).
ReceiveMessage(e, frame) ==
    /\ Arrives(e, frame) /\ frame.kind = "MSG"
    /\ arrival' = [arrival EXCEPT ![frame.call] = received[e] + 1]
    /\ \/ /\ handler' = [handler EXCEPT ![frame.call] = "running"]
          /\ UNCHANGED <<open, queues, output, call, before>>
       \/ Failures /\ Answer(frame.call, "NAK", "refused")
    /\ UNCHANGED <<acked, sent>>

\* Mutation: an answer settles the oldest call that waits.
ReceiveAnswer_InOrder(e, frame) ==
    /\ Arrives(e, frame) /\ frame.kind # "MSG"
    /\ LET waiting == SelectSeq(sent[e], LAMBDA c : call[c] = "waiting")
       IN  IF waiting # <<>>
             THEN /\ call' = [call EXCEPT ![Head(waiting)] = IF frame.kind = "ACK" THEN "ok" ELSE "nak"]
                  /\ acked' = [acked EXCEPT ![Head(waiting)] = IF frame.kind = "ACK" THEN received[e] + 1 ELSE @]
             ELSE UNCHANGED <<call, acked>>
    /\ UNCHANGED <<open, queues, output, handler, arrival, history>>

\* handle_ack and handle_nak; a late answer is ignored.
ReceiveAnswer(e, frame) ==
    LET c == frame.call IN
    /\ Arrives(e, frame) /\ frame.kind # "MSG"
    /\ IF call[c] = "waiting"
         THEN /\ call' = [call EXCEPT ![c] = IF frame.kind = "ACK" THEN "ok" ELSE "nak"]
              /\ acked' = [acked EXCEPT ![c] = IF frame.kind = "ACK" THEN received[e] + 1 ELSE @]
         ELSE UNCHANGED <<call, acked>>
    /\ UNCHANGED <<open, queues, output, handler, arrival, history>>

----------------------------------------------------------------------------
Write(e) == ControlEmpty(e) \/ TakeControl(e) \/ DataEmpty(e) \/ TakeData(e) \/ Written(e)

Read(e) ==
    \/ StreamEnds(e)
    \/ \E frame \in ToSet(wire[Other(e)]) : ReceiveMessage(e, frame) \/ ReceiveAnswer(e, frame)

Next ==
    \/ \E e \in Ends : Close(e) \/ Write(e) \/ Read(e)
    \/ \E c \in Calls : Send(c) \/ CallEnds(c) \/ HandlerReturns(c) \/ HandlerPanics(c)

\* The tasks of both ends run and handlers return.  Nothing is asked of the
\* request and write timeouts, nor of a close.
Fairness ==
    /\ \A e \in Ends : WF_vars(Write(e)) /\ WF_vars(Read(e))
    /\ \A c \in Calls : WF_vars(HandlerReturns(c))

Spec == Init /\ [][Next]_vars

FairSpec == Spec /\ Fairness

----------------------------------------------------------------------------
(* Properties *)

\* A send that returns an ACK was handled at the other end, and one that
\* returns the peer's error was not: answers find their own call although
\* handlers finish in any order.
AckMeansHandled ==
    \A c \in Calls :
        /\ call[c] = "ok"  => handler[c] = "ok"
        /\ call[c] = "nak" => handler[c] \in {"error", "refused"}

\* Messages of one end arrive in the order they were queued.
MessagesInOrder ==
    \A e \in Ends : \A i, j \in 1..Len(sent[e]) :
        i < j /\ arrival[sent[e][j]] # 0 =>
            arrival[sent[e][i]] # 0 /\ arrival[sent[e][i]] < arrival[sent[e][j]]

\* The README on arrivals: a message that arrives after the ACK was sent after
\* it.
ArrivalTellsSentOrder ==
    \A c, m \in Calls :
        acked[c] # 0 /\ Caller(m) = Callee(c) /\ arrival[m] > acked[c] => m \notin before[c]

\* Both ends may send while neither direction of the transport has room: each
\* still reads, so that no call is left waiting, without any timeout.
Waiting == {c \in Calls : call[c] = "waiting"}

AnsweredWithoutTimeouts == Waiting # {} ~> Waiting = {}
=============================================================================
