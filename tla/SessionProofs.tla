--------------------------- MODULE SessionProofs ---------------------------
(***************************************************************************)
(* Proofs about Session: type correctness; the fate of the pending calls   *)
(* from the invariant CallInv; the frames: who owns a permit, that an      *)
(* admitted frame has its slot, what a call that failed locally or a       *)
(* message that was answered has left in the queues, what a closed session *)
(* has left at all; and that Session implements SessionApi.                *)
(***************************************************************************)
EXTENDS Session, FiniteSetTheorems, TLAPS

\* The steps of a session, one action each.
LEMMA StepCases ==
  ASSUME [Next]_vars
  PROVE  \/ \E s \in Sends :
              \/ ExchangeRegister(s) \/ ExchangeReceive(s) \/ ExchangeTimeout(s) \/ ExchangeCleanup(s)
              \/ ExchangeRefused(s) \/ ExchangeReserve(s) \/ ExchangeDropped(s)
              \/ \E outcome \in {"ack", "nak"} : ReceiveReply(s, outcome)
         \/ \E a \in Actors : EnqueueCheck(a) \/ EnqueueReserve(a) \/ EnqueuePush(a)
         \/ \E m \in Arrivals : HandlerReturns(m) \/ HandlerPanics(m) \/ AbortHandler(m) \/ ReceiveMessage(m)
         \/ \E b \in Beats : SendHeartbeat(b)
         \/ WriterStops \/ WriterTakes \/ WriterSent \/ WriterFails \/ WriterEnds
         \/ ReaderCloses \/ HandlersJoined \/ WriterJoined \/ ShutdownTimeout
         \/ DrainPending \/ PublishClosed
         \/ Close \/ StreamEnds \/ ReceiveIgnored \/ ReceiveOversized
         \/ UNCHANGED vars
BY DEF Next, Caller, Enqueue, Writer, Shutdown, Environment

\* A fresh session (spawn_admitted) is well typed.
LEMMA TypeInit == Init => TypeOK
<1> SUFFICES ASSUME Init PROVE TypeOK
  OBVIOUS
<1>1. open \in BOOLEAN /\ closeRequested \in BOOLEAN /\ stopWriter \in BOOLEAN
  BY DEF Init
<1>2. ignored \in 0..MaxIgnored
  BY LimitsAssumption DEF Init
<1>3. dataQ \in Seq(Sends) /\ controlQ \in Seq(Controls)
  BY DEF Init
<1> QED
  BY <1>1, <1>2, <1>3 DEF Init, TypeOK, Stages, Results

\* A failed `enqueue` keeps the types of everything it may change.
LEMMA EnqueueFailsType ==
  ASSUME TypeOK, NEW a \in Actors, NEW why \in LocalFailures, EnqueueFails(a, why)
  PROVE  /\ open' \in BOOLEAN /\ closeRequested' \in BOOLEAN
         /\ result' \in [Sends -> Results]
         /\ stage' \in [Actors -> Stages]
         /\ handlerPermits' \subseteq Arrivals
         /\ busy' \in Arrivals \cup {NoFrame}
<1>1. CASE a \in Sends
  BY <1>1 DEF EnqueueFails, TypeOK, Results, Stages, gate
<1>2. CASE a \notin Sends
  BY <1>2 DEF EnqueueFails, CloseEffect, ControlReturns, TypeOK, Stages
<1> QED
  BY <1>1, <1>2

\* The same for a control frame that leaves `write`.
LEMMA ControlReturnsType ==
  ASSUME TypeOK, NEW a \in Actors, ControlReturns(a)
  PROVE  /\ stage' \in [Actors -> Stages]
         /\ handlerPermits' \subseteq Arrivals
         /\ busy' \in Arrivals \cup {NoFrame}
  BY DEF ControlReturns, TypeOK, Stages

\* Every step of every actor keeps the types.
LEMMA TypeStep == TypeOK /\ [Next]_vars => TypeOK'
<1> SUFFICES ASSUME TypeOK, [Next]_vars PROVE TypeOK'
  OBVIOUS
<1> USE LimitsAssumption DEF TypeOK, Actors, Controls, Stages, Results, LocalFailures,
        gate, calls, queues, sink, tasks, Range
<1>1. ASSUME NEW s \in Sends, ExchangeRegister(s) PROVE TypeOK'
  <2>1. CASE open
    BY <1>1, <2>1 DEF ExchangeRegister
  <2>2. CASE ~open
    <3>1. result' \in [Sends -> Results] /\ stage' \in [Actors -> Stages]
      BY <1>1, <2>2 DEF ExchangeRegister
    <3>2. UNCHANGED <<gate, queues, sink, tasks, slot, ignored, pending>> /\ requestPermits' \subseteq Sends
      BY <1>1, <2>2 DEF ExchangeRegister
    <3> QED
      BY <3>1, <3>2
  <2> QED
    BY <2>1, <2>2
<1>2. ASSUME NEW s \in Sends, ExchangeReceive(s) PROVE TypeOK'
  BY <1>2 DEF ExchangeReceive, ExchangeSettle
<1>3. ASSUME NEW s \in Sends, ExchangeTimeout(s) PROVE TypeOK'
  BY <1>3 DEF ExchangeTimeout, ExchangeSettle
<1>4. ASSUME NEW s \in Sends, ExchangeCleanup(s) PROVE TypeOK'
  BY <1>4 DEF ExchangeCleanup
<1>5. ASSUME NEW a \in Actors, EnqueueCheck(a) PROVE TypeOK'
  <2>1. CASE open /\ stage' = [stage EXCEPT ![a] = "reserve"] /\ UNCHANGED <<gate, result, handlerPermits, busy>>
    BY <1>5, <2>1 DEF EnqueueCheck
  <2>2. CASE EnqueueFails(a, "not_open")
    BY <1>5, <2>2, EnqueueFailsType DEF EnqueueCheck
  <2> QED
    BY <1>5, <2>1, <2>2 DEF EnqueueCheck
<1>6. ASSUME NEW a \in Actors, EnqueueReserve(a) PROVE TypeOK'
  <2>1. CASE EnqueueFails(a, "overloaded") /\ UNCHANGED queuePermits
    BY <1>6, <2>1, EnqueueFailsType DEF EnqueueReserve
  <2>2. CASE /\ queuePermits' = queuePermits \cup {a}
             /\ stage' = [stage EXCEPT ![a] = "push"]
             /\ UNCHANGED <<gate, result, handlerPermits, busy>>
    BY <1>6, <2>2 DEF EnqueueReserve
  <2> QED
    BY <1>6, <2>1, <2>2 DEF EnqueueReserve
<1>7. ASSUME NEW a \in Actors, EnqueuePush(a) PROVE TypeOK'
  <2>1. CASE HasSlot(a) /\ a \in Sends
    <3>1. /\ dataQ' = Append(dataQ, a)
          /\ stage' = [stage EXCEPT ![a] = "wait"]
          /\ UNCHANGED <<gate, result, queuePermits, controlQ, handlerPermits, busy>>
      BY <1>7, <2>1 DEF EnqueuePush, Queued, UsesDataQueue
    <3>2. dataQ' \in Seq(Sends)
      BY <2>1, <3>1
    <3>3. stage' \in [Actors -> Stages]
      BY <3>1
    <3>4. UNCHANGED <<pending, slot, requestPermits, sink, reader, stopWriter, ignored>>
      BY <1>7 DEF EnqueuePush
    <3> QED
      BY <3>1, <3>2, <3>3, <3>4
  <2>2. CASE HasSlot(a) /\ a \notin Sends
    <3>1. ControlReturns(a) /\ UNCHANGED <<gate, result, queuePermits, dataQ>>
      BY <1>7, <2>2 DEF EnqueuePush, Queued, UsesDataQueue
    <3>2. controlQ' = Append(controlQ, a) /\ a \in Controls
      BY <1>7, <2>2 DEF EnqueuePush, Queued, UsesDataQueue
    <3>3. controlQ' \in Seq(Controls)
      BY <3>2
    <3>4. UNCHANGED <<pending, slot, requestPermits, sink, reader, stopWriter, ignored>>
      BY <1>7 DEF EnqueuePush
    <3> QED
      BY <3>1, <3>3, <3>4, ControlReturnsType
  <2>3. CASE ~HasSlot(a)
    BY <1>7, <2>3, EnqueueFailsType DEF EnqueuePush
  <2> QED
    BY <2>1, <2>2, <2>3
<1>8. ASSUME NEW m \in Arrivals, HandlerReturns(m) \/ HandlerPanics(m) PROVE TypeOK'
  BY <1>8 DEF HandlerReturns, HandlerPanics
<1>9. ASSUME NEW m \in Arrivals, AbortHandler(m) PROVE TypeOK'
  BY <1>9 DEF AbortHandler
<1>10. CASE WriterStops
  BY <1>10 DEF WriterStops
<1>11. CASE WriterTakes
  BY <1>11 DEF WriterTakes
<1>12. CASE WriterSent
  BY <1>12 DEF WriterSent
<1>13. CASE WriterFails
  BY <1>13 DEF WriterFails, CloseEffect
<1>14. CASE WriterEnds
  BY <1>14 DEF WriterEnds, WriterDropped
<1>15. CASE ReaderCloses
  BY <1>15 DEF ReaderCloses
<1>16. CASE HandlersJoined
  BY <1>16 DEF HandlersJoined
<1>17. CASE WriterJoined
  BY <1>17 DEF WriterJoined
<1>18. CASE ShutdownTimeout
  BY <1>18 DEF ShutdownTimeout, WriterDropped
<1>19. CASE DrainPending
  BY <1>19 DEF DrainPending
<1>20. CASE PublishClosed
  BY <1>20 DEF PublishClosed
<1>21. CASE Close
  BY <1>21 DEF Close, CloseEffect
<1>22. CASE StreamEnds
  BY <1>22 DEF StreamEnds, CloseEffect
<1>23. CASE ReceiveIgnored
  BY <1>23 DEF ReceiveIgnored
<1>24. CASE ReceiveOversized
  BY <1>24 DEF ReceiveOversized, CloseEffect
<1>25. ASSUME NEW s \in Sends, ExchangeRefused(s) PROVE TypeOK'
  BY <1>25 DEF ExchangeRefused
<1>26. ASSUME NEW s \in Sends, ExchangeReserve(s) PROVE TypeOK'
  BY <1>26 DEF ExchangeReserve
<1>27. ASSUME NEW s \in Sends, ExchangeDropped(s) PROVE TypeOK'
  BY <1>27 DEF ExchangeDropped, ExchangeSettle
<1>28. ASSUME NEW s \in Sends, NEW outcome \in {"ack", "nak"}, ReceiveReply(s, outcome) PROVE TypeOK'
  BY <1>28 DEF ReceiveReply
<1>29. ASSUME NEW m \in Arrivals, ReceiveMessage(m) PROVE TypeOK'
  BY <1>29 DEF ReceiveMessage
<1>30. ASSUME NEW b \in Beats, SendHeartbeat(b) PROVE TypeOK'
  BY <1>30 DEF SendHeartbeat
<1>31. CASE UNCHANGED vars
  BY <1>31 DEF vars
<1> HIDE DEF TypeOK, Actors, Controls, Stages, Results, LocalFailures,
        gate, calls, queues, sink, tasks, Range
<1> QED
  BY StepCases, <1>1, <1>2, <1>3, <1>4, <1>5, <1>6, <1>7, <1>8, <1>9, <1>10, <1>11, <1>12, <1>13, <1>14, <1>15, <1>16,
     <1>17, <1>18, <1>19, <1>20, <1>21, <1>22, <1>23, <1>24, <1>25, <1>26, <1>27, <1>28, <1>29, <1>30, <1>31

\* Every reachable state is well typed, for any number of calls, messages and
\* heartbeats and any limits.
THEOREM TypeCorrect == Spec => []TypeOK
  BY TypeInit, TypeStep, PTL DEF Spec

----------------------------------------------------------------------------
\* The stages between registration and return, in which the call relies on its
\* pending entry or on the oneshot.
Registered == {"check", "reserve", "push", "wait"}

\* Why no call is stranded: the reader leaves its loop only on a closed gate, a
\* call is registered only through an open one, so after the drain the table
\* stays empty; an entry leaves the table only with its answer or its caller.
CallInv ==
    /\ reader # "run" => ~open
    /\ reader \in {"publish", "closed"} => pending = {}
    /\ \A s \in Sends : stage[s] \in Registered => s \in pending \/ slot[s] # "none"
    /\ \A s \in pending : stage[s] \in Registered \cup {"cleanup"}
    /\ requestPermits = pending \cup {s \in Sends : stage[s] = "admitted"}

\* A fresh session has no calls.
LEMMA CallInvInit == Init => CallInv
  BY DEF Init, CallInv, Registered, Actors

\* Every step keeps CallInv: registration and the drain of finish_close exclude
\* each other because the reader leaves "run" only on a closed session.
LEMMA CallInvStep == TypeOK /\ CallInv /\ [Next]_vars => CallInv'
<1> SUFFICES ASSUME TypeOK, CallInv, [Next]_vars PROVE CallInv'
  OBVIOUS
<1> USE LimitsAssumption DEF TypeOK, CallInv, Registered, Actors, Controls,
        gate, calls, queues, sink, tasks
<1>1. ASSUME NEW s \in Sends, ExchangeRegister(s) PROVE CallInv'
  BY <1>1 DEF ExchangeRegister
<1>2. ASSUME NEW s \in Sends, ExchangeReceive(s) PROVE CallInv'
  BY <1>2 DEF ExchangeReceive, ExchangeSettle
<1>3. ASSUME NEW s \in Sends, ExchangeTimeout(s) PROVE CallInv'
  BY <1>3 DEF ExchangeTimeout, ExchangeSettle
<1>4. ASSUME NEW s \in Sends, ExchangeCleanup(s) PROVE CallInv'
  BY <1>4 DEF ExchangeCleanup
<1>5. ASSUME NEW a \in Actors, EnqueueCheck(a) PROVE CallInv'
  BY <1>5 DEF EnqueueCheck, EnqueueFails, CloseEffect, ControlReturns
<1>6. ASSUME NEW a \in Actors, EnqueueReserve(a) PROVE CallInv'
  BY <1>6 DEF EnqueueReserve, EnqueueFails, CloseEffect, ControlReturns
<1>7. ASSUME NEW a \in Actors, EnqueuePush(a) PROVE CallInv'
  BY <1>7 DEF EnqueuePush, EnqueueFails, CloseEffect, ControlReturns, Queued
<1>8. ASSUME NEW m \in Arrivals, HandlerReturns(m) \/ HandlerPanics(m) PROVE CallInv'
  BY <1>8 DEF HandlerReturns, HandlerPanics
<1>9. ASSUME NEW m \in Arrivals, AbortHandler(m) PROVE CallInv'
  BY <1>9 DEF AbortHandler
<1>10. CASE WriterStops
  BY <1>10 DEF WriterStops
<1>11. CASE WriterTakes
  BY <1>11 DEF WriterTakes
<1>12. CASE WriterSent
  BY <1>12 DEF WriterSent
<1>13. CASE WriterFails
  BY <1>13 DEF WriterFails, CloseEffect
<1>14. CASE WriterEnds
  BY <1>14 DEF WriterEnds, WriterDropped
<1>15. CASE ReaderCloses
  BY <1>15 DEF ReaderCloses
<1>16. CASE HandlersJoined
  BY <1>16 DEF HandlersJoined
<1>17. CASE WriterJoined
  BY <1>17 DEF WriterJoined
<1>18. CASE ShutdownTimeout
  BY <1>18 DEF ShutdownTimeout, WriterDropped
<1>19. CASE DrainPending
  BY <1>19 DEF DrainPending
<1>20. CASE PublishClosed
  BY <1>20 DEF PublishClosed
<1>21. CASE Close
  BY <1>21 DEF Close, CloseEffect
<1>22. CASE StreamEnds
  BY <1>22 DEF StreamEnds, CloseEffect
<1>23. CASE ReceiveIgnored
  BY <1>23 DEF ReceiveIgnored
<1>24. CASE ReceiveOversized
  BY <1>24 DEF ReceiveOversized, CloseEffect
<1>25. ASSUME NEW s \in Sends, ExchangeRefused(s) PROVE CallInv'
  BY <1>25 DEF ExchangeRefused
<1>26. ASSUME NEW s \in Sends, ExchangeReserve(s) PROVE CallInv'
  BY <1>26 DEF ExchangeReserve
<1>27. ASSUME NEW s \in Sends, ExchangeDropped(s) PROVE CallInv'
  BY <1>27 DEF ExchangeDropped, ExchangeSettle
<1>28. ASSUME NEW s \in Sends, NEW outcome \in {"ack", "nak"}, ReceiveReply(s, outcome) PROVE CallInv'
  BY <1>28 DEF ReceiveReply
<1>29. ASSUME NEW m \in Arrivals, ReceiveMessage(m) PROVE CallInv'
  BY <1>29 DEF ReceiveMessage
<1>30. ASSUME NEW b \in Beats, SendHeartbeat(b) PROVE CallInv'
  BY <1>30 DEF SendHeartbeat
<1>31. CASE UNCHANGED vars
  BY <1>31 DEF vars
<1> HIDE DEF TypeOK, CallInv, Registered, Actors, Controls,
        gate, calls, queues, sink, tasks
<1> QED
  BY StepCases, <1>1, <1>2, <1>3, <1>4, <1>5, <1>6, <1>7, <1>8, <1>9, <1>10, <1>11, <1>12, <1>13, <1>14, <1>15, <1>16,
     <1>17, <1>18, <1>19, <1>20, <1>21, <1>22, <1>23, <1>24, <1>25, <1>26, <1>27, <1>28, <1>29, <1>30, <1>31

\* The call invariant holds in every reachable state (exchange and
\* finish_close).
THEOREM CallsSafe == Spec => []CallInv
  BY TypeCorrect, CallInvInit, CallInvStep, PTL DEF Spec

\* No call waits for an answer that cannot come, and nothing enters the pending
\* table after finish_close drained it.
THEOREM NoSendStranded == Spec => []NoStrandedSend
<1>1. CallInv => NoStrandedSend
  BY DEF CallInv, NoStrandedSend, Registered
<1> QED
  BY <1>1, CallsSafe, PTL

\* A call that returned holds neither a pending entry nor a Request permit.
THEOREM ReturnIsClean == Spec => []ReturnedCallLeavesNothing
<1>1. CallInv => ReturnedCallLeavesNothing
  BY DEF CallInv, ReturnedCallLeavesNothing, Registered
<1> QED
  BY <1>1, CallsSafe, PTL

----------------------------------------------------------------------------
(* The frames and what they hold *)

\* The stages an actor is in once its frame has been queued.
Left == {"wait", "cleanup", "done"}

Queue == Range(dataQ) \cup Range(controlQ)

\* A frame is in one place: in the queue of its kind, once, or at the writer.
\* Its actor has left `enqueue` for good, so that no frame is queued twice.
FrameInv ==
    /\ IsInjective(dataQ) /\ IsInjective(controlQ)
    /\ writing \notin Queue
    /\ \A a \in Queue \cup handed \cup ({writing} \ {NoFrame}) : stage[a] \in Left
    /\ writer = "idle" => writing = NoFrame
    /\ writer = "done" => writing = NoFrame /\ dataQ = <<>> /\ controlQ = <<>>
    /\ queuePermits = Queue \cup ({writing} \ {NoFrame}) \cup {a \in Actors : stage[a] = "push"}

\* A handler permit belongs to the task it admitted or to the reader itself.
HandlerInv ==
    /\ {m \in Arrivals : stage[m] = "running"} \subseteq handlerPermits
    /\ handlerPermits \subseteq {m \in Arrivals : stage[m] \in {"running", "check", "reserve", "push"}}

\* The budgets of the two queues.
RoomInv ==
    /\ IsFiniteSet(queuePermits)
    /\ Cardinality(queuePermits \cap Sends) <= QueueLimit
    /\ Cardinality(queuePermits \ Sends) <= ControlLimit

\* The order of the shutdown: the gate, the handlers, the writer, the drain.
ShutdownInv ==
    /\ writer \in {"closing", "done"} => ~open
    /\ stopWriter => reader \notin {"run", "join"}
    /\ reader \notin {"run", "join"} => \A m \in Arrivals : Joined(m)
    /\ reader \in {"drain", "publish", "closed"} => writer = "done"
    /\ NoReplyLost

\* What a call has been told and what is in its oneshot, by where it is.
OutcomeInv ==
    \A s \in Sends :
        /\ stage[s] \in {"idle", "admitted"} => result[s] = "none" /\ slot[s] = "none"
        /\ stage[s] \in Registered => result[s] = "none"
        /\ stage[s] \in {"cleanup", "done"} => result[s] # "none"
        /\ s \in pending => slot[s] = "none"
        /\ stage[s] \in {"check", "reserve", "push"} => slot[s] \in {"none", "closed"}
        /\ s \in Range(dataQ) \cup handed => result[s] \notin LocalFailures
----------------------------------------------------------------------------
(* Sequences *)

\* Appending to a sequence, and taking its head.
LEMMA Appended ==
  ASSUME NEW S, NEW q \in Seq(S), NEW e \in S
  PROVE  /\ Range(Append(q, e)) = Range(q) \cup {e}
         /\ IsInjective(q) /\ e \notin Range(q) => IsInjective(Append(q, e))
<1> DEFINE r == Append(q, e)
<1>1. /\ DOMAIN q = 1..Len(q) /\ DOMAIN r = 1..(Len(q) + 1) /\ Len(q) \in Nat
      /\ r[Len(q) + 1] = e /\ \A i \in 1..Len(q) : r[i] = q[i]
  OBVIOUS
<1> HIDE DEF r
<1>2. Range(r) = Range(q) \cup {e}
  BY <1>1 DEF Range
<1>3. IsInjective(q) /\ e \notin Range(q) => IsInjective(r)
  BY <1>1 DEF Range, IsInjective
<1> QED
  BY <1>2, <1>3 DEF r

\* Taking the head of a sequence.
LEMMA Taken ==
  ASSUME NEW S, NEW q \in Seq(S), q # <<>>
  PROVE  /\ Range(q) = {Head(q)} \cup Range(Tail(q))
         /\ IsInjective(q) => IsInjective(Tail(q)) /\ Head(q) \notin Range(Tail(q))
<1> DEFINE r == Tail(q)
<1>1. /\ DOMAIN q = 1..Len(q) /\ DOMAIN r = 1..(Len(q) - 1) /\ Len(q) \in Nat \ {0}
      /\ Head(q) = q[1] /\ \A i \in 1..(Len(q) - 1) : r[i] = q[i + 1]
  OBVIOUS
<1> HIDE DEF r
<1>2. ASSUME NEW i \in 1..Len(q)
      PROVE  q[i] \in {Head(q)} \cup Range(r)
  <2>1. CASE i = 1
    BY <1>1, <2>1
  <2>2. CASE i # 1
    <3>1. i - 1 \in DOMAIN r /\ r[i - 1] = q[i]
      BY <1>1, <2>2
    <3> QED
      BY <3>1 DEF Range
  <2> QED
    BY <2>1, <2>2
<1>3. Range(q) = {Head(q)} \cup Range(r)
  <2>1. Range(q) \subseteq {Head(q)} \cup Range(r)
    BY <1>1, <1>2 DEF Range
  <2>2. Head(q) \in Range(q)
    BY <1>1 DEF Range
  <2>3. ASSUME NEW i \in DOMAIN r PROVE r[i] \in Range(q)
    <3>1. i + 1 \in DOMAIN q /\ r[i] = q[i + 1]
      BY <1>1
    <3> QED
      BY <3>1 DEF Range
  <2>4. Range(r) \subseteq Range(q)
    BY <2>3 DEF Range
  <2> QED
    BY <2>1, <2>2, <2>4
<1>4. ASSUME IsInjective(q)
      PROVE  IsInjective(r) /\ Head(q) \notin Range(r)
  <2>1. ASSUME NEW i \in DOMAIN r
        PROVE  i + 1 \in DOMAIN q /\ i + 1 # 1 /\ 1 \in DOMAIN q /\ r[i] = q[i + 1]
    BY <1>1
  <2>2. ASSUME NEW i \in DOMAIN r, NEW j \in DOMAIN r, r[i] = r[j]
        PROVE  i = j
    <3>1. i + 1 = j + 1
      BY <1>4, <2>1, <2>2 DEF IsInjective
    <3> QED
      BY <1>1, <3>1
  <2>3. ASSUME NEW i \in DOMAIN r
        PROVE  r[i] # Head(q)
    BY <1>1, <1>4, <2>1 DEF IsInjective
  <2> QED
    BY <2>2, <2>3 DEF Range, IsInjective
<1> QED
  BY <1>3, <1>4 DEF r

\* An empty queue.
LEMMA NoneQueued == Range(<<>>) = {} /\ IsInjective(<<>>)
BY DEF Range, IsInjective

\* A sequence without repetitions is as long as it has elements.
LEMMA Counted ==
  ASSUME NEW S, NEW q \in Seq(S), IsInjective(q)
  PROVE  IsFiniteSet(Range(q)) /\ Cardinality(Range(q)) = Len(q)
<1>1. q \in [1..Len(q) -> Range(q)] /\ Len(q) \in Nat
  BY DEF Range
<1>2. q \in Bijection(1..Len(q), Range(q))
  BY <1>1 DEF Bijection, Injection, Surjection, Range
<1>3. ExistsBijection(1..Len(q), Range(q))
  BY <1>2 DEF ExistsBijection
<1> QED
  BY <1>1, <1>3, FS_CountingElements, FS_NatBijection

----------------------------------------------------------------------------
(* Where the frames are *)

\* At first nothing is queued.
LEMMA FrameInit == Init => FrameInv
BY NoneQueued DEF Init, FrameInv, Queue

\* A step that moves no frame keeps FrameInv if no actor comes back to
\* `enqueue` and none enters or leaves the place between reservation and push.
LEMMA FramesKept ==
  ASSUME TypeOK, FrameInv, UNCHANGED <<queues, sink>>,
         \A a \in Actors : /\ stage[a] \in Left => stage'[a] \in Left
                           /\ stage'[a] = "push" <=> stage[a] = "push"
  PROVE  FrameInv'
<1>1. Queue' = Queue /\ UNCHANGED <<queuePermits, dataQ, controlQ, writer, writing, handed>>
  BY DEF Queue, queues, sink
<1>2. Queue \cup handed \cup ({writing} \ {NoFrame}) \subseteq Actors
  BY DEF TypeOK, Queue, Range, Actors, Controls
<1> QED
  BY <1>1, <1>2 DEF FrameInv

\* A frame leaves `enqueue` without having been queued.
LEMMA FailStage ==
  ASSUME TypeOK, NEW a \in Actors, NEW why, EnqueueFails(a, why)
  PROVE  \E at \in {"cleanup", "done"} : stage' = [stage EXCEPT ![a] = at]
BY DEF EnqueueFails, ControlReturns

\* Reservation, and the failures before it.
LEMMA FrameCheck ==
  ASSUME TypeOK, FrameInv, NEW a \in Actors, EnqueueCheck(a)
  PROVE  FrameInv'
<1>1. UNCHANGED <<queues, sink>> /\ stage[a] = "check"
  BY DEF EnqueueCheck
<1>2. \E at \in {"cleanup", "done", "reserve"} : stage' = [stage EXCEPT ![a] = at]
  BY FailStage DEF EnqueueCheck
<1> QED
  BY <1>1, <1>2, FramesKept DEF TypeOK, Left

\* A reservation gives its permit to an actor that has not queued its frame.
LEMMA FrameReserve ==
  ASSUME TypeOK, FrameInv, NEW a \in Actors, EnqueueReserve(a)
  PROVE  FrameInv'
<1>1. stage[a] = "reserve" /\ UNCHANGED <<sink, dataQ, controlQ>>
  BY DEF EnqueueReserve
<1>2. CASE EnqueueFails(a, "overloaded") /\ UNCHANGED queuePermits
  <2>1. \E at \in {"cleanup", "done"} : stage' = [stage EXCEPT ![a] = at]
    BY <1>2, FailStage
  <2> QED
    BY <1>1, <1>2, <2>1, FramesKept DEF TypeOK, Left, queues
<1>3. CASE queuePermits' = queuePermits \cup {a} /\ stage' = [stage EXCEPT ![a] = "push"]
  <2>1. \A b \in Actors : stage'[b] = IF b = a THEN "push" ELSE stage[b]
    BY <1>3 DEF TypeOK
  <2>2. a \notin Queue \cup handed \cup ({writing} \ {NoFrame})
    BY <1>1 DEF FrameInv, Left
  <2>3. Queue \cup handed \cup ({writing} \ {NoFrame}) \subseteq Actors
    BY DEF TypeOK, Queue, Range, Actors, Controls
  <2>4. Queue' = Queue /\ UNCHANGED <<dataQ, controlQ, writer, writing, handed>>
    BY <1>1 DEF Queue, sink
  <2>5. queuePermits' = Queue \cup ({writing} \ {NoFrame}) \cup {b \in Actors : stage'[b] = "push"}
    BY <1>3, <2>1 DEF FrameInv
  <2> QED
    BY <2>1, <2>2, <2>3, <2>4, <2>5 DEF FrameInv
<1> QED
  BY <1>2, <1>3 DEF EnqueueReserve

\* try_send: the frame is queued and its permit goes with it, or both are gone.
LEMMA FramePush ==
  ASSUME TypeOK, FrameInv, NEW a \in Actors, EnqueuePush(a)
  PROVE  FrameInv'
<1>1. stage[a] = "push" /\ UNCHANGED sink
  BY DEF EnqueuePush
<1>2. a \notin Queue \cup handed \cup ({writing} \ {NoFrame}) /\ a # NoFrame
  BY <1>1, LimitsAssumption DEF FrameInv, Left
<1>3. Queue \cup handed \cup ({writing} \ {NoFrame}) \subseteq Actors
  BY DEF TypeOK, Queue, Range, Actors, Controls
<1>4. CASE HasSlot(a)
  <2>1. Queued(a) /\ UNCHANGED queuePermits /\ writer # "done"
    BY <1>4 DEF EnqueuePush, HasSlot
  <2>2. /\ Queue' = Queue \cup {a} /\ IsInjective(dataQ') /\ IsInjective(controlQ')
    <3>1. CASE a \in Sends
      <4>1. dataQ' = Append(dataQ, a) /\ controlQ' = controlQ
        BY <2>1, <3>1 DEF Queued, UsesDataQueue
      <4> QED
        BY <1>2, <3>1, <4>1, Appended DEF FrameInv, Queue, TypeOK
    <3>2. CASE a \notin Sends
      <4>1. controlQ' = Append(controlQ, a) /\ dataQ' = dataQ /\ a \in Controls
        BY <2>1, <3>2 DEF Queued, UsesDataQueue, Actors, Controls
      <4> QED
        BY <1>2, <4>1, Appended DEF FrameInv, Queue, TypeOK
    <3> QED
      BY <3>1, <3>2
  <2>3. \E at \in {"wait", "done"} : stage' = [stage EXCEPT ![a] = at]
    BY <2>1 DEF Queued, ControlReturns
  <2>4. \A b \in Actors : /\ stage[b] \in Left => stage'[b] \in Left
                          /\ stage'[b] = "push" <=> (stage[b] = "push" /\ b # a)
    BY <2>3 DEF TypeOK, Left
  <2>5. stage'[a] \in Left
    BY <2>3 DEF TypeOK, Left
  <2> QED
    BY <1>1, <1>2, <1>3, <2>1, <2>2, <2>4, <2>5 DEF FrameInv, sink
<1>5. CASE ~HasSlot(a)
  <2>1. EnqueueFails(a, "overloaded") /\ queuePermits' = queuePermits \ {a} /\ UNCHANGED <<dataQ, controlQ>>
    BY <1>5 DEF EnqueuePush
  <2>2. \E at \in {"cleanup", "done"} : stage' = [stage EXCEPT ![a] = at]
    BY <2>1, FailStage
  <2>3. \A b \in Actors : /\ stage[b] \in Left => stage'[b] \in Left
                          /\ stage'[b] = "push" <=> (stage[b] = "push" /\ b # a)
    BY <2>2 DEF TypeOK, Left
  <2>4. Queue' = Queue
    BY <2>1 DEF Queue
  <2> QED
    BY <1>1, <1>2, <1>3, <2>1, <2>3, <2>4 DEF FrameInv, sink
<1> QED
  BY <1>4, <1>5

\* The writer takes a frame out of its queue: it is sent, with its permits, or
\* dropped and its permits released.
LEMMA FrameTakes ==
  ASSUME TypeOK, FrameInv, WriterTakes
  PROVE  FrameInv'
<1> DEFINE frame == Head(IF controlQ # <<>> THEN controlQ ELSE dataQ)
<1>1. writer = "idle" /\ writing = NoFrame /\ UNCHANGED stage
  BY DEF WriterTakes, FrameInv
<1>2. /\ Queue = {frame} \cup Queue' /\ frame \notin Queue'
      /\ IsInjective(dataQ') /\ IsInjective(controlQ')
  <2>1. Range(dataQ) \subseteq Sends /\ Range(controlQ) \subseteq Controls
    BY DEF TypeOK, Range
  <2>2. CASE controlQ # <<>>
    <3>1. controlQ' = Tail(controlQ) /\ dataQ' = dataQ /\ frame = Head(controlQ)
      BY <2>2 DEF WriterTakes
    <3> QED
      BY <2>1, <2>2, <3>1, Taken, LimitsAssumption DEF FrameInv, Queue, TypeOK
  <2>3. CASE controlQ = <<>>
    <3>1. controlQ' = controlQ /\ dataQ' = Tail(dataQ) /\ frame = Head(dataQ) /\ dataQ # <<>>
      BY <2>3 DEF WriterTakes
    <3> QED
      BY <2>1, <2>3, <3>1, Taken, LimitsAssumption, NoneQueued DEF FrameInv, Queue, TypeOK
  <2> QED
    BY <2>2, <2>3
<1>3. frame \in Actors /\ frame # NoFrame /\ stage[frame] \in Left
  BY <1>2, LimitsAssumption DEF FrameInv, Queue, TypeOK, Range, Actors, Controls
<1>4. CASE open
  <2>1. writer' = "writing" /\ writing' = frame /\ handed' = handed \cup {frame} /\ UNCHANGED queuePermits
    BY <1>4 DEF WriterTakes
  <2> HIDE DEF frame
  <2> QED
    BY <1>1, <1>2, <1>3, <2>1 DEF FrameInv
<1>5. CASE ~open
  <2>1. writer' = "closing" /\ queuePermits' = queuePermits \ {frame} /\ UNCHANGED <<writing, handed>>
    BY <1>5 DEF WriterTakes
  <2> HIDE DEF frame
  <2>2. stage[frame] # "push"
    BY <1>3 DEF Left
  <2> QED
    BY <1>1, <1>2, <1>3, <2>1, <2>2 DEF FrameInv
<1> QED
  BY <1>4, <1>5

\* A writer that ends drops what it has and the permits with it.
LEMMA FrameDropped ==
  ASSUME TypeOK, FrameInv, WriterDropped, UNCHANGED <<stage, handed>>
  PROVE  FrameInv'
<1>1. Queue' = {} /\ IsInjective(dataQ') /\ IsInjective(controlQ') /\ writing' = NoFrame
  BY NoneQueued DEF WriterDropped, Queue
<1>2. \A a \in Queue \cup {writing} : a \in Actors => stage[a] # "push"
  BY LimitsAssumption DEF FrameInv, Left
<1>3. queuePermits' = {a \in Actors : stage[a] = "push"}
  BY <1>2 DEF WriterDropped, FrameInv, Queue
<1> QED
  BY <1>1, <1>3 DEF FrameInv, WriterDropped

\* Every step keeps the frames in their places.
LEMMA FrameStep == TypeOK /\ FrameInv /\ [Next]_vars => FrameInv'
<1> SUFFICES ASSUME TypeOK, FrameInv, [Next]_vars PROVE FrameInv'
  OBVIOUS
<1> USE FramesKept DEF Actors, Controls, Left
<1>1. ASSUME NEW s \in Sends, ExchangeRegister(s) PROVE FrameInv'
  BY <1>1 DEF ExchangeRegister, TypeOK
<1>2. ASSUME NEW s \in Sends, ExchangeReceive(s) PROVE FrameInv'
  BY <1>2 DEF ExchangeReceive, ExchangeSettle, TypeOK
<1>3. ASSUME NEW s \in Sends, ExchangeTimeout(s) PROVE FrameInv'
  BY <1>3 DEF ExchangeTimeout, ExchangeSettle, TypeOK
<1>4. ASSUME NEW s \in Sends, ExchangeCleanup(s) PROVE FrameInv'
  BY <1>4 DEF ExchangeCleanup, TypeOK
<1>5. ASSUME NEW s \in Sends, ExchangeRefused(s) PROVE FrameInv'
  BY <1>5 DEF ExchangeRefused, TypeOK
<1>6. ASSUME NEW s \in Sends, ExchangeReserve(s) PROVE FrameInv'
  BY <1>6 DEF ExchangeReserve, TypeOK
<1>7. ASSUME NEW s \in Sends, ExchangeDropped(s) PROVE FrameInv'
  BY <1>7 DEF ExchangeDropped, ExchangeSettle, TypeOK
<1>8. ASSUME NEW s \in Sends, NEW outcome \in {"ack", "nak"}, ReceiveReply(s, outcome) PROVE FrameInv'
  BY <1>8 DEF ReceiveReply, TypeOK
<1>9. ASSUME NEW m \in Arrivals, HandlerReturns(m) \/ HandlerPanics(m) PROVE FrameInv'
  BY <1>9 DEF HandlerReturns, HandlerPanics, TypeOK
<1>10. ASSUME NEW m \in Arrivals, AbortHandler(m) PROVE FrameInv'
  BY <1>10 DEF AbortHandler, TypeOK
<1>11. ASSUME NEW m \in Arrivals, ReceiveMessage(m) PROVE FrameInv'
  BY <1>11 DEF ReceiveMessage, TypeOK
<1>12. ASSUME NEW b \in Beats, SendHeartbeat(b) PROVE FrameInv'
  BY <1>12 DEF SendHeartbeat, TypeOK
<1>13. CASE \/ ReaderCloses \/ HandlersJoined \/ WriterJoined \/ DrainPending \/ PublishClosed
            \/ Close \/ StreamEnds \/ ReceiveIgnored \/ ReceiveOversized
            \/ UNCHANGED vars
  BY <1>13 DEF ReaderCloses, HandlersJoined, WriterJoined, DrainPending, PublishClosed,
     Close, StreamEnds, ReceiveIgnored, ReceiveOversized, vars
<1>14. CASE WriterStops \/ WriterFails
  BY <1>14 DEF WriterStops, WriterFails, FrameInv, queues, Queue
<1>15. CASE WriterSent
  <2>1. writing \in Actors => stage[writing] # "push"
    BY LimitsAssumption DEF FrameInv
  <2>2. /\ Queue' = Queue /\ writer' = "idle" /\ writing' = NoFrame /\ queuePermits' = queuePermits \ {writing}
        /\ UNCHANGED <<dataQ, controlQ, handed, stage>>
    BY <1>15 DEF WriterSent, Queue
  <2>3. NoFrame \notin Queue
    BY LimitsAssumption DEF TypeOK, Queue, Range
  <2> QED
    BY <2>1, <2>2, <2>3 DEF FrameInv
<1>16. CASE WriterEnds \/ ShutdownTimeout
  BY <1>16, FrameDropped DEF WriterEnds, ShutdownTimeout
<1> QED
  BY StepCases, FrameCheck, FrameReserve, FramePush, FrameTakes,
     <1>1, <1>2, <1>3, <1>4, <1>5, <1>6, <1>7, <1>8, <1>9, <1>10, <1>11, <1>12,
     <1>13, <1>14, <1>15, <1>16

\* How a step of `enqueue` ends, and what the writer leaves in the queues.
LEMMA PushEffect ==
  ASSUME TypeOK, NEW a \in Actors, EnqueuePush(a)
  PROVE  /\ stage[a] = "push"
         /\ UNCHANGED <<sink, pending, slot, requestPermits, stopWriter, reader, ignored>>
         /\ \/ /\ a \in Sends /\ stage' = [stage EXCEPT ![a] = "wait"]
               /\ Range(dataQ') = Range(dataQ) \cup {a} /\ UNCHANGED controlQ
               /\ UNCHANGED <<open, result, handlerPermits>>
            \/ /\ a \notin Sends /\ ControlReturns(a)
               /\ Range(controlQ') = Range(controlQ) \cup {a} /\ UNCHANGED dataQ
               /\ UNCHANGED <<open, result>>
            \/ EnqueueFails(a, "overloaded") /\ UNCHANGED <<dataQ, controlQ>>
<1>1. /\ stage[a] = "push"
      /\ UNCHANGED <<sink, pending, slot, requestPermits, stopWriter, reader, ignored>>
  BY DEF EnqueuePush
<1>2. CASE HasSlot(a) /\ a \in Sends
  <2>1. /\ dataQ' = Append(dataQ, a) /\ UNCHANGED controlQ
        /\ stage' = [stage EXCEPT ![a] = "wait"] /\ UNCHANGED <<open, result, handlerPermits>>
    BY <1>2 DEF EnqueuePush, Queued, UsesDataQueue, gate
  <2>2. Range(dataQ') = Range(dataQ) \cup {a}
    BY <1>2, <2>1, Appended DEF TypeOK
  <2> QED
    BY <1>1, <1>2, <2>1, <2>2
<1>3. CASE HasSlot(a) /\ a \notin Sends
  <2>1. /\ controlQ' = Append(controlQ, a) /\ UNCHANGED dataQ
        /\ ControlReturns(a) /\ UNCHANGED <<open, result>> /\ a \in Controls
    BY <1>3 DEF EnqueuePush, Queued, UsesDataQueue, gate, Actors, Controls
  <2>2. Range(controlQ') = Range(controlQ) \cup {a}
    BY <2>1, Appended DEF TypeOK
  <2> QED
    BY <1>1, <1>3, <2>1, <2>2
<1>4. CASE ~HasSlot(a)
  BY <1>1, <1>4 DEF EnqueuePush
<1> QED
  BY <1>2, <1>3, <1>4

\* What the writer does with its queues when it takes a frame.
LEMMA TakeEffect ==
  ASSUME TypeOK, WriterTakes
  PROVE  /\ Range(dataQ') \subseteq Range(dataQ) /\ Range(controlQ') \subseteq Range(controlQ)
         /\ IF open THEN /\ writer' = "writing"
                         /\ Queue \subseteq Queue' \cup handed' /\ handed' \subseteq Queue \cup handed
                         /\ handed \subseteq handed'
                         /\ \A a \in Controls : a \in Range(controlQ) => a \in Range(controlQ') \cup handed'
                         /\ \A a \in Sends : a \in handed' => a \in Range(dataQ) \cup handed
                    ELSE writer' = "closing" /\ UNCHANGED handed
         /\ writer = "idle" /\ ~stopWriter /\ UNCHANGED <<gate, calls, tasks, stage, ignored>>
<1> DEFINE frame == Head(IF controlQ # <<>> THEN controlQ ELSE dataQ)
<1>1. /\ writer = "idle" /\ ~stopWriter /\ UNCHANGED <<gate, calls, tasks, stage, ignored>>
      /\ IF open THEN writer' = "writing" /\ handed' = handed \cup {frame}
                 ELSE writer' = "closing" /\ UNCHANGED handed
  BY DEF WriterTakes
<1>2. Range(dataQ) \subseteq Sends /\ Range(controlQ) \subseteq Controls /\ Sends \cap Controls = {}
  BY LimitsAssumption DEF TypeOK, Range
<1>3. CASE controlQ # <<>>
  <2>1. controlQ' = Tail(controlQ) /\ dataQ' = dataQ /\ frame = Head(controlQ)
    BY <1>3 DEF WriterTakes
  <2>2. Range(controlQ) = {frame} \cup Range(controlQ') /\ Range(dataQ') = Range(dataQ)
    BY <1>3, <2>1, Taken DEF TypeOK
  <2> HIDE DEF frame
  <2> QED
    BY <1>1, <1>2, <2>2 DEF Queue
<1>4. CASE controlQ = <<>>
  <2>1. controlQ' = controlQ /\ dataQ' = Tail(dataQ) /\ frame = Head(dataQ) /\ dataQ # <<>>
    BY <1>4 DEF WriterTakes
  <2>2. Range(dataQ) = {frame} \cup Range(dataQ') /\ Range(controlQ') = Range(controlQ)
    BY <2>1, Taken DEF TypeOK
  <2> HIDE DEF frame
  <2> QED
    BY <1>1, <1>2, <2>2 DEF Queue
<1> QED
  BY <1>3, <1>4

\* What the permits belong to, on every path.
LEMMA HandlerInit == Init => HandlerInv
BY DEF Init, HandlerInv, Actors, Controls

\* Every step keeps the invariant of the handler permits.
LEMMA HandlerStep == TypeOK /\ HandlerInv /\ [Next]_vars => HandlerInv'
<1> SUFFICES ASSUME TypeOK, HandlerInv, [Next]_vars PROVE HandlerInv'
  OBVIOUS
<1> USE LimitsAssumption DEF TypeOK, HandlerInv, Actors, Controls, queues, sink, gate, calls, tasks
<1>1. ASSUME NEW s \in Sends, ExchangeRegister(s) PROVE HandlerInv'
  BY <1>1 DEF ExchangeRegister
<1>2. ASSUME NEW s \in Sends, ExchangeReceive(s) PROVE HandlerInv'
  BY <1>2 DEF ExchangeReceive, ExchangeSettle
<1>3. ASSUME NEW s \in Sends, ExchangeTimeout(s) PROVE HandlerInv'
  BY <1>3 DEF ExchangeTimeout, ExchangeSettle
<1>4. ASSUME NEW s \in Sends, ExchangeCleanup(s) PROVE HandlerInv'
  BY <1>4 DEF ExchangeCleanup
<1>5. ASSUME NEW s \in Sends, ExchangeRefused(s) PROVE HandlerInv'
  BY <1>5 DEF ExchangeRefused
<1>6. ASSUME NEW s \in Sends, ExchangeReserve(s) PROVE HandlerInv'
  BY <1>6 DEF ExchangeReserve
<1>7. ASSUME NEW s \in Sends, ExchangeDropped(s) PROVE HandlerInv'
  BY <1>7 DEF ExchangeDropped, ExchangeSettle
<1>8. ASSUME NEW s \in Sends, NEW outcome \in {"ack", "nak"}, ReceiveReply(s, outcome) PROVE HandlerInv'
  BY <1>8 DEF ReceiveReply
<1>9. ASSUME NEW a \in Actors, EnqueueCheck(a) PROVE HandlerInv'
  BY <1>9 DEF EnqueueCheck, EnqueueFails, ControlReturns, CloseEffect
<1>10. ASSUME NEW a \in Actors, EnqueueReserve(a) PROVE HandlerInv'
  BY <1>10 DEF EnqueueReserve, EnqueueFails, ControlReturns, CloseEffect
<1>11. ASSUME NEW a \in Actors, EnqueuePush(a) PROVE HandlerInv'
  BY <1>11, PushEffect DEF EnqueueFails, ControlReturns
<1>12. ASSUME NEW m \in Arrivals, HandlerReturns(m) \/ HandlerPanics(m) PROVE HandlerInv'
  BY <1>12 DEF HandlerReturns, HandlerPanics
<1>13. ASSUME NEW m \in Arrivals, AbortHandler(m) PROVE HandlerInv'
  BY <1>13 DEF AbortHandler
<1>14. ASSUME NEW m \in Arrivals, ReceiveMessage(m) PROVE HandlerInv'
  BY <1>14 DEF ReceiveMessage
<1>15. ASSUME NEW b \in Beats, SendHeartbeat(b) PROVE HandlerInv'
  BY <1>15 DEF SendHeartbeat
<1>16. CASE WriterStops
  BY <1>16 DEF WriterStops
<1>17. CASE WriterTakes
  BY <1>17 DEF WriterTakes
<1>18. CASE WriterSent
  BY <1>18 DEF WriterSent
<1>19. CASE WriterFails
  BY <1>19 DEF WriterFails, CloseEffect
<1>20. CASE WriterEnds
  BY <1>20 DEF WriterEnds, WriterDropped
<1>21. CASE ReaderCloses
  BY <1>21 DEF ReaderCloses
<1>22. CASE HandlersJoined
  BY <1>22 DEF HandlersJoined
<1>23. CASE WriterJoined
  BY <1>23 DEF WriterJoined
<1>24. CASE ShutdownTimeout
  BY <1>24 DEF ShutdownTimeout, WriterDropped
<1>25. CASE DrainPending
  BY <1>25 DEF DrainPending
<1>26. CASE PublishClosed
  BY <1>26 DEF PublishClosed
<1>27. CASE Close
  BY <1>27 DEF Close, CloseEffect
<1>28. CASE StreamEnds
  BY <1>28 DEF StreamEnds, CloseEffect
<1>29. CASE ReceiveIgnored
  BY <1>29 DEF ReceiveIgnored
<1>30. CASE ReceiveOversized
  BY <1>30 DEF ReceiveOversized, CloseEffect
<1>31. CASE UNCHANGED vars
  BY <1>31 DEF vars
<1> QED
  BY StepCases, <1>1, <1>2, <1>3, <1>4, <1>5, <1>6, <1>7, <1>8, <1>9, <1>10, <1>11, <1>12, <1>13, <1>14, <1>15,
     <1>16, <1>17, <1>18, <1>19, <1>20, <1>21, <1>22, <1>23, <1>24, <1>25, <1>26, <1>27, <1>28, <1>29, <1>30, <1>31

----------------------------------------------------------------------------
(* The order of the shutdown *)

\* At first nothing is shut down.
LEMMA ShutdownInit == Init => ShutdownInv
BY DEF Init, ShutdownInv, NoReplyLost, Actors, Controls

\* The shutdown takes its steps in order, and an answer that cannot be queued
\* closes the session.
LEMMA ShutdownStep == TypeOK /\ CallInv /\ ShutdownInv /\ [Next]_vars => ShutdownInv'
<1> SUFFICES ASSUME TypeOK, CallInv, ShutdownInv, [Next]_vars PROVE ShutdownInv'
  OBVIOUS
<1>0. reader # "run" => ~open
  BY DEF CallInv
<1> USE <1>0, LimitsAssumption DEF TypeOK, ShutdownInv, NoReplyLost, Joined, Reading, Actors, Controls, queues, sink, gate, calls, tasks
<1>1. ASSUME NEW s \in Sends, ExchangeRegister(s) PROVE ShutdownInv'
  BY <1>1 DEF ExchangeRegister
<1>2. ASSUME NEW s \in Sends, ExchangeReceive(s) PROVE ShutdownInv'
  BY <1>2 DEF ExchangeReceive, ExchangeSettle
<1>3. ASSUME NEW s \in Sends, ExchangeTimeout(s) PROVE ShutdownInv'
  BY <1>3 DEF ExchangeTimeout, ExchangeSettle
<1>4. ASSUME NEW s \in Sends, ExchangeCleanup(s) PROVE ShutdownInv'
  BY <1>4 DEF ExchangeCleanup
<1>5. ASSUME NEW s \in Sends, ExchangeRefused(s) PROVE ShutdownInv'
  BY <1>5 DEF ExchangeRefused
<1>6. ASSUME NEW s \in Sends, ExchangeReserve(s) PROVE ShutdownInv'
  BY <1>6 DEF ExchangeReserve
<1>7. ASSUME NEW s \in Sends, ExchangeDropped(s) PROVE ShutdownInv'
  BY <1>7 DEF ExchangeDropped, ExchangeSettle
<1>8. ASSUME NEW s \in Sends, NEW outcome \in {"ack", "nak"}, ReceiveReply(s, outcome) PROVE ShutdownInv'
  BY <1>8 DEF ReceiveReply
<1>9. ASSUME NEW a \in Actors, EnqueueCheck(a) PROVE ShutdownInv'
  BY <1>9 DEF EnqueueCheck, EnqueueFails, ControlReturns, CloseEffect
<1>10. ASSUME NEW a \in Actors, EnqueueReserve(a) PROVE ShutdownInv'
  BY <1>10 DEF EnqueueReserve, EnqueueFails, ControlReturns, CloseEffect
<1>11. ASSUME NEW a \in Actors, EnqueuePush(a) PROVE ShutdownInv'
  <2>1. CASE EnqueueFails(a, "overloaded") /\ UNCHANGED <<dataQ, controlQ>>
    <3>1. UNCHANGED <<controlQ, writer, handed, stopWriter, reader>>
      BY <1>11, <2>1, PushEffect
    <3>2. CASE a \in Sends
      <4>1. stage' = [stage EXCEPT ![a] = "cleanup"] /\ UNCHANGED open
        BY <2>1, <3>2 DEF EnqueueFails
      <4> QED
        BY <3>1, <3>2, <4>1
    <3>3. CASE a \notin Sends
      <4>1. stage' = [stage EXCEPT ![a] = "done"] /\ ~open'
        BY <2>1, <3>3 DEF EnqueueFails, ControlReturns, CloseEffect
      <4> QED
        BY <3>1, <4>1
    <3> QED
      BY <3>2, <3>3
  <2>2. CASE a \in Sends /\ stage' = [stage EXCEPT ![a] = "wait"] /\ UNCHANGED <<open, controlQ>>
    BY <2>2, <1>11, PushEffect
  <2>3. CASE ControlReturns(a) /\ Range(controlQ') = Range(controlQ) \cup {a} /\ UNCHANGED open
    BY <2>3, <1>11, PushEffect DEF ControlReturns
  <2> QED
    BY <1>11, <2>1, <2>2, <2>3, PushEffect
<1>12. ASSUME NEW m \in Arrivals, HandlerReturns(m) \/ HandlerPanics(m) PROVE ShutdownInv'
  BY <1>12 DEF HandlerReturns, HandlerPanics
<1>13. ASSUME NEW m \in Arrivals, AbortHandler(m) PROVE ShutdownInv'
  BY <1>13 DEF AbortHandler
<1>14. ASSUME NEW m \in Arrivals, ReceiveMessage(m) PROVE ShutdownInv'
  BY <1>14 DEF ReceiveMessage
<1>15. ASSUME NEW b \in Beats, SendHeartbeat(b) PROVE ShutdownInv'
  BY <1>15 DEF SendHeartbeat
<1>16. CASE WriterStops
  BY <1>16 DEF WriterStops
<1>17. CASE WriterTakes
  BY <1>17, TakeEffect
<1>18. CASE WriterSent
  BY <1>18 DEF WriterSent
<1>19. CASE WriterFails
  BY <1>19 DEF WriterFails, CloseEffect
<1>20. CASE WriterEnds
  BY <1>20 DEF WriterEnds, WriterDropped
<1>21. CASE ReaderCloses
  BY <1>21 DEF ReaderCloses
<1>22. CASE HandlersJoined
  BY <1>22 DEF HandlersJoined
<1>23. CASE WriterJoined
  BY <1>23 DEF WriterJoined
<1>24. CASE ShutdownTimeout
  BY <1>24 DEF ShutdownTimeout, WriterDropped
<1>25. CASE DrainPending
  BY <1>25 DEF DrainPending
<1>26. CASE PublishClosed
  BY <1>26 DEF PublishClosed
<1>27. CASE Close
  BY <1>27 DEF Close, CloseEffect
<1>28. CASE StreamEnds
  BY <1>28 DEF StreamEnds, CloseEffect
<1>29. CASE ReceiveIgnored
  BY <1>29 DEF ReceiveIgnored
<1>30. CASE ReceiveOversized
  BY <1>30 DEF ReceiveOversized, CloseEffect
<1>31. CASE UNCHANGED vars
  BY <1>31 DEF vars
<1> QED
  BY StepCases, <1>1, <1>2, <1>3, <1>4, <1>5, <1>6, <1>7, <1>8, <1>9, <1>10, <1>11, <1>12, <1>13, <1>14, <1>15,
     <1>16, <1>17, <1>18, <1>19, <1>20, <1>21, <1>22, <1>23, <1>24, <1>25, <1>26, <1>27, <1>28, <1>29, <1>30, <1>31

----------------------------------------------------------------------------
(* What a call has been told *)

\* At first no call has an outcome.
LEMMA OutcomeInit == Init => OutcomeInv
BY DEF Init, OutcomeInv, Registered, Actors, Range

\* A call gets its outcome when it leaves the registered stages, a local
\* failure only before its frame is queued.
LEMMA OutcomeStep == TypeOK /\ CallInv /\ FrameInv /\ OutcomeInv /\ [Next]_vars => OutcomeInv'
<1> SUFFICES ASSUME TypeOK, CallInv, FrameInv, OutcomeInv, [Next]_vars PROVE OutcomeInv'
  OBVIOUS
<1>0. \A s \in Range(dataQ) \cup handed : stage[s] \in Left
  BY DEF FrameInv, Queue
<1> USE <1>0, LimitsAssumption DEF TypeOK, CallInv, OutcomeInv, Left, Registered, LocalFailures, Actors, Controls, queues, sink, gate, calls, tasks
<1>1. ASSUME NEW s \in Sends, ExchangeRegister(s) PROVE OutcomeInv'
  BY <1>1 DEF ExchangeRegister
<1>2. ASSUME NEW s \in Sends, ExchangeReceive(s) PROVE OutcomeInv'
  BY <1>2 DEF ExchangeReceive, ExchangeSettle
<1>3. ASSUME NEW s \in Sends, ExchangeTimeout(s) PROVE OutcomeInv'
  BY <1>3 DEF ExchangeTimeout, ExchangeSettle
<1>4. ASSUME NEW s \in Sends, ExchangeCleanup(s) PROVE OutcomeInv'
  BY <1>4 DEF ExchangeCleanup
<1>5. ASSUME NEW s \in Sends, ExchangeRefused(s) PROVE OutcomeInv'
  BY <1>5 DEF ExchangeRefused
<1>6. ASSUME NEW s \in Sends, ExchangeReserve(s) PROVE OutcomeInv'
  BY <1>6 DEF ExchangeReserve
<1>7. ASSUME NEW s \in Sends, ExchangeDropped(s) PROVE OutcomeInv'
  BY <1>7 DEF ExchangeDropped, ExchangeSettle
<1>8. ASSUME NEW s \in Sends, NEW outcome \in {"ack", "nak"}, ReceiveReply(s, outcome) PROVE OutcomeInv'
  BY <1>8 DEF ReceiveReply
<1>9. ASSUME NEW a \in Actors, EnqueueCheck(a) PROVE OutcomeInv'
  BY <1>9 DEF EnqueueCheck, EnqueueFails, ControlReturns, CloseEffect
<1>10. ASSUME NEW a \in Actors, EnqueueReserve(a) PROVE OutcomeInv'
  BY <1>10 DEF EnqueueReserve, EnqueueFails, ControlReturns, CloseEffect
<1>11. ASSUME NEW a \in Actors, EnqueuePush(a) PROVE OutcomeInv'
  BY <1>11, PushEffect DEF EnqueueFails, ControlReturns
<1>12. ASSUME NEW m \in Arrivals, HandlerReturns(m) \/ HandlerPanics(m) PROVE OutcomeInv'
  BY <1>12 DEF HandlerReturns, HandlerPanics
<1>13. ASSUME NEW m \in Arrivals, AbortHandler(m) PROVE OutcomeInv'
  BY <1>13 DEF AbortHandler
<1>14. ASSUME NEW m \in Arrivals, ReceiveMessage(m) PROVE OutcomeInv'
  BY <1>14 DEF ReceiveMessage
<1>15. ASSUME NEW b \in Beats, SendHeartbeat(b) PROVE OutcomeInv'
  BY <1>15 DEF SendHeartbeat
<1>16. CASE WriterStops
  BY <1>16 DEF WriterStops
<1>17. CASE WriterTakes
  BY <1>17, TakeEffect
<1>18. CASE WriterSent
  BY <1>18 DEF WriterSent
<1>19. CASE WriterFails
  BY <1>19 DEF WriterFails, CloseEffect
<1>20. CASE WriterEnds
  BY <1>20, NoneQueued DEF WriterEnds, WriterDropped
<1>21. CASE ReaderCloses
  BY <1>21 DEF ReaderCloses
<1>22. CASE HandlersJoined
  BY <1>22 DEF HandlersJoined
<1>23. CASE WriterJoined
  BY <1>23 DEF WriterJoined
<1>24. CASE ShutdownTimeout
  BY <1>24, NoneQueued DEF ShutdownTimeout, WriterDropped
<1>25. CASE DrainPending
  BY <1>25 DEF DrainPending
<1>26. CASE PublishClosed
  BY <1>26 DEF PublishClosed
<1>27. CASE Close
  BY <1>27 DEF Close, CloseEffect
<1>28. CASE StreamEnds
  BY <1>28 DEF StreamEnds, CloseEffect
<1>29. CASE ReceiveIgnored
  BY <1>29 DEF ReceiveIgnored
<1>30. CASE ReceiveOversized
  BY <1>30 DEF ReceiveOversized, CloseEffect
<1>31. CASE UNCHANGED vars
  BY <1>31 DEF vars
<1> QED
  BY StepCases, <1>1, <1>2, <1>3, <1>4, <1>5, <1>6, <1>7, <1>8, <1>9, <1>10, <1>11, <1>12, <1>13, <1>14, <1>15,
     <1>16, <1>17, <1>18, <1>19, <1>20, <1>21, <1>22, <1>23, <1>24, <1>25, <1>26, <1>27, <1>28, <1>29, <1>30, <1>31

----------------------------------------------------------------------------
(* The budgets of the queues *)

\* At first the budgets are untouched.
LEMMA RoomInit == Init => RoomInv
<1> SUFFICES ASSUME Init PROVE RoomInv
  OBVIOUS
<1>1. queuePermits \cap Sends = {} /\ queuePermits \ Sends = {} /\ queuePermits = {}
  BY DEF Init
<1> QED
  BY <1>1, FS_EmptySet, LimitsAssumption DEF RoomInv

\* Permits that are released leave room.
LEMMA RoomKept ==
  ASSUME RoomInv, queuePermits' \subseteq queuePermits
  PROVE  RoomInv'
<1>1. /\ IsFiniteSet(queuePermits \cap Sends) /\ IsFiniteSet(queuePermits \ Sends)
      /\ queuePermits' \cap Sends \in SUBSET (queuePermits \cap Sends)
      /\ queuePermits' \ Sends \in SUBSET (queuePermits \ Sends)
  BY FS_Subset DEF RoomInv
<1>2. /\ Cardinality(queuePermits' \cap Sends) <= Cardinality(queuePermits \cap Sends)
      /\ Cardinality(queuePermits' \ Sends) <= Cardinality(queuePermits \ Sends)
      /\ IsFiniteSet(queuePermits')
  BY <1>1, FS_Subset DEF RoomInv
<1>3. /\ Cardinality(queuePermits \cap Sends) \in Nat /\ Cardinality(queuePermits' \cap Sends) \in Nat
      /\ Cardinality(queuePermits \ Sends) \in Nat /\ Cardinality(queuePermits' \ Sends) \in Nat
  BY <1>1, FS_Subset, FS_CardinalityType
<1> QED
  BY <1>2, <1>3, LimitsAssumption DEF RoomInv

\* A set below the limit has room for one more.
LEMMA OneMore ==
  ASSUME NEW S, NEW x, IsFiniteSet(S), NEW limit \in Nat, Cardinality(S) < limit
  PROVE  Cardinality(S \cup {x}) <= limit
<1>1. Cardinality(S) \in Nat
  BY FS_CardinalityType
<1>2. Cardinality(S \cup {x}) = Cardinality(S) \/ Cardinality(S \cup {x}) = Cardinality(S) + 1
  BY FS_AddElement
<1> QED
  BY <1>1, <1>2

\* A permit that is taken finds room in its queue's budget.
LEMMA RoomTaken ==
  ASSUME RoomInv, NEW a \in Actors, QueueRoom(a), queuePermits' = queuePermits \cup {a}
  PROVE  RoomInv'
<1>1. IsFiniteSet(queuePermits \cap Sends) /\ IsFiniteSet(queuePermits \ Sends) /\ IsFiniteSet(queuePermits')
  BY FS_Subset, FS_AddElement DEF RoomInv
<1>2. CASE a \in Sends
  <2>1. /\ queuePermits' \cap Sends = (queuePermits \cap Sends) \cup {a}
        /\ queuePermits' \ Sends = queuePermits \ Sends
        /\ Cardinality(queuePermits \cap Sends) < QueueLimit
    BY <1>2 DEF QueueRoom, UsesDataQueue
  <2>2. Cardinality((queuePermits \cap Sends) \cup {a}) <= QueueLimit
    BY <1>1, <2>1, OneMore, LimitsAssumption
  <2> QED
    BY <1>1, <2>1, <2>2 DEF RoomInv
<1>3. CASE a \notin Sends
  <2>1. /\ queuePermits' \ Sends = (queuePermits \ Sends) \cup {a}
        /\ queuePermits' \cap Sends = queuePermits \cap Sends
        /\ Cardinality(queuePermits \ Sends) < ControlLimit
    BY <1>3 DEF QueueRoom, UsesDataQueue
  <2>2. Cardinality((queuePermits \ Sends) \cup {a}) <= ControlLimit
    BY <1>1, <2>1, OneMore, LimitsAssumption
  <2> QED
    BY <1>1, <2>1, <2>2 DEF RoomInv
<1> QED
  BY <1>2, <1>3

\* Only a reservation adds to the permits, below the limit.
LEMMA RoomStep == RoomInv /\ [Next]_vars => RoomInv'
<1> SUFFICES ASSUME RoomInv, [Next]_vars PROVE RoomInv'
  OBVIOUS
<1>1. ASSUME NEW a \in Actors, EnqueueReserve(a) PROVE RoomInv'
  BY <1>1, RoomKept, RoomTaken DEF EnqueueReserve
<1>2. ASSUME NEW a \in Actors, EnqueueCheck(a) \/ EnqueuePush(a) PROVE RoomInv'
  BY <1>2, RoomKept DEF EnqueueCheck, EnqueuePush, queues
<1>3. CASE WriterTakes \/ WriterSent \/ WriterEnds \/ ShutdownTimeout
  BY <1>3, RoomKept DEF WriterTakes, WriterSent, WriterEnds, ShutdownTimeout, WriterDropped
<1>4. CASE UNCHANGED queuePermits
  BY <1>4, RoomKept
<1>5. \/ UNCHANGED queuePermits
      \/ \E a \in Actors : EnqueueCheck(a) \/ EnqueueReserve(a) \/ EnqueuePush(a)
      \/ WriterTakes \/ WriterSent \/ WriterEnds \/ ShutdownTimeout
  BY StepCases DEF queues, vars, ExchangeRegister, ExchangeReceive, ExchangeTimeout, ExchangeSettle,
     ExchangeCleanup, ExchangeRefused, ExchangeReserve, ExchangeDropped, ReceiveReply,
     HandlerReturns, HandlerPanics, AbortHandler, ReceiveMessage, SendHeartbeat, WriterStops, WriterFails,
     ReaderCloses, HandlersJoined, WriterJoined, DrainPending, PublishClosed,
     Close, StreamEnds, ReceiveIgnored, ReceiveOversized
<1> QED
  BY <1>1, <1>2, <1>3, <1>4, <1>5

----------------------------------------------------------------------------
(* The invariants *)

\* The invariants above, together.
FramesSafe == FrameInv /\ HandlerInv /\ RoomInv /\ ShutdownInv /\ OutcomeInv

\* The session invariant: the types, the calls, the frames, the handlers and the
\* shutdown, in every reachable state.
THEOREM SessionInvariant == Spec => [](TypeOK /\ CallInv /\ FramesSafe)
<1>1. Init => FramesSafe
  BY FrameInit, HandlerInit, RoomInit, ShutdownInit, OutcomeInit DEF FramesSafe
<1>2. TypeOK /\ CallInv /\ FramesSafe /\ [Next]_vars => FramesSafe'
  BY FrameStep, HandlerStep, RoomStep, ShutdownStep, OutcomeStep DEF FramesSafe
<1> QED
  BY <1>1, <1>2, TypeCorrect, CallsSafe, PTL DEF Spec

\* Every permit has one live owner, on each of the paths a call, a message or a
\* frame can take.
THEOREM PermitsAreOwned == Spec => []PermitsMatchOwners
<1>1. CallInv /\ FramesSafe => PermitsMatchOwners
  BY DEF CallInv, FramesSafe, FrameInv, HandlerInv, Queue, PermitsMatchOwners
<1> QED
  BY <1>1, SessionInvariant, PTL

\* try_send never reports an overload the budget did not: the frames in a queue
\* hold permits of its budget, one each, and so does the frame that is pushed.
THEOREM SlotForAdmitted == Spec => []AdmittedHasSlot
<1>1. ASSUME TypeOK, FramesSafe PROVE AdmittedHasSlot
  <2> SUFFICES ASSUME NEW a \in Actors, stage[a] = "push", writer # "done"
               PROVE  HasSlot(a)
    BY DEF AdmittedHasSlot
  <2> USE <1>1 DEF FramesSafe
  <2>1. /\ a \in queuePermits /\ a \notin Queue /\ Queue \subseteq queuePermits
        /\ Range(dataQ) \subseteq Sends /\ Range(controlQ) \cap Sends = {}
    BY LimitsAssumption DEF FrameInv, Left, TypeOK, Range, Queue
  <2>2. /\ Cardinality(Range(dataQ)) = Len(dataQ) /\ IsFiniteSet(Range(dataQ))
        /\ Cardinality(Range(controlQ)) = Len(controlQ) /\ IsFiniteSet(Range(controlQ))
        /\ Len(dataQ) \in Nat /\ Len(controlQ) \in Nat
    BY Counted DEF FrameInv, TypeOK
  <2>3. ASSUME NEW S, S \subseteq queuePermits, NEW Q, Q \subseteq S, a \in S, a \notin Q, IsFiniteSet(Q)
        PROVE  /\ Cardinality(Q) + 1 <= Cardinality(S) /\ Cardinality(S) \in Nat
    <3>1. Q \cup {a} \in SUBSET S /\ IsFiniteSet(S) /\ Cardinality(Q) \in Nat
      BY <2>3, FS_Subset, FS_CardinalityType DEF RoomInv
    <3>2. Cardinality(Q \cup {a}) = Cardinality(Q) + 1
      BY <2>3, FS_AddElement
    <3> QED
      BY <3>1, <3>2, FS_Subset, FS_CardinalityType
  <2>4. CASE a \in Sends
    <3>1. Len(dataQ) + 1 <= Cardinality(queuePermits \cap Sends) /\ Cardinality(queuePermits \cap Sends) \in Nat
      BY <2>1, <2>2, <2>3, <2>4 DEF Queue
    <3> QED
      BY <2>2, <2>4, <3>1, LimitsAssumption DEF RoomInv, HasSlot, UsesDataQueue, Capacity
  <2>5. CASE a \notin Sends
    <3>1. Len(controlQ) + 1 <= Cardinality(queuePermits \ Sends) /\ Cardinality(queuePermits \ Sends) \in Nat
      BY <2>1, <2>2, <2>3, <2>5 DEF Queue
    <3> QED
      BY <2>2, <2>5, <3>1, LimitsAssumption DEF RoomInv, HasSlot, UsesDataQueue, Capacity
  <2> QED
    BY <2>4, <2>5
<1> QED
  BY <1>1, SessionInvariant, PTL

\* An open session has lost no answer and no heartbeat it owes its peer.
THEOREM RepliesAreKept == Spec => []NoReplyLost
<1>1. FramesSafe => NoReplyLost
  BY DEF FramesSafe, ShutdownInv
<1> QED
  BY <1>1, SessionInvariant, PTL

\* What failed locally was not sent, so that it may be retried.
THEOREM LocalFailureIsUnsent == Spec => []LocalFailureNeverSent
<1>1. FramesSafe => LocalFailureNeverSent
  BY DEF FramesSafe, OutcomeInv, LocalFailureNeverSent
<1> QED
  BY <1>1, SessionInvariant, PTL

\* A closed session has stopped: no handler, no writer, nothing queued, and no
\* permits but those of calls on their way out.
THEOREM ClosedIsQuiescent == Spec => []QuiescentWhenClosed
<1>1. ASSUME TypeOK, FramesSafe PROVE QuiescentWhenClosed
  <2> SUFFICES ASSUME Closed
               PROVE  /\ writer = "done" /\ ~open
                      /\ \A m \in Arrivals : Joined(m)
                      /\ handlerPermits = {}
                      /\ queuePermits \subseteq {a \in Actors : stage[a] = "push"}
    BY DEF QuiescentWhenClosed
  <2>1. writer = "done" /\ ~open /\ \A m \in Arrivals : Joined(m)
    BY <1>1 DEF Closed, FramesSafe, ShutdownInv
  <2>2. handlerPermits = {}
    BY <1>1, <2>1 DEF FramesSafe, HandlerInv, Joined
  <2>3. Queue = {} /\ writing = NoFrame
    BY <1>1, <2>1, NoneQueued DEF FramesSafe, FrameInv, Queue
  <2>4. queuePermits \subseteq {a \in Actors : stage[a] = "push"}
    BY <1>1, <2>3 DEF FramesSafe, FrameInv
  <2> QED
    BY <2>1, <2>2, <2>4
<1> QED
  BY <1>1, SessionInvariant, PTL

----------------------------------------------------------------------------
(* Session implements SessionApi *)

\* What SessionApi knows of one call.
Told(s) ==
    IF result[s] # "none" THEN OutcomeClass(result[s])
    ELSE IF slot[s] # "none" THEN OutcomeClass(slot[s])
    ELSE IF s \in pending THEN "waiting" ELSE "none"

\* The phase only ever moves from open to closing while nothing is drained.
LEMMA GateMaps ==
  ASSUME CallInv, CallInv', TypeOK, TypeOK', open' => open,
         reader' = reader \/ {reader, reader'} \cap {"publish", "closed"} = {}
  PROVE  UNCHANGED ApiPhase \/ (ApiPhase = "open" /\ ApiPhase' = "closing")
<1>1. open => reader = "run"
  BY DEF CallInv
<1>2. open' => reader' = "run"
  BY DEF CallInv
<1>3. CASE open /\ open'
  BY <1>1, <1>2, <1>3 DEF ApiPhase
<1>4. CASE open /\ ~open'
  BY <1>1, <1>4 DEF ApiPhase
<1>5. CASE ~open /\ ~open'
  BY <1>5 DEF ApiPhase
<1> QED
  BY <1>3, <1>4, <1>5

\* A step that tells no call anything is a close or a stutter of SessionApi.
LEMMA GateStep ==
  ASSUME CallInv, CallInv', TypeOK, TypeOK', open' => open,
         reader' = reader \/ {reader, reader'} \cap {"publish", "closed"} = {},
         \A s \in Sends : Told(s)' = Told(s)
  PROVE  [Api!Next]_(Api!vars)
<1>1. UNCHANGED ApiOutcome
  BY DEF ApiOutcome, Told
<1> QED
  BY <1>1, GateMaps DEF Api!Next, Api!Close, Api!vars

\* A step that tells one call something new.
LEMMA CallStep ==
  ASSUME UNCHANGED ApiPhase, NEW s \in Sends,
         \A r \in Sends \ {s} : Told(r)' = Told(r),
         \/ Told(s)' = Told(s)
         \/ ApiPhase = "open" /\ Told(s) = "none" /\ Told(s)' = "waiting"
         \/ Told(s) = "none" /\ Told(s)' = "unavailable"
         \/ Told(s) = "waiting" /\ Told(s)' \in {"peer", "timeout", "unavailable"}
         \/ Told(s) \in {"waiting", "peer", "unavailable"} /\ Told(s)' = "dropped"
  PROVE  [Api!Next]_(Api!vars)
<1>1. ApiOutcome' = [ApiOutcome EXCEPT ![s] = Told(s)'] /\ ApiOutcome[s] = Told(s)
  BY DEF ApiOutcome, Told
<1>2. CASE Told(s)' = Told(s)
  BY <1>2 DEF ApiOutcome, Told, Api!vars
<1>3. CASE ApiPhase = "open" /\ Told(s) = "none" /\ Told(s)' = "waiting"
  BY <1>1, <1>3 DEF Api!Next, Api!Register
<1>4. CASE Told(s) = "none" /\ Told(s)' = "unavailable"
  BY <1>1, <1>4 DEF Api!Next, Api!Refuse
<1>5. CASE Told(s) = "waiting" /\ Told(s)' \in {"peer", "timeout", "unavailable"}
  BY <1>1, <1>5 DEF Api!Next, Api!Settle
<1>6. CASE Told(s) \in {"waiting", "peer", "unavailable"} /\ Told(s)' = "dropped"
  BY <1>1, <1>6 DEF Api!Next, Api!Abandon
<1> QED
  BY <1>2, <1>3, <1>4, <1>5, <1>6

\* finish_close fails every call that still waits.
LEMMA DrainStep ==
  ASSUME TypeOK, CallInv, OutcomeInv, DrainPending
  PROVE  [Api!Next]_(Api!vars)
<1>1. ApiPhase = "closing" /\ ApiPhase' = "drained"
  BY DEF DrainPending, ApiPhase, CallInv
<1>2. ASSUME NEW s \in Sends
      PROVE  Told(s)' = IF Told(s) = "waiting" THEN "unavailable" ELSE Told(s)
  <2>1. result' = result /\ pending' = {} /\ slot'[s] = IF s \in pending THEN "closed" ELSE slot[s]
    BY DEF DrainPending
  <2>2. /\ result[s] \in Results /\ slot[s] \in {"none", "ack", "nak", "closed"}
        /\ s \in pending => slot[s] = "none"
    BY DEF TypeOK, OutcomeInv
  <2> QED
    BY <2>1, <2>2 DEF Told, OutcomeClass, LocalFailures, Results
<1>3. ApiOutcome' = [s \in Sends |-> IF ApiOutcome[s] = "waiting" THEN "unavailable" ELSE ApiOutcome[s]]
  BY <1>2 DEF ApiOutcome, Told
<1> QED
  BY <1>1, <1>3 DEF Api!Next, Api!FailWaiting

\* Every step is one of SessionApi or changes nothing its callers can see.
LEMMA ApiStep ==
  ASSUME TypeOK, CallInv, FramesSafe, [Next]_vars, TypeOK', CallInv'
  PROVE  [Api!Next]_(Api!vars)
<1>0. OutcomeInv /\ FrameInv /\ \A s \in Sends : stage[s] \in {"idle", "admitted"} => s \notin pending
  BY DEF FramesSafe, CallInv, Registered
<1> USE <1>0, LimitsAssumption DEF gate, calls, queues, sink, tasks
<1>1. ASSUME NEW s \in Sends, ExchangeRegister(s) PROVE [Api!Next]_(Api!vars)
  <2>1. UNCHANGED ApiPhase
    BY <1>1 DEF ExchangeRegister, ApiPhase
  <2>2. /\ stage[s] = "admitted" /\ slot' = slot
        /\ \/ open /\ pending' = pending \cup {s} /\ result' = result
           \/ pending' = pending /\ result' = [result EXCEPT ![s] = "not_open"]
    BY <1>1 DEF ExchangeRegister
  <2>3. Told(s) = "none" /\ \A r \in Sends \ {s} : Told(r)' = Told(r)
    BY <2>2 DEF TypeOK, OutcomeInv, Told
  <2>4. \/ ApiPhase = "open" /\ Told(s)' = "waiting"
        \/ Told(s)' = "unavailable"
    BY <2>2 DEF TypeOK, CallInv, OutcomeInv, Told, OutcomeClass, LocalFailures, ApiPhase
  <2> QED
    BY <2>1, <2>3, <2>4, CallStep
<1>2. ASSUME NEW s \in Sends, ExchangeReceive(s) PROVE [Api!Next]_(Api!vars)
  <2>1. UNCHANGED ApiPhase
    BY <1>2 DEF ExchangeReceive, ExchangeSettle, ApiPhase
  <2>2. /\ stage[s] = "wait" /\ result' = [result EXCEPT ![s] = slot[s]] /\ UNCHANGED <<slot, pending>>
        /\ slot[s] # "none"
    BY <1>2 DEF ExchangeReceive, ExchangeSettle
  <2>3. \A r \in Sends \ {s} : Told(r)' = Told(r)
    BY <2>2 DEF TypeOK, Told
  <2>4. result[s] = "none" /\ (s \in pending \/ slot[s] # "none") /\ slot[s] \in {"none", "ack", "nak", "closed"}
    BY <2>2 DEF TypeOK, CallInv, OutcomeInv, Registered
  <2>5. result'[s] = slot[s]
    BY <2>2 DEF TypeOK
  <2>6. Told(s)' = Told(s)
    BY <2>2, <2>4, <2>5 DEF Told, OutcomeClass, LocalFailures
  <2> QED
    BY <2>1, <2>3, <2>6, CallStep
<1>3. ASSUME NEW s \in Sends, ExchangeTimeout(s) PROVE [Api!Next]_(Api!vars)
  <2>1. UNCHANGED ApiPhase
    BY <1>3 DEF ExchangeTimeout, ExchangeSettle, ApiPhase
  <2>2. /\ stage[s] = "wait" /\ result' = [result EXCEPT ![s] = "timeout"] /\ UNCHANGED <<slot, pending>>
        /\ slot[s] = "none"
    BY <1>3 DEF ExchangeTimeout, ExchangeSettle
  <2>3. \A r \in Sends \ {s} : Told(r)' = Told(r)
    BY <2>2 DEF TypeOK, Told
  <2>4. result[s] = "none" /\ (s \in pending \/ slot[s] # "none") /\ slot[s] \in {"none", "ack", "nak", "closed"}
    BY <2>2 DEF TypeOK, CallInv, OutcomeInv, Registered
  <2>5. result'[s] = "timeout"
    BY <2>2 DEF TypeOK
  <2>6. Told(s) = "waiting" /\ Told(s)' = "timeout"
    BY <2>2, <2>4, <2>5 DEF Told, OutcomeClass, LocalFailures
  <2> QED
    BY <2>1, <2>3, <2>6, CallStep
<1>4. ASSUME NEW s \in Sends, ExchangeCleanup(s) PROVE [Api!Next]_(Api!vars)
  <2>1. UNCHANGED ApiPhase
    BY <1>4 DEF ExchangeCleanup, ApiPhase
  <2> QED
    BY <1>4, <2>1, CallStep DEF ExchangeCleanup, TypeOK, OutcomeInv, Actors, Told, OutcomeClass, LocalFailures, Results
<1>5. ASSUME NEW s \in Sends, ExchangeRefused(s) PROVE [Api!Next]_(Api!vars)
  <2>1. UNCHANGED ApiPhase
    BY <1>5 DEF ExchangeRefused, ApiPhase
  <2> QED
    BY <1>5, <2>1, CallStep DEF ExchangeRefused, TypeOK, OutcomeInv, Actors, Told, OutcomeClass, LocalFailures, Results
<1>6. ASSUME NEW s \in Sends, ExchangeReserve(s) PROVE [Api!Next]_(Api!vars)
  <2>1. UNCHANGED ApiPhase
    BY <1>6 DEF ExchangeReserve, ApiPhase
  <2> QED
    BY <1>6, <2>1, CallStep DEF ExchangeReserve, TypeOK, OutcomeInv, Actors, Told, OutcomeClass, LocalFailures, Results
<1>7. ASSUME NEW s \in Sends, ExchangeDropped(s) PROVE [Api!Next]_(Api!vars)
  <2>1. UNCHANGED ApiPhase
    BY <1>7 DEF ExchangeDropped, ExchangeSettle, ApiPhase
  <2>2. /\ stage[s] = "wait" /\ result' = [result EXCEPT ![s] = "dropped"] /\ UNCHANGED <<slot, pending>>
    BY <1>7 DEF ExchangeDropped, ExchangeSettle
  <2>3. \A r \in Sends \ {s} : Told(r)' = Told(r)
    BY <2>2 DEF TypeOK, Told
  <2>4. result[s] = "none" /\ (s \in pending \/ slot[s] # "none") /\ slot[s] \in {"none", "ack", "nak", "closed"}
    BY <2>2 DEF TypeOK, CallInv, OutcomeInv, Registered
  <2>5. result'[s] = "dropped"
    BY <2>2 DEF TypeOK
  <2>6. Told(s) \in {"waiting", "peer", "unavailable"} /\ Told(s)' = "dropped"
    BY <2>2, <2>4, <2>5 DEF Told, OutcomeClass, LocalFailures
  <2> QED
    BY <2>1, <2>3, <2>6, CallStep
<1>8. ASSUME NEW s \in Sends, NEW outcome \in {"ack", "nak"}, ReceiveReply(s, outcome) PROVE [Api!Next]_(Api!vars)
  <2>1. UNCHANGED ApiPhase
    BY <1>8 DEF ReceiveReply, ApiPhase
  <2> QED
    BY <1>8, <2>1, CallStep DEF ReceiveReply, TypeOK, OutcomeInv, Actors, Told, OutcomeClass, LocalFailures, Results
<1>9. ASSUME NEW a \in Actors, EnqueueCheck(a) \/ EnqueueReserve(a) \/ EnqueuePush(a)
      PROVE  [Api!Next]_(Api!vars)
  <2>1. UNCHANGED <<slot, pending, reader>> /\ stage[a] \in {"check", "reserve", "push"}
    BY <1>9, PushEffect DEF EnqueueCheck, EnqueueReserve
  <2>2. CASE UNCHANGED result
    <3>1. open' => open
      BY <1>9 DEF EnqueueCheck, EnqueueReserve, EnqueuePush, EnqueueFails, CloseEffect
    <3> QED
      BY <2>1, <2>2, <3>1, GateStep DEF Told
  <2>3. CASE result' # result
    <3>1. /\ a \in Sends /\ UNCHANGED open
          /\ \E why \in LocalFailures : result' = [result EXCEPT ![a] = why]
      BY <1>9, <2>3 DEF EnqueueCheck, EnqueueReserve, EnqueuePush, EnqueueFails, LocalFailures
    <3>2. \A r \in Sends \ {a} : Told(r)' = Told(r)
      BY <2>1, <3>1 DEF TypeOK, Told
    <3>3. /\ result[a] = "none" /\ slot[a] \in {"none", "closed"} /\ result'[a] \in LocalFailures
          /\ a \in pending \/ slot[a] # "none"
      BY <2>1, <3>1 DEF TypeOK, OutcomeInv, CallInv, Registered
    <3>4. Told(a) \in {"waiting", "unavailable"} /\ Told(a)' = "unavailable"
      BY <3>3 DEF Told, OutcomeClass, LocalFailures
    <3>5. UNCHANGED ApiPhase
      BY <2>1, <3>1 DEF ApiPhase
    <3> QED
      BY <3>1, <3>2, <3>4, <3>5, CallStep
  <2> QED
    BY <2>2, <2>3
<1>10. CASE \/ \E m \in Arrivals : HandlerReturns(m) \/ HandlerPanics(m) \/ AbortHandler(m) \/ ReceiveMessage(m)
            \/ \E b \in Beats : SendHeartbeat(b)
            \/ WriterStops \/ WriterTakes \/ WriterSent \/ WriterFails \/ WriterEnds
            \/ Close \/ ReceiveIgnored \/ ReceiveOversized
            \/ UNCHANGED vars
  <2>1. UNCHANGED <<result, slot, pending, reader>> /\ (open' => open)
    BY <1>10 DEF HandlerReturns, HandlerPanics, AbortHandler, ReceiveMessage, SendHeartbeat, WriterStops, WriterTakes,
       WriterSent, WriterFails, WriterEnds, Close, CloseEffect, ReceiveIgnored, ReceiveOversized, vars
  <2> QED
    BY <2>1, GateStep DEF Told
<1>11. CASE ReaderCloses \/ StreamEnds
  BY <1>11, GateStep DEF ReaderCloses, StreamEnds, CloseEffect, Reading, Told
<1>12. CASE HandlersJoined \/ WriterJoined \/ ShutdownTimeout
  BY <1>12, GateStep DEF HandlersJoined, WriterJoined, ShutdownTimeout, Told
<1>13. CASE PublishClosed
  <2>1. ApiPhase = "drained" /\ ApiPhase' = "closed" /\ UNCHANGED ApiOutcome
    BY <1>13 DEF PublishClosed, ApiPhase, ApiOutcome
  <2> QED
    BY <2>1 DEF Api!Next, Api!Publish
<1> QED
  BY StepCases, DrainStep, <1>1, <1>2, <1>3, <1>4, <1>5, <1>6, <1>7, <1>8, <1>9, <1>10, <1>11, <1>12, <1>13

\* A session keeps the promises of SessionApi: a call is registered only on an
\* open session and ends in exactly one way, and a drained session leaves none
\* waiting.
THEOREM SessionImplementsApi == Spec => ImplementsApi
<1>1. Init => Api!Init
  BY LimitsAssumption DEF Init, Api!Init, ApiPhase, ApiOutcome
<1>2. /\ TypeOK /\ CallInv /\ FramesSafe /\ [Next]_vars /\ (TypeOK /\ CallInv /\ FramesSafe)'
      => [Api!Next]_(Api!vars)
  BY ApiStep
<1> QED
  BY <1>1, <1>2, SessionInvariant, PTL DEF Spec, ImplementsApi, Api!Spec
=============================================================================
