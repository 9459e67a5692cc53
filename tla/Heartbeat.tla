----------------------------- MODULE Heartbeat -----------------------------
(***************************************************************************)
(* The heartbeat of a VCMP connection: HeartbeatState, initiate_heartbeat, *)
(* expect_heartbeat, send_heartbeat and handle_heartbeat of session.rs, run *)
(* by the two ends of one connection.                                      *)
(*                                                                         *)
(* Time is discrete.  A timer is the number of ticks until it is due; a due *)
(* timer fires at once or up to Jitter ticks late.  A frame needs at most  *)
(* MaxDelay ticks from the control queue of one end to the reader of the   *)
(* other.  The connection may be cut silently: nothing arrives any more and *)
(* no end is told.                                                         *)
(***************************************************************************)
EXTENDS Integers, Sequences

CONSTANTS
    Server,             \* the end that initiates (serve_session)
    Client,             \* the end that expects (VcmpClient::run)
    AlsoInitiates,      \* does the client's application initiate as well?
    Interval,           \* per end: heartbeat_interval, carried by the HBTs it starts
    ExpectTimeout,      \* initial_heartbeat_timeout
    MaxDelay, Jitter

Ends == {Server, Client}

\* The longer of the two intervals, if the client has one.
Slow == IF AlsoInitiates /\ Interval[Client] > Interval[Server] THEN Interval[Client]
                                                               ELSE Interval[Server]

\* The watchdog of a heartbeat lasts two of its intervals.  Its echo may be
\* replaced by that of a heartbeat with the other end's interval, which has to
\* arrive before: a round trip and both delays within the watchdog.  One armed
\* after the answer has arrived is only replaced by that of the next heartbeat,
\* which the end sends after the interval it has received, in three late steps.
ASSUME TimingAssumption ==
    /\ Server # Client
    /\ AlsoInitiates \in BOOLEAN
    /\ Interval \in [Ends -> Nat \ {0}] /\ ExpectTimeout \in Nat
    /\ MaxDelay \in Nat /\ Jitter \in Nat
    /\ \A p \in Ends :
          /\ Slow + 2 * (MaxDelay + Jitter) < 2 * Interval[p]
          /\ Slow + 3 * Jitter < 2 * Interval[p]
    /\ MaxDelay + 2 * Jitter < ExpectTimeout

VARIABLES
    open,       \* is_open() of each end
    awaiting,   \* HeartbeatState::awaiting
    watchdog,   \* HeartbeatState::watchdog, ticks until it is due
    echo,       \* HeartbeatState::echo, ticks until it is due
    echoed,     \* the interval that echo carries and was due after
    sending,    \* the interval of the current send_heartbeat
    received,   \* heartbeats_received # 0
    step,       \* progress of initiate_heartbeat / send_heartbeat / expect_heartbeat
    mayInitiate,\* the application of the client has an initiate_heartbeat left
    lag,        \* ticks the current step of send_heartbeat has been delayed
    wire,       \* per receiver: the heartbeats on their way, with their ages
    cut,        \* the connection is dead
    silence     \* ticks since then

timers == <<watchdog, echo, echoed>>
progress == <<step, sending, lag>>
vars == <<open, awaiting, timers, received, progress, mayInitiate, wire, cut, silence>>

\* No timer; below every due timer.
Off == -Jitter - 1

Due(timer) == timer # Off /\ timer <= 0

Other(p) == IF p = Server THEN Client ELSE Server

\* The longest silence a live end sits through: a heartbeat arrives, its echo is
\* due after one interval, and the watchdog armed then after two more; or the
\* initial timeout.  Each step in between may be late.
DetectionBound ==
    LET regular == 3 * Slow + 4 * Jitter
        initial == ExpectTimeout + 2 * Jitter
    IN  IF initial > regular THEN initial ELSE regular

----------------------------------------------------------------------------
Init ==
    /\ open = [p \in Ends |-> TRUE]
    /\ awaiting = [p \in Ends |-> TRUE]
    /\ watchdog = [p \in Ends |-> Off]
    /\ echo = [p \in Ends |-> Off] /\ echoed = [p \in Ends |-> 0]
    /\ received = [p \in Ends |-> FALSE]
    /\ step = [p \in Ends |-> "start"] /\ sending = [p \in Ends |-> 0]
    /\ mayInitiate = AlsoInitiates
    /\ lag = [p \in Ends |-> 0]
    /\ wire = [p \in Ends |-> <<>>]
    /\ cut = FALSE
    /\ silence = 0

Goto(p, s, interval) ==
    /\ step' = [step EXCEPT ![p] = s]
    /\ sending' = [sending EXCEPT ![p] = interval]
    /\ lag' = [lag EXCEPT ![p] = 0]

\* send_heartbeat: nothing on a session that is not open, else `awaiting` is set
\* under the lock.
Send(p, interval) ==
    IF open[p]
      THEN Goto(p, "write", interval) /\ awaiting' = [awaiting EXCEPT ![p] = TRUE]
      ELSE Goto(p, "idle", 0) /\ UNCHANGED awaiting

\* serve_session initiates; the application at the other end may, once and
\* while the connection works, with an interval of its own.
Initiate(p) ==
    /\ \/ p = Server /\ step[p] = "start"
       \/ p = Client /\ step[p] = "idle" /\ mayInitiate /\ ~cut
    /\ mayInitiate' = (mayInitiate /\ p = Server)
    /\ Send(p, Interval[p])
    /\ UNCHANGED <<open, timers, received, wire, cut, silence>>

\* The echo timer of handle_heartbeat.
EchoFires(p) ==
    /\ Due(echo[p])
    /\ step[p] = "idle"
    /\ echo' = [echo EXCEPT ![p] = Off] /\ echoed' = [echoed EXCEPT ![p] = 0]
    /\ Send(p, echoed[p])
    /\ UNCHANGED <<open, watchdog, received, wire, cut, mayInitiate, silence>>

\* The frame is queued.  On a cut connection it goes nowhere.
Write(p) ==
    /\ step[p] = "write"
    /\ wire' = IF cut THEN wire
                      ELSE [wire EXCEPT ![Other(p)] = Append(@, [interval |-> sending[p], age |-> 0])]
    /\ Goto(p, "arm", sending[p])
    /\ UNCHANGED <<open, awaiting, timers, received, cut, mayInitiate, silence>>

\* Mutation: only the initial watchdog is ever armed.
Arm_Never(p) ==
    /\ step[p] = "arm"
    /\ Goto(p, "idle", 0)
    /\ UNCHANGED <<open, awaiting, timers, received, wire, cut, mayInitiate, silence>>

\* The watchdog is armed after the write, in a critical section of its own.
Arm(p) ==
    /\ step[p] = "arm"
    /\ watchdog' = [watchdog EXCEPT ![p] = 2 * sending[p]]
    /\ Goto(p, "idle", 0)
    /\ UNCHANGED <<open, awaiting, echo, echoed, received, wire, cut, mayInitiate, silence>>

\* Mutation: the initial watchdog is armed even when a heartbeat was received.
Expect_Stale(p) ==
    /\ p = Client /\ step[p] = "start"
    /\ watchdog' = [watchdog EXCEPT ![p] = ExpectTimeout]
    /\ Goto(p, "idle", 0)
    /\ UNCHANGED <<open, awaiting, echo, echoed, received, wire, cut, mayInitiate, silence>>

\* expect_heartbeat, which may run after the first heartbeat was handled.
Expect(p) ==
    /\ p = Client /\ step[p] = "start"
    /\ watchdog' = IF open[p] /\ ~received[p] THEN [watchdog EXCEPT ![p] = ExpectTimeout]
                                              ELSE watchdog
    /\ Goto(p, "idle", 0)
    /\ UNCHANGED <<open, awaiting, echo, echoed, received, wire, cut, mayInitiate, silence>>

\* handle_heartbeat: a heartbeat that is unexpected or has no interval is
\* ignored; an expected one stops the watchdog and schedules an echo with its
\* interval, replacing an earlier echo.
Receive(p) ==
    /\ open[p] /\ ~cut /\ wire[p] # <<>>
    /\ wire' = [wire EXCEPT ![p] = Tail(@)]
    /\ LET interval == Head(wire[p]).interval
       IN  IF interval # 0 /\ awaiting[p]
             THEN /\ awaiting' = [awaiting EXCEPT ![p] = FALSE]
                  /\ received' = [received EXCEPT ![p] = TRUE]
                  /\ watchdog' = [watchdog EXCEPT ![p] = Off]
                  /\ echo' = [echo EXCEPT ![p] = interval]
                  /\ echoed' = [echoed EXCEPT ![p] = interval]
             ELSE UNCHANGED <<awaiting, received, timers>>
    /\ UNCHANGED <<open, progress, cut, mayInitiate, silence>>

\* The watchdog closes the session.
WatchdogFires(p) ==
    /\ Due(watchdog[p])
    /\ watchdog' = [watchdog EXCEPT ![p] = Off]
    /\ open' = [open EXCEPT ![p] = FALSE]
    /\ UNCHANGED <<awaiting, echo, echoed, received, progress, mayInitiate, wire, cut, silence>>

\* finish_close cancels both timers.
CancelTimers(p) ==
    /\ ~open[p]
    /\ watchdog[p] # Off \/ echo[p] # Off
    /\ watchdog' = [watchdog EXCEPT ![p] = Off]
    /\ echo' = [echo EXCEPT ![p] = Off] /\ echoed' = [echoed EXCEPT ![p] = 0]
    /\ UNCHANGED <<open, awaiting, received, progress, mayInitiate, wire, cut, silence>>

\* Every frame on its way is lost and so is every later one.
Cut ==
    /\ ~cut
    /\ cut' = TRUE
    /\ wire' = [p \in Ends |-> <<>>]
    /\ UNCHANGED <<open, awaiting, timers, received, progress, mayInitiate, silence>>

\* Time passes unless a frame, a timer or a step is as late as it may be.
Tick ==
    /\ silence <= DetectionBound
    /\ \A p \in Ends :
          /\ watchdog[p] = Off \/ watchdog[p] > -Jitter
          /\ echo[p] = Off \/ echo[p] > -Jitter
          /\ step[p] # "idle" => lag[p] < Jitter
          /\ \A i \in 1..Len(wire[p]) : wire[p][i].age < MaxDelay
    /\ watchdog' = [p \in Ends |-> IF watchdog[p] = Off THEN Off ELSE watchdog[p] - 1]
    /\ echo' = [p \in Ends |-> IF echo[p] = Off THEN Off ELSE echo[p] - 1]
    /\ lag' = [p \in Ends |-> IF step[p] = "idle" THEN 0 ELSE lag[p] + 1]
    /\ wire' = [p \in Ends |-> [i \in 1..Len(wire[p]) |-> [wire[p][i] EXCEPT !.age = @ + 1]]]
    /\ silence' = IF cut THEN silence + 1 ELSE silence
    /\ UNCHANGED <<open, awaiting, echoed, received, step, sending, mayInitiate, cut>>

Next ==
    \/ \E p \in Ends :
          \/ Initiate(p) \/ EchoFires(p) \/ Write(p) \/ Arm(p)
          \/ Expect(p) \/ Receive(p) \/ WatchdogFires(p) \/ CancelTimers(p)
    \/ Cut
    \/ Tick

Spec == Init /\ [][Next]_vars

----------------------------------------------------------------------------
(* Properties *)

\* While the connection works no watchdog closes a session: neither a stale one,
\* armed before or after the heartbeat it was meant for, nor a regular one, nor
\* the short one of a heartbeat whose echo an end that initiated with a longer
\* interval has put off (TimingAssumption says how much longer it may be).
NoFalseClose == ~cut => \A p \in Ends : open[p]

\* A dead connection is noticed at both ends within three of the longer
\* intervals (or the initial timeout): at no point is an open end without a timer that leads there.
DeadPeerDetected == \A p \in Ends : open[p] => silence <= DetectionBound
=============================================================================
