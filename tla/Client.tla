------------------------------- MODULE Client -------------------------------
(***************************************************************************)
(* VcmpClient (client.rs): start, stop, stop_and_wait, and the connection  *)
(* task `run` that connects, installs its session, runs the hooks and      *)
(* reconnects.                                                             *)
(*                                                                         *)
(* Every `start` makes a new generation with a task of its own.  The task  *)
(* of an earlier generation is aborted, but runs on until its next await,  *)
(* and may find itself between any two steps.  Sessions are known by their *)
(* generation and attempt; they close by themselves at any time.           *)
(***************************************************************************)
EXTENDS Integers, FiniteSets

CONSTANTS
    MaxStarts,      \* bound on the calls of start
    MaxSessions,    \* bound on the successful connects of one generation
    HooksRefused,   \* may the Handler budget refuse a hook?
    Initial, MaxWait,           \* Backoff::initial and max, in units of time
    Numerator, Denominator,     \* Backoff::multiplier, as a fraction
    Jitter,         \* Backoff::jitter: is a wait drawn from its upper half?
    MaxExponent,    \* where Backoff::delay cuts the exponent off (64)
    MaxAttempt      \* the largest value of the attempt counter (a u32)

ASSUME ClientAssumption ==
    /\ MaxStarts \in Nat /\ MaxSessions \in Nat /\ HooksRefused \in BOOLEAN
    /\ Initial \in Nat /\ MaxWait \in Nat
    /\ Numerator \in Nat /\ Denominator \in Nat \ {0} /\ Jitter \in BOOLEAN
    /\ MaxExponent \in Nat /\ MaxAttempt \in Nat

Generations == 1..MaxStarts

Ids == Generations \X (1..MaxSessions)

NoSession == <<0, 0>>

NoWait == -1

VARIABLES
    running, generation,    \* ClientState
    current,                \* ClientState::session
    connected,              \* the `connected` watch
    stop,                   \* the value of each task's stop channel
    aborted,                \* tasks whose AbortHandle was used
    pc,                     \* where each task is in `run`
    attempts,               \* sessions made by each generation
    attempt,                \* `attempt` of each task: backoffs since it was connected
    status,                 \* of each session
    installed,              \* history: sessions set_session accepted
    replaced,               \* history: sessions a start() found installed
    disconnectedHook,       \* history: sessions on_disconnected was started for
    refusedHook,            \* history: sessions the budget refused it for
    delay,                  \* `delay` of each task, while it backs off
    longest                 \* history: its longest backoff since it was connected

state == <<running, generation, current, connected>>
reports == <<disconnectedHook, refusedHook>>
waits == <<attempt, delay, longest>>
history == <<installed, replaced, reports>>
vars == <<state, stop, aborted, pc, attempts, status, history, waits>>

\* The points of `run` where the task awaits, and can be aborted.
Awaits == {"connect", "on_connected", "serve", "closing", "on_disconnected", "backoff"}

Stopped(g) == stop[g] # "No"

\* Mutation: the task keeps to the session of its previous attempt.
Session_Previous(g) == <<g, attempts[g] - 1>>

\* The session the task is driving.
Session(g) == <<g, attempts[g]>>

\* The factor a wait grows by, times Denominator: the multiplier counts as at
\* least one.
Growth == IF Numerator < Denominator THEN Denominator ELSE Numerator

\* first * factor ^ n, in a form that can be reasoned about.
Powers(first, factor) ==
    LET power[n \in Nat] == IF n = 0 THEN first ELSE factor * power[n - 1] IN power

\* Backoff::delay before its jitter, in whole units.
Delay(n) ==
    LET k == IF n > MaxExponent THEN MaxExponent ELSE n
        wait == Powers(Initial, Growth)[k] \div Powers(1, Denominator)[k]
    IN  IF wait > MaxWait THEN MaxWait ELSE wait

\* Backoff::delay: jitter takes any wait of at least half the delay.
Waits(n) == {wait \in 0..Delay(n) : IF Jitter THEN 2 * wait >= Delay(n) ELSE wait = Delay(n)}

Goto(g, label) == pc' = [pc EXCEPT ![g] = label]

\* Session::close on a set of sessions.
CloseSessions(ids) ==
    status' = [id \in Ids |-> IF id \in ids /\ status[id] = "open" THEN "closing" ELSE status[id]]

Init ==
    /\ running = FALSE /\ generation = 0
    /\ current = NoSession /\ connected = FALSE
    /\ stop = [g \in Generations |-> "No"]
    /\ aborted = {}
    /\ pc = [g \in Generations |-> "none"]
    /\ attempts = [g \in Generations |-> 0]
    /\ status = [id \in Ids |-> "none"]
    /\ installed = {} /\ replaced = {} /\ disconnectedHook = {} /\ refusedHook = {}
    /\ attempt = [g \in Generations |-> 0]
    /\ delay = [g \in Generations |-> NoWait]
    /\ longest = [g \in Generations |-> NoWait]

----------------------------------------------------------------------------
(* start, stop and stop_and_wait, each under the state lock *)

\* Mutation: the `connected` watch is left alone.
StopLocked_StaysConnected(how) ==
    /\ stop' = [g \in Generations |-> IF g = generation /\ ~Stopped(g) THEN how ELSE stop[g]]
    /\ CloseSessions({current})
    /\ current' = NoSession
    /\ UNCHANGED connected

\* stop_locked: signal the task, unless an earlier call has, and close the session.
StopLocked(how) ==
    /\ stop' = [g \in Generations |-> IF g = generation /\ ~Stopped(g) THEN how ELSE stop[g]]
    /\ CloseSessions({current})
    /\ current' = NoSession
    /\ connected' = FALSE

\* Mutation: a running client is replaced like it is stopped.
Start_Notifies ==
    /\ generation < MaxStarts
    /\ StopLocked("Notify")
    /\ replaced' = replaced \cup ({current} \ {NoSession})
    /\ aborted' = aborted \cup ({generation} \ {0})
    /\ running' = TRUE
    /\ generation' = generation + 1
    /\ Goto(generation + 1, "connect")
    /\ UNCHANGED <<attempts, installed, reports, waits>>

Start ==
    /\ generation < MaxStarts
    /\ StopLocked("Quiet")
    /\ replaced' = replaced \cup ({current} \ {NoSession})
    /\ aborted' = aborted \cup ({generation} \ {0})
    /\ running' = TRUE
    /\ generation' = generation + 1
    /\ Goto(generation + 1, "connect")
    /\ UNCHANGED <<attempts, installed, reports, waits>>

\* Mutation: stop() leaves the signal to the next start().
Stop_NoSignal ==
    /\ running
    /\ running' = FALSE
    /\ CloseSessions({current})
    /\ current' = NoSession /\ connected' = FALSE
    /\ UNCHANGED <<generation, stop, aborted, pc, attempts, history, waits>>

Stop ==
    /\ running' = FALSE
    /\ StopLocked("Notify")
    /\ UNCHANGED <<generation, aborted, pc, attempts, history, waits>>

\* The deadline of stop_and_wait passes before the task has ended.
StopDeadline(g) ==
    /\ stop[g] = "Notify"
    /\ pc[g] # "ended"
    /\ aborted' = aborted \cup {g}
    /\ UNCHANGED <<state, stop, pc, attempts, status, history, waits>>

----------------------------------------------------------------------------
(* run *)

\* The handshake succeeds and the session is spawned.
ConnectSucceeds(g) ==
    /\ pc[g] = "connect"
    /\ attempts[g] < MaxSessions
    /\ attempts' = [attempts EXCEPT ![g] = @ + 1]
    /\ status' = [status EXCEPT ![<<g, attempts[g] + 1>>] = "open"]
    /\ attempt' = [attempt EXCEPT ![g] = 0]
    /\ longest' = [longest EXCEPT ![g] = NoWait]
    /\ UNCHANGED delay
    /\ Goto(g, "install")
    /\ UNCHANGED <<state, stop, aborted, history>>

\* An error, or connect_timeout.
ConnectFails(g) ==
    /\ pc[g] = "connect"
    /\ Goto(g, "check")
    /\ UNCHANGED <<state, stop, aborted, attempts, status, history, waits>>

\* A stop interrupts the connect and the backoff.
Interrupted(g) ==
    /\ pc[g] \in {"connect", "backoff"}
    /\ Stopped(g)
    /\ Goto(g, "ended")
    /\ delay' = [delay EXCEPT ![g] = NoWait]
    /\ UNCHANGED <<state, stop, aborted, attempts, status, history, attempt, longest>>

\* Mutation: the generation is not compared.
IsReplaced_Ignored(g) == ~running

\* A later start has replaced this generation, or the client was stopped.
IsReplaced(g) == generation # g \/ ~running

\* set_session(generation, Some(session)).
Install(g) ==
    /\ pc[g] = "install"
    /\ IF IsReplaced(g)
         THEN /\ CloseSessions({Session(g)})
              /\ Goto(g, "ended")
              /\ UNCHANGED <<state, installed>>
         ELSE /\ current' = Session(g)
              /\ connected' = TRUE
              /\ installed' = installed \cup {Session(g)}
              /\ Goto(g, "connected")
              /\ UNCHANGED <<running, generation, status>>
    /\ UNCHANGED <<stop, aborted, attempts, replaced, reports, waits>>

\* The on_connected hook starts; there is none; or the budget refuses it, which
\* closes the session.
OnConnected(g) ==
    /\ pc[g] = "connected"
    /\ \/ Goto(g, "on_connected") /\ UNCHANGED status
       \/ Goto(g, "serve") /\ UNCHANGED status
       \/ HooksRefused /\ Goto(g, "serve") /\ CloseSessions({Session(g)})
    /\ UNCHANGED <<state, stop, aborted, attempts, history, waits>>

\* The hook returns or times out, the session closes, or the client is stopped.
OnConnectedEnds(g) ==
    /\ pc[g] = "on_connected"
    /\ Goto(g, "serve")
    /\ \/ UNCHANGED status
       \/ Stopped(g) /\ CloseSessions({Session(g)})
    /\ UNCHANGED <<state, stop, aborted, attempts, history, waits>>

\* The session has closed, or the client is stopped and closes it.
Serve(g) ==
    /\ pc[g] = "serve"
    /\ \/ status[Session(g)] = "closed" /\ Goto(g, "clear") /\ UNCHANGED status
       \/ Stopped(g) /\ Goto(g, "closing") /\ CloseSessions({Session(g)})
    /\ UNCHANGED <<state, stop, aborted, attempts, history, waits>>

AwaitClosed(g) ==
    /\ pc[g] = "closing"
    /\ status[Session(g)] = "closed"
    /\ Goto(g, "clear")
    /\ UNCHANGED <<state, stop, aborted, attempts, status, history, waits>>

\* Mutation: an old task clears whatever session is installed.
Clear_Always(g) ==
    /\ pc[g] = "clear"
    /\ Goto(g, "notify")
    /\ current' = NoSession /\ connected' = FALSE
    /\ UNCHANGED <<running, generation, stop, aborted, attempts, status, history, waits>>

\* set_session(generation, None).
Clear(g) ==
    /\ pc[g] = "clear"
    /\ Goto(g, "notify")
    /\ IF generation = g
         THEN current' = NoSession /\ connected' = FALSE
         ELSE UNCHANGED <<current, connected>>
    /\ UNCHANGED <<running, generation, stop, aborted, attempts, status, history, waits>>

\* Mutation: on_disconnected is left out when the client was stopped.
Notify_OnlyRunning(g) ==
    /\ pc[g] = "notify"
    /\ IF Stopped(g)
         THEN Goto(g, "check") /\ UNCHANGED reports
         ELSE /\ Goto(g, "on_disconnected")
              /\ disconnectedHook' = disconnectedHook \cup {Session(g)}
              /\ UNCHANGED refusedHook
    /\ UNCHANGED <<state, stop, aborted, attempts, status, installed, replaced, waits>>

\* The on_disconnected hook, unless a start() replaced the connection or the
\* budget refuses it.
Notify(g) ==
    /\ pc[g] = "notify"
    /\ \/ /\ stop[g] # "Quiet"
          /\ Goto(g, "on_disconnected")
          /\ disconnectedHook' = disconnectedHook \cup {Session(g)}
          /\ UNCHANGED refusedHook
       \/ /\ stop[g] # "Quiet" /\ HooksRefused
          /\ Goto(g, "check")
          /\ refusedHook' = refusedHook \cup {Session(g)}
          /\ UNCHANGED disconnectedHook
       \/ /\ stop[g] = "Quiet"
          /\ Goto(g, "check")
          /\ UNCHANGED reports
    /\ UNCHANGED <<state, stop, aborted, attempts, status, installed, replaced, waits>>

\* The hook returns or times out.
OnDisconnectedEnds(g) ==
    /\ pc[g] = "on_disconnected"
    /\ Goto(g, "check")
    /\ UNCHANGED <<state, stop, aborted, attempts, status, history, waits>>

\* Mutation: the counter of the attempts wraps.
NextAttempt_Wraps(n) == (n + 1) % (MaxAttempt + 1)

\* attempt.saturating_add(1).
NextAttempt(n) == IF n < MaxAttempt THEN n + 1 ELSE n

CheckStop(g) ==
    /\ pc[g] = "check"
    /\ \/ Stopped(g) /\ Goto(g, "ended") /\ UNCHANGED waits
       \/ /\ ~Stopped(g)
          /\ Goto(g, "backoff")
          /\ attempt' = [attempt EXCEPT ![g] = NextAttempt(@)]
          /\ \E wait \in Waits(attempt[g]) : delay' = [delay EXCEPT ![g] = wait]
          /\ UNCHANGED longest
    /\ UNCHANGED <<state, stop, aborted, attempts, status, history>>

\* Mutation: a lost connection is not retried.
BackoffEnds_GivesUp(g) ==
    /\ pc[g] = "backoff" /\ attempts[g] > 0
    /\ Goto(g, "ended")
    /\ UNCHANGED <<state, stop, aborted, attempts, status, history, waits>>

BackoffEnds(g) ==
    /\ pc[g] = "backoff"
    /\ Goto(g, "connect")
    /\ delay' = [delay EXCEPT ![g] = NoWait]
    /\ longest' = [longest EXCEPT ![g] = IF delay[g] > @ THEN delay[g] ELSE @]
    /\ UNCHANGED <<state, stop, aborted, attempts, status, history, attempt>>

\* The abort takes effect at an await; dropping the task closes its session
\* (CloseOnDrop).
AbortLands(g) ==
    /\ g \in aborted
    /\ pc[g] \in Awaits
    /\ Goto(g, "ended")
    /\ CloseSessions(IF pc[g] \in {"connect", "backoff"} THEN {} ELSE {Session(g)})
    /\ delay' = [delay EXCEPT ![g] = NoWait]
    /\ UNCHANGED <<state, stop, aborted, attempts, history, attempt, longest>>

\* A hook panics: the task dies as if it were aborted, but nothing clears the
\* session it leaves closed, nor reconnects.
HookPanics(g) ==
    /\ pc[g] \in {"on_connected", "on_disconnected"}
    /\ Goto(g, "panicked")
    /\ CloseSessions({Session(g)})
    /\ UNCHANGED <<state, stop, aborted, attempts, history, waits>>

----------------------------------------------------------------------------
\* The session closes on its own: the peer, the watchdog, a handler.
SessionCloses(id) ==
    /\ status[id] = "open"
    /\ CloseSessions({id})
    /\ UNCHANGED <<state, stop, aborted, pc, attempts, history, waits>>

\* Session.tla: a close completes.
SessionClosed(id) ==
    /\ status[id] = "closing"
    /\ status' = [status EXCEPT ![id] = "closed"]
    /\ UNCHANGED <<state, stop, aborted, pc, attempts, history, waits>>

Run(g) ==
    \/ ConnectSucceeds(g) \/ ConnectFails(g) \/ Interrupted(g)
    \/ Install(g) \/ OnConnected(g) \/ OnConnectedEnds(g)
    \/ Serve(g) \/ AwaitClosed(g) \/ Clear(g)
    \/ Notify(g) \/ OnDisconnectedEnds(g) \/ HookPanics(g)
    \/ CheckStop(g) \/ BackoffEnds(g)

Next ==
    \/ Start \/ Stop
    \/ \E g \in Generations : StopDeadline(g) \/ Run(g) \/ AbortLands(g)
    \/ \E id \in Ids : SessionCloses(id) \/ SessionClosed(id)

\* The tasks are scheduled; connect, hooks and backoff are bounded by timers; a
\* stop is noticed even by a task that keeps failing to connect, because the
\* loop checks the channel each time round.
Fairness ==
    /\ \A g \in Generations : WF_vars(Run(g)) /\ WF_vars(AbortLands(g))
    /\ \A id \in Ids : WF_vars(SessionClosed(id))

Spec == Init /\ [][Next]_vars

FairSpec == Spec /\ Fairness

----------------------------------------------------------------------------
(* Properties *)

\* The types; a task drives only sessions it has made.
TypeOK ==
    /\ running \in BOOLEAN /\ generation \in 0..MaxStarts
    /\ current \in Ids \cup {NoSession} /\ connected \in BOOLEAN
    /\ stop \in [Generations -> {"No", "Notify", "Quiet"}]
    /\ aborted \subseteq Generations
    /\ pc \in [Generations -> Awaits \cup
                  {"none", "install", "connected", "clear", "notify", "check", "ended", "panicked"}]
    /\ attempts \in [Generations -> 0..MaxSessions]
    /\ attempt \in [Generations -> 0..MaxAttempt]
    /\ status \in [Ids -> {"none", "open", "closing", "closed"}]
    /\ installed \subseteq Ids /\ replaced \subseteq Ids
    /\ disconnectedHook \subseteq Ids /\ refusedHook \subseteq Ids
    /\ delay \in [Generations -> {NoWait} \cup (0..MaxWait)]
    /\ longest \in [Generations -> {NoWait} \cup (0..MaxWait)]

\* The session a client shows belongs to its latest generation, and only while
\* the client runs: no task that start() replaced or stop() ended installs one,
\* however late its connect completes.  wait_connected, which watches another
\* variable, agrees with it.
OnlyLatestShown ==
    /\ current # NoSession => running /\ current[1] = generation /\ ~Stopped(generation)
    /\ connected <=> current # NoSession

\* A live session is installed, or its task is about to install or close it.  In
\* particular no old task clears the session of the task that replaced it.
NoOrphanSession ==
    \A id \in Ids :
        status[id] = "open" => id = current \/ (pc[id[1]] = "install" /\ id = Session(id[1]))

\* on_disconnected is never started for a connection that start() replaced.
ReplacedSilently == replaced \cap disconnectedHook = {}

\* The task is over: it has returned, or a hook of it has panicked.
Over(g) == pc[g] \in {"ended", "panicked"}

\* A stopped client ends its task and leaves no session open.
StopCompletes ==
    \A g \in Generations :
        ~running /\ generation = g
            ~> (running \/ (Over(g) /\ \A id \in Ids : status[id] # "open"))

\* on_disconnected runs for every installed session that has closed, whoever
\* closed it, unless the budget refuses it or the task was aborted (start() or the
\* deadline of stop) or died of a hook that panicked for this very session.
DisconnectNotified ==
    \A id \in Ids :
        id \in installed /\ status[id] = "closed"
            ~> \/ id \in disconnectedHook \cup refusedHook
               \/ id[1] \in aborted
               \/ pc[id[1]] = "panicked" /\ id = Session(id[1])

\* A running client without a session tries to connect, or is about to install
\* the session it has made; unless a hook has panicked and its task is gone.
Reconnects ==
    \A g \in Generations :
        running /\ generation = g /\ current = NoSession
            ~> (~running \/ generation # g \/ pc[g] \in {"connect", "panicked"} \/ current # NoSession)

\* The client does not hurry while it fails to connect, however often: a wait is
\* within the maximum and at least half as long as every wait before it, and
\* without jitter as long.  The first wait after a connection is the initial one.
BackoffHolds ==
    [][\A g \in Generations :
         pc[g] = "check" /\ pc'[g] = "backoff" =>
             /\ delay'[g] <= MaxWait
             /\ 2 * delay'[g] >= longest[g]
             /\ ~Jitter => delay'[g] >= longest[g]
             /\ longest[g] = NoWait =>
                   delay'[g] <= Initial /\ (2 * delay'[g] >= Initial \/ 2 * delay'[g] >= MaxWait)]_vars
=============================================================================
