------------------------------- MODULE Server -------------------------------
(***************************************************************************)
(* VcmpServer and Endpoint (server.rs) and the axum upgrade (axum.rs): the *)
(* accept loop, the task of each connection from its handshake to its      *)
(* disconnect hook, the registry of sessions, and the two shutdowns,       *)
(* ServerHandle::stop and VcmpServer::close_sessions.                      *)
(*                                                                         *)
(* A connection is either bare, accepted by the listener of `bind` and     *)
(* tracked by it, or upgraded from a request of an axum HTTP server, which *)
(* only counts as pending until its session is registered.  A connection   *)
(* the budget refuses leaves no trace and is not modelled.  One shutdown   *)
(* is called, from outside or from a hook of some connection.              *)
(***************************************************************************)
EXTENDS FiniteSets

CONSTANTS
    Bare,           \* connections of the standalone listener
    Upgrades,       \* connections of the axum HTTP server
    Outside,        \* a caller that is no hook of the server's
    HooksRefused    \* may the Handler budget refuse a hook?

ASSUME ServerAssumption ==
    /\ Bare \cap Upgrades = {}
    /\ Outside \notin Bare \cup Upgrades
    /\ HooksRefused \in BOOLEAN

Conns == Bare \cup Upgrades

VARIABLES
    pc,             \* where each connection's task is
    status,         \* of each connection's session
    sessions,       \* EndpointInner::sessions
    pending,        \* the upgrades counted by pending_upgrades
    httpStopped,    \* has the HTTP server stopped?
    stopped,        \* ServerInner::stopped
    signalled,      \* the `stop` channel of the listener
    rebound,        \* has the server been bound a second time?
    accept,         \* the accept loop of `bind`
    tracked,        \* ConnectionTasks::tasks, the members of the JoinSet
    aborted,        \* bare connections whose task was aborted
    shutdown,       \* the shutdown: what is called, by whom, where it is
    collected,      \* the sessions it has collected
    closedInTime,   \* history: was close_sessions called after httpStopped?
    disconnectHook  \* history: connections on_disconnected was started for

conns == <<pc, status, sessions>>
flags == <<stopped, signalled, rebound>>
listener == <<flags, accept, tracked, aborted>>
closer == <<shutdown, collected, closedInTime>>
vars == <<conns, pending, httpStopped, listener, closer, disconnectHook>>

Goto(c, label) == pc' = [pc EXCEPT ![c] = label]

\* The task of a connection has ended, by itself or by a panic of its hook.
Over(c) == pc[c] \in {"ended", "panicked"}

\* Session::close on a set of sessions.
CloseSessions(cs) ==
    status' = [c \in Conns |-> IF c \in cs /\ status[c] = "open" THEN "closing" ELSE status[c]]

Phase(label) == shutdown' = [shutdown EXCEPT !.at = label]

Running == shutdown.at \notin {"idle", "returned", "cancelled"}

\* The shutdown is awaited by a hook of c.
AwaitedBy(c) == Running /\ shutdown.caller = c

Init ==
    /\ pc = [c \in Conns |-> "none"]
    /\ status = [c \in Conns |-> "none"]
    /\ sessions = {} /\ pending = {} /\ httpStopped = FALSE
    /\ stopped = FALSE /\ signalled = FALSE /\ rebound = FALSE
    /\ accept = "accepting"
    /\ tracked = {} /\ aborted = {}
    /\ shutdown = [op |-> "none", caller |-> Outside, at |-> "idle"]
    /\ collected = {} /\ closedInTime = FALSE
    /\ disconnectHook = {}

----------------------------------------------------------------------------
(* The accept loop *)

\* The biased select: a connection is taken only if no stop has been signalled.
Accept(c) ==
    /\ accept = "accepting" /\ ~signalled
    /\ c \in Bare /\ pc[c] = "none"
    /\ accept' = "spawning"
    /\ Goto(c, "accepted")
    /\ UNCHANGED <<status, sessions, pending, httpStopped, flags, tracked, aborted, closer, disconnectHook>>

\* The task is spawned, registered, and only then released to its handshake.
Spawn(c) ==
    /\ accept = "spawning" /\ pc[c] = "accepted"
    /\ accept' = "accepting"
    /\ tracked' = tracked \cup {c}
    /\ Goto(c, "handshake")
    /\ UNCHANGED <<status, sessions, pending, httpStopped, flags, aborted, closer, disconnectHook>>

\* The loop ends at the stop signal and goes on joining its tasks.
AcceptStops ==
    /\ accept = "accepting" /\ signalled
    /\ accept' = "draining"
    /\ UNCHANGED <<conns, pending, httpStopped, flags, tracked, aborted, closer, disconnectHook>>

\* join_next_with_id: ConnectionTasks::finished, also for a task that panicked.
Join(c) ==
    /\ accept \in {"accepting", "draining"}
    /\ c \in tracked /\ Over(c)
    /\ tracked' = tracked \ {c}
    /\ UNCHANGED <<conns, pending, httpStopped, flags, accept, aborted, closer, disconnectHook>>

AcceptEnds ==
    /\ accept = "draining" /\ tracked = {}
    /\ accept' = "ended"
    /\ UNCHANGED <<conns, pending, httpStopped, flags, tracked, aborted, closer, disconnectHook>>

----------------------------------------------------------------------------
(* handle_connection and on_upgrade, up to the registered session *)

\* begin_upgrade: the upgrade counts as pending before its task is spawned.
BeginUpgrade(c) ==
    /\ c \in Upgrades /\ pc[c] = "none"
    /\ ~httpStopped
    /\ pending' = pending \cup {c}
    /\ Goto(c, "handshake")
    /\ UNCHANGED <<status, sessions, httpStopped, listener, closer, disconnectHook>>

\* Mutation: PendingUpgrade is not a guard; a failed upgrade stays pending.
HandshakeFails_StaysPending(c) ==
    /\ pc[c] = "handshake"
    /\ Goto(c, "ended")
    /\ UNCHANGED <<status, sessions, pending, httpStopped, listener, closer, disconnectHook>>

\* The handshake or the upgrade fails, or takes longer than shutdown_timeout.
HandshakeFails(c) ==
    /\ pc[c] = "handshake"
    /\ Goto(c, "ended")
    /\ pending' = pending \ {c}
    /\ UNCHANGED <<status, sessions, httpStopped, listener, closer, disconnectHook>>

\* It succeeds; a bare connection is dropped if the server has been stopped.
HandshakeSucceeds(c) ==
    /\ pc[c] = "handshake"
    /\ Goto(c, IF c \in Bare /\ stopped THEN "ended" ELSE "start")
    /\ UNCHANGED <<status, sessions, pending, httpStopped, listener, closer, disconnectHook>>

\* start_session: the session is spawned open...
StartSession(c) ==
    /\ pc[c] = "start"
    /\ Goto(c, "insert")
    /\ status' = [status EXCEPT ![c] = "open"]
    /\ UNCHANGED <<sessions, pending, httpStopped, listener, closer, disconnectHook>>

\* ...and registered.
Insert(c) ==
    /\ pc[c] = "insert"
    /\ Goto(c, IF c \in Upgrades THEN "release" ELSE "connected")
    /\ sessions' = sessions \cup {c}
    /\ UNCHANGED <<status, pending, httpStopped, listener, closer, disconnectHook>>

\* drop(pending), only after the insertion.
ReleaseUpgrade(c) ==
    /\ pc[c] = "release"
    /\ Goto(c, "connected")
    /\ pending' = pending \ {c}
    /\ UNCHANGED <<status, sessions, httpStopped, listener, closer, disconnectHook>>

----------------------------------------------------------------------------
(* serve_session *)

\* A hook ends although it awaits the shutdown: the shutdown's future is dropped.
HookEnds(c) ==
    IF AwaitedBy(c) THEN Phase("cancelled") ELSE UNCHANGED shutdown

\* The on_connected hook starts, or the budget refuses it and the session is closed.
OnConnected(c) ==
    /\ pc[c] = "connected"
    /\ \/ Goto(c, "on_connected") /\ UNCHANGED status
       \/ HooksRefused /\ Goto(c, "serve") /\ CloseSessions({c})
    /\ UNCHANGED <<sessions, pending, httpStopped, listener, closer, disconnectHook>>

\* Mutation: a session closed under its hook ends the task at once.
OnConnectedEnds_Returns(c) ==
    /\ pc[c] = "on_connected"
    /\ IF status[c] = "closed"
         THEN Goto(c, "ended") /\ sessions' = sessions \ {c}
         ELSE Goto(c, "serve") /\ UNCHANGED sessions
    /\ HookEnds(c)
    /\ UNCHANGED <<status, pending, httpStopped, listener, collected, closedInTime, disconnectHook>>

\* The hook returns, takes longer than handler_timeout, or its session closes.
OnConnectedEnds(c) ==
    /\ pc[c] = "on_connected"
    /\ Goto(c, "serve")
    /\ HookEnds(c)
    /\ UNCHANGED <<status, sessions, pending, httpStopped, listener, collected, closedInTime, disconnectHook>>

\* Mutation: the session is removed when the hook returns, not when it closes.
Serve_AfterHook(c) ==
    /\ pc[c] = "serve"
    /\ sessions' = sessions \ {c}
    /\ Goto(c, "on_disconnected") /\ disconnectHook' = disconnectHook \cup {c}
    /\ UNCHANGED <<status, pending, httpStopped, listener, closer>>

\* The session has closed: it is removed and the on_disconnected hook starts,
\* unless the budget refuses it.
Serve(c) ==
    /\ pc[c] = "serve"
    /\ status[c] = "closed"
    /\ sessions' = sessions \ {c}
    /\ \/ Goto(c, "on_disconnected") /\ disconnectHook' = disconnectHook \cup {c}
       \/ HooksRefused /\ Goto(c, "ended") /\ UNCHANGED disconnectHook
    /\ UNCHANGED <<status, pending, httpStopped, listener, closer>>

\* The hook returns or takes longer than handler_timeout.
OnDisconnectedEnds(c) ==
    /\ pc[c] = "on_disconnected"
    /\ Goto(c, "ended")
    /\ HookEnds(c)
    /\ UNCHANGED <<status, sessions, pending, httpStopped, listener, collected, closedInTime, disconnectHook>>

Serving(c) == pc[c] \in {"release", "connected", "on_connected", "serve"}

\* Mutation: without SessionCleanup an abort leaves the session behind.
AbortLands_NoCleanup(c) ==
    /\ c \in aborted
    /\ pc[c] \in {"handshake", "on_connected", "serve", "on_disconnected"}
    /\ Goto(c, "ended")
    /\ HookEnds(c)
    /\ UNCHANGED <<status, sessions, pending, httpStopped, listener, collected, closedInTime, disconnectHook>>

\* The abort of a task takes effect at an await.  SessionCleanup closes and
\* removes its session.
AbortLands(c) ==
    /\ c \in aborted
    /\ pc[c] \in {"handshake", "on_connected", "serve", "on_disconnected"}
    /\ Goto(c, "ended")
    /\ CloseSessions({c})
    /\ sessions' = sessions \ {c}
    /\ HookEnds(c)
    /\ UNCHANGED <<pending, httpStopped, listener, collected, closedInTime, disconnectHook>>

\* A hook panics: the task unwinds, and SessionCleanup closes and removes its
\* session.  No hook is called after that.
HookPanics(c) ==
    /\ pc[c] \in {"on_connected", "on_disconnected"}
    /\ Goto(c, "panicked")
    /\ CloseSessions({c})
    /\ sessions' = sessions \ {c}
    /\ HookEnds(c)
    /\ UNCHANGED <<pending, httpStopped, listener, collected, closedInTime, disconnectHook>>

\* The session closes on its own: the peer, the watchdog, a handler.
SessionCloses(c) ==
    /\ status[c] = "open"
    /\ CloseSessions({c})
    /\ UNCHANGED <<pc, sessions, pending, httpStopped, listener, closer, disconnectHook>>

\* Session.tla: a close completes.
SessionClosed(c) ==
    /\ status[c] = "closing"
    /\ status' = [status EXCEPT ![c] = "closed"]
    /\ UNCHANGED <<pc, sessions, pending, httpStopped, listener, closer, disconnectHook>>

----------------------------------------------------------------------------
(* The shutdowns *)

\* The server is bound again, maybe while the first listener is being stopped:
\* the flag is reset, the first listener's signal is not.  Of the second
\* listener this is all that concerns the first.
Rebind ==
    /\ ~rebound
    /\ rebound' = TRUE
    /\ stopped' = FALSE
    /\ UNCHANGED <<conns, pending, httpStopped, signalled, accept, tracked, aborted, closer, disconnectHook>>

StopHttp ==
    /\ ~httpStopped
    /\ httpStopped' = TRUE
    /\ UNCHANGED <<conns, pending, listener, closer, disconnectHook>>

MayCall(caller) ==
    \/ caller = Outside
    \/ caller \in Conns /\ pc[caller] \in {"on_connected", "on_disconnected"}

CallCloseSessions(caller) ==
    /\ shutdown.at = "idle" /\ MayCall(caller)
    /\ shutdown' = [op |-> "close_sessions", caller |-> caller, at |-> "upgrades"]
    /\ closedInTime' = httpStopped
    /\ UNCHANGED <<conns, pending, httpStopped, listener, collected, disconnectHook>>

\* stop: no connection that finishes its handshake from here on is served.
CallStop(caller) ==
    /\ shutdown.at = "idle" /\ MayCall(caller)
    /\ shutdown' = [op |-> "stop", caller |-> caller, at |-> "upgrades"]
    /\ stopped' = TRUE /\ signalled' = TRUE
    /\ UNCHANGED <<conns, pending, httpStopped, rebound, accept, tracked, aborted, collected, closedInTime, disconnectHook>>

\* Mutation: the upgrades in flight are not waited for.
Collect_Early ==
    /\ shutdown.at = "upgrades"
    /\ collected' = sessions
    /\ CloseSessions(sessions)
    /\ Phase("sessions")
    /\ UNCHANGED <<pc, sessions, pending, httpStopped, listener, closedInTime, disconnectHook>>

\* close_sessions: no upgrade is pending; the sessions are collected and closed.
Collect ==
    /\ shutdown.at = "upgrades" /\ pending = {}
    /\ collected' = sessions
    /\ CloseSessions(sessions)
    /\ Phase("sessions")
    /\ UNCHANGED <<pc, sessions, pending, httpStopped, listener, closedInTime, disconnectHook>>

\* Every collected session has closed.
SessionsClosed ==
    /\ shutdown.at = "sessions"
    /\ \A c \in collected : status[c] = "closed"
    /\ Phase(IF shutdown.op = "stop" THEN "tasks" ELSE "returned")
    /\ UNCHANGED <<conns, pending, httpStopped, listener, collected, closedInTime, disconnectHook>>

\* Mutation: a stop from a hook waits for the accept task, and so for its caller.
TasksFinished_WithCaller == accept = "ended"

\* finished_except(caller) for a hook of a tracked connection; the accept task
\* itself otherwise.
TasksFinished ==
    IF shutdown.caller \in Bare
      THEN accept \in {"draining", "ended"} /\ tracked \subseteq {shutdown.caller}
      ELSE accept = "ended"

StopReturns ==
    /\ shutdown.at \in {"tasks", "aborting"}
    /\ TasksFinished
    /\ Phase("returned")
    /\ UNCHANGED <<conns, pending, httpStopped, listener, collected, closedInTime, disconnectHook>>

\* Mutation: at the deadline stop gives up.
Deadline_GivesUp ==
    /\ shutdown.at = "tasks"
    /\ Phase("returned")
    /\ UNCHANGED <<conns, pending, httpStopped, listener, collected, closedInTime, disconnectHook>>

\* shutdown_timeout + handler_timeout have passed: abort the other connections,
\* or the accept task.
Deadline ==
    /\ shutdown.at = "tasks"
    /\ Phase("aborting")
    /\ aborted' = aborted \cup (IF shutdown.caller \in Bare THEN tracked \ {shutdown.caller} ELSE {})
    /\ UNCHANGED <<conns, pending, httpStopped, flags, accept, tracked, collected, closedInTime, disconnectHook>>

\* The abort of the accept task takes effect at one of its awaits.  Dropping its
\* JoinSet aborts the connections, and waits for none of them.
AcceptAborted ==
    /\ shutdown.at = "aborting" /\ shutdown.caller \notin Bare
    /\ accept \in {"accepting", "draining"}
    /\ accept' = "ended"
    /\ aborted' = aborted \cup tracked
    /\ UNCHANGED <<conns, pending, httpStopped, flags, tracked, closer, disconnectHook>>

----------------------------------------------------------------------------
AcceptLoop ==
    \/ AcceptStops \/ AcceptEnds \/ AcceptAborted
    \/ \E c \in Conns : Spawn(c) \/ Join(c)

\* The task of a connection, its hooks apart.
Task(c) ==
    \/ HandshakeFails(c) \/ HandshakeSucceeds(c)
    \/ StartSession(c) \/ Insert(c) \/ ReleaseUpgrade(c)
    \/ OnConnected(c) \/ Serve(c) \/ AbortLands(c)

Shutdown == Collect \/ SessionsClosed \/ StopReturns \/ Deadline

Next ==
    \/ AcceptLoop \/ Shutdown \/ StopHttp \/ Rebind
    \/ \E c \in Conns :
         \/ Accept(c) \/ BeginUpgrade(c) \/ Task(c)
         \/ OnConnectedEnds(c) \/ OnDisconnectedEnds(c) \/ HookPanics(c)
         \/ SessionCloses(c) \/ SessionClosed(c)
    \/ \E caller \in Conns \cup {Outside} : CallCloseSessions(caller) \/ CallStop(caller)

\* Tasks are scheduled and timers fire.  A hook ends, by its own or by its
\* timeout; a disconnect hook that awaits the shutdown is not assumed to.
Fairness ==
    /\ WF_vars(AcceptLoop) /\ WF_vars(Shutdown)
    /\ \A c \in Conns :
         /\ WF_vars(Task(c)) /\ WF_vars(OnConnectedEnds(c)) /\ WF_vars(SessionClosed(c))
         /\ WF_vars(OnDisconnectedEnds(c) /\ ~AwaitedBy(c))

Spec == Init /\ [][Next]_vars

FairSpec == Spec /\ Fairness

----------------------------------------------------------------------------
(* Properties *)

\* The types; an upgrade is pending only until it has registered or failed.
TypeOK ==
    /\ pc \in [Conns -> {"none", "accepted", "handshake", "start", "insert", "release", "connected",
                         "on_connected", "serve", "on_disconnected", "ended", "panicked"}]
    /\ status \in [Conns -> {"none", "open", "closing", "closed"}]
    /\ sessions \subseteq Conns
    /\ pending \subseteq {c \in Upgrades : pc[c] \in {"handshake", "start", "insert", "release"}}
    /\ httpStopped \in BOOLEAN
    /\ stopped \in BOOLEAN /\ signalled \in BOOLEAN /\ rebound \in BOOLEAN
    /\ accept \in {"accepting", "spawning", "draining", "ended"}
    /\ tracked \subseteq Bare /\ aborted \subseteq Bare
    /\ shutdown \in [op : {"none", "stop", "close_sessions"}, caller : Conns \cup {Outside},
                     at : {"idle", "upgrades", "sessions", "tasks", "aborting", "returned", "cancelled"}]
    /\ collected \subseteq Conns /\ closedInTime \in BOOLEAN
    /\ disconnectHook \subseteq Conns

\* Every session in the registry has a task that will remove it, also after an
\* abort: sessions(), session_count() and broadcast never see one nobody serves.
RegistryIsServed == \A c \in Conns : c \in sessions => Serving(c)

\* A session that is open can be found: it is registered, or its task is about
\* to register it.  What no shutdown could find would never be closed.
OpenIsRegistered == \A c \in Conns : status[c] = "open" => c \in sessions \/ pc[c] = "insert"

\* A session whose task unwound from a panic is on its way to being closed.
ClosingAfterPanic(c) == pc[c] = "panicked" /\ status[c] = "closing"

\* close_sessions called after the HTTP server has stopped leaves no upgraded
\* session, but for the rest of the close of one whose hook panicked, and no
\* upgrade that could still become one.
CloseLeavesNone ==
    shutdown.op = "close_sessions" /\ shutdown.at = "returned" /\ closedInTime =>
        \A c \in Upgrades :
            /\ status[c] \in {"none", "closed"} \/ ClosingAfterPanic(c)
            /\ pc[c] \notin {"handshake", "start"}

\* When stop has returned, every connection's task has ended or been aborted,
\* except the one whose hook awaits it, and none is accepted any more, also when
\* the server is bound again meanwhile.
StopLeavesNoTask ==
    shutdown.op = "stop" /\ shutdown.at = "returned" =>
        \A c \in Bare :
            \/ pc[c] = "none" \/ Over(c)
            \/ c \in aborted \/ c = shutdown.caller

\* The words of ServerHandle::stop: it closes every session.
StopClosesEverySession ==
    shutdown.op = "stop" /\ shutdown.at = "returned" =>
        \A c \in Bare : status[c] # "open"

\* A shutdown returns.  It does not depend on a pending upgrade's success, and a
\* stop that a disconnect hook awaits neither waits for its own caller nor aborts
\* it: it is cancelled only if its hook ends by itself, by its timeout or its
\* session's close.  One stop may wait for ever: that of a hook of this listener
\* under which the server is bound again.  A connection accepted before the
\* deadline and spawned after it is served then, and nobody aborts it.
ShutdownReturns ==
    Running ~> \/ shutdown.at = "returned"
               \/ shutdown.at = "cancelled" /\ shutdown.caller \notin aborted
               \/ shutdown.op = "stop" /\ shutdown.caller \in Bare /\ ~stopped

\* on_disconnected runs for every served session that closes, also when it
\* closes under its on_connected hook, unless its task is aborted or that hook
\* panics.  It needs HooksRefused to be false: a hook the Handler budget refuses
\* does not run.
DisconnectHookRuns ==
    \A c \in Conns :
        Serving(c) /\ status[c] = "closed" ~>
            c \in disconnectHook \cup aborted \/ pc[c] = "panicked"
=============================================================================
