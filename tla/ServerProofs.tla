---------------------------- MODULE ServerProofs ----------------------------
(***************************************************************************)
(* Proofs about Server: the registry (RegistryIsServed, OpenIsRegistered)  *)
(* and what the two shutdowns leave behind (CloseLeavesNone,               *)
(* StopLeavesNoTask), for any numbers of connections.                      *)
(***************************************************************************)
EXTENDS Server, TLAPS

\* The steps of the server, one action each.
LEMMA StepCases ==
  ASSUME [Next]_vars
  PROVE  \/ \E c \in Conns :
              \/ Accept(c) \/ BeginUpgrade(c) \/ Spawn(c) \/ Join(c)
              \/ HandshakeFails(c) \/ HandshakeSucceeds(c)
              \/ StartSession(c) \/ Insert(c) \/ ReleaseUpgrade(c)
              \/ OnConnected(c) \/ OnConnectedEnds(c) \/ Serve(c) \/ OnDisconnectedEnds(c)
              \/ AbortLands(c) \/ HookPanics(c) \/ SessionCloses(c) \/ SessionClosed(c)
         \/ \E caller \in Conns \cup {Outside} : CallCloseSessions(caller) \/ CallStop(caller)
         \/ AcceptStops \/ AcceptEnds \/ AcceptAborted
         \/ Collect \/ SessionsClosed \/ StopReturns \/ Deadline
         \/ StopHttp \/ Rebind \/ UNCHANGED vars
BY DEF Next, AcceptLoop, Shutdown, Task

\* Only a connection of the listener waits to be spawned.  TypeOK needs it: what
\* is spawned is tracked.
AcceptedIsBare == \A c \in Conns : pc[c] = "accepted" => c \in Bare

Typing == TypeOK /\ AcceptedIsBare

\* A connection has no session before start_session, and an open session is in
\* the registry for as long as its task serves it.
RegistryInv ==
    /\ \A c \in Conns : pc[c] \in {"none", "accepted", "handshake", "start"} => status[c] = "none"
    /\ RegistryIsServed /\ OpenIsRegistered

\* What close_sessions relies on: an upgrade is pending until it is registered,
\* none begins after the HTTP server has stopped, and a session that closes is in
\* the registry until it has closed, unless its task was aborted or panicked.
UpgradeInv ==
    /\ \A c \in Upgrades : pc[c] \in {"handshake", "start", "insert", "release"} => c \in pending
    /\ \A c \in Upgrades : status[c] = "closing" => c \in sessions \/ pc[c] \in {"insert", "panicked"}
    /\ closedInTime => httpStopped
    /\ shutdown.at = "idle" => shutdown.op = "none"
    /\ shutdown.at \in {"tasks", "aborting"} => shutdown.op = "stop"
    /\ shutdown.op = "close_sessions" /\ closedInTime /\ shutdown.at \in {"sessions", "returned"} =>
          \A c \in Upgrades :
              /\ pc[c] \notin {"handshake", "start", "insert", "release"}
              /\ \/ status[c] \in {"none", "closed"}
                 \/ ClosingAfterPanic(c)
                 \/ shutdown.at = "sessions" /\ c \in collected

\* What stop relies on: the loop accepts one connection at a time and none after
\* it has seen the signal, and every task that runs is tracked or aborted.
ListenerInv ==
    /\ shutdown.op = "stop" => signalled
    /\ accept \in {"draining", "ended"} => signalled
    /\ accept = "ended" => tracked \subseteq aborted
    /\ \A c, d \in Conns : pc[c] = "accepted" => accept = "spawning" /\ (pc[d] = "accepted" => c = d)
    /\ \A c \in Bare : pc[c] \in {"none", "accepted"} \/ Over(c) \/ c \in tracked \cup aborted
    /\ shutdown.op = "stop" /\ shutdown.at = "returned" => accept \in {"draining", "ended"} /\ StopLeavesNoTask

ServerInv == Typing /\ RegistryInv /\ UpgradeInv /\ ListenerInv

\* A server that has just been bound has no connections.
LEMMA ServerInit == Init => ServerInv
<1> SUFFICES ASSUME Init PROVE ServerInv
  OBVIOUS
<1> USE ServerAssumption DEF Init, Conns
<1>1. Typing
  BY DEF Typing, TypeOK, AcceptedIsBare
<1>2. RegistryInv
  BY DEF RegistryInv, RegistryIsServed, OpenIsRegistered
<1>3. UpgradeInv
  BY DEF UpgradeInv
<1>4. ListenerInv
  BY DEF ListenerInv, Over
<1> QED
  BY <1>1, <1>2, <1>3, <1>4 DEF ServerInv

----------------------------------------------------------------------------
(* Each part is kept by every step *)

\* Every step keeps the types.
LEMMA TypingStep == Typing /\ [Next]_vars => Typing'
<1> SUFFICES ASSUME Typing, [Next]_vars PROVE Typing'
  OBVIOUS
<1> USE ServerAssumption DEF Typing, TypeOK, AcceptedIsBare, Conns, flags, conns, listener, closer
<1>1. ASSUME NEW c \in Conns, Accept(c) PROVE Typing'
  BY <1>1 DEF Accept, Goto
<1>2. ASSUME NEW c \in Conns, BeginUpgrade(c) PROVE Typing'
  BY <1>2 DEF BeginUpgrade, Goto
<1>3. ASSUME NEW c \in Conns, Spawn(c) PROVE Typing'
  BY <1>3 DEF Spawn, Goto
<1>4. ASSUME NEW c \in Conns, Join(c) PROVE Typing'
  BY <1>4 DEF Join
<1>5. ASSUME NEW c \in Conns, HandshakeFails(c) PROVE Typing'
  BY <1>5 DEF HandshakeFails, Goto
<1>6. ASSUME NEW c \in Conns, HandshakeSucceeds(c) PROVE Typing'
  BY <1>6 DEF HandshakeSucceeds, Goto
<1>7. ASSUME NEW c \in Conns, StartSession(c) PROVE Typing'
  BY <1>7 DEF StartSession, Goto
<1>8. ASSUME NEW c \in Conns, Insert(c) PROVE Typing'
  BY <1>8 DEF Insert, Goto
<1>9. ASSUME NEW c \in Conns, ReleaseUpgrade(c) PROVE Typing'
  BY <1>9 DEF ReleaseUpgrade, Goto
<1>10. ASSUME NEW c \in Conns, OnConnected(c) PROVE Typing'
  BY <1>10 DEF OnConnected, CloseSessions, Goto
<1>11. ASSUME NEW c \in Conns, OnConnectedEnds(c) PROVE Typing'
  BY <1>11 DEF OnConnectedEnds, HookEnds, Phase, Goto
<1>12. ASSUME NEW c \in Conns, Serve(c) PROVE Typing'
  BY <1>12 DEF Serve, Goto
<1>13. ASSUME NEW c \in Conns, OnDisconnectedEnds(c) PROVE Typing'
  BY <1>13 DEF OnDisconnectedEnds, HookEnds, Phase, Goto
<1>14. ASSUME NEW c \in Conns, AbortLands(c) PROVE Typing'
  BY <1>14 DEF AbortLands, CloseSessions, HookEnds, Phase, Goto
<1>15. ASSUME NEW c \in Conns, SessionCloses(c) PROVE Typing'
  BY <1>15 DEF SessionCloses, CloseSessions
<1>16. ASSUME NEW c \in Conns, SessionClosed(c) PROVE Typing'
  BY <1>16 DEF SessionClosed
<1>17. ASSUME NEW caller \in Conns \cup {Outside}, CallCloseSessions(caller) PROVE Typing'
  BY <1>17 DEF CallCloseSessions
<1>18. ASSUME NEW caller \in Conns \cup {Outside}, CallStop(caller) PROVE Typing'
  BY <1>18 DEF CallStop
<1>19. CASE AcceptStops
  BY <1>19 DEF AcceptStops
<1>20. CASE AcceptEnds
  BY <1>20 DEF AcceptEnds
<1>21. CASE AcceptAborted
  BY <1>21 DEF AcceptAborted
<1>22. CASE Collect
  BY <1>22 DEF Collect, CloseSessions, Phase
<1>23. CASE SessionsClosed
  BY <1>23 DEF SessionsClosed, Phase
<1>24. CASE StopReturns
  BY <1>24 DEF StopReturns, TasksFinished, Phase
<1>25. CASE Deadline
  BY <1>25 DEF Deadline, Phase
<1>26. CASE StopHttp
  BY <1>26 DEF StopHttp
<1>27. CASE Rebind
  <2>1. rebound' = TRUE /\ stopped' = FALSE
    BY <1>27 DEF Rebind
  <2>2. UNCHANGED <<pc, status, sessions, pending, httpStopped, signalled, accept, tracked, aborted,
                    shutdown, collected, closedInTime, disconnectHook>>
    BY <1>27 DEF Rebind
  <2>3. TypeOK'
    <3>1. TypeOK
      BY DEF Typing
    <3>2. UNCHANGED <<pc, status, sessions, pending, httpStopped, signalled, accept, tracked, aborted,
                      shutdown, collected, closedInTime, disconnectHook>>
      BY <2>2
    <3>3. stopped' \in BOOLEAN /\ rebound' \in BOOLEAN
      BY <2>1
    <3> QED
      BY ONLY <3>1, <3>2, <3>3 DEF TypeOK, Conns
  <2>4. AcceptedIsBare'
    BY <2>2
  <2> QED
    BY <2>3, <2>4
<1>28. CASE UNCHANGED vars
  BY <1>28 DEF vars
<1>29. ASSUME NEW c \in Conns, HookPanics(c) PROVE Typing'
  BY <1>29 DEF HookPanics, CloseSessions, HookEnds, Phase, Goto
<1> QED
  BY StepCases, <1>1, <1>2, <1>3, <1>4, <1>5, <1>6, <1>7, <1>8, <1>9, <1>10, <1>11, <1>12, <1>13, <1>14,
     <1>15, <1>16, <1>17, <1>18, <1>19, <1>20, <1>21, <1>22, <1>23, <1>24, <1>25, <1>26, <1>27, <1>28, <1>29

\* A session is registered before it is served and removed when it has closed.
LEMMA RegistryStep == Typing /\ RegistryInv /\ [Next]_vars => RegistryInv'
<1> SUFFICES ASSUME Typing, RegistryInv, [Next]_vars PROVE RegistryInv'
  OBVIOUS
<1> USE DEF Typing, TypeOK, RegistryInv, RegistryIsServed, OpenIsRegistered, Serving,
        flags, conns, listener, closer
<1>1. ASSUME NEW c \in Conns, Accept(c) PROVE RegistryInv'
  BY <1>1 DEF Accept, Goto
<1>2. ASSUME NEW c \in Conns, BeginUpgrade(c) PROVE RegistryInv'
  BY <1>2 DEF BeginUpgrade, Goto
<1>3. ASSUME NEW c \in Conns, Spawn(c) PROVE RegistryInv'
  BY <1>3 DEF Spawn, Goto
<1>4. ASSUME NEW c \in Conns, Join(c) PROVE RegistryInv'
  BY <1>4 DEF Join
<1>5. ASSUME NEW c \in Conns, HandshakeFails(c) PROVE RegistryInv'
  BY <1>5 DEF HandshakeFails, Goto
<1>6. ASSUME NEW c \in Conns, HandshakeSucceeds(c) PROVE RegistryInv'
  BY <1>6 DEF HandshakeSucceeds, Goto
<1>7. ASSUME NEW c \in Conns, StartSession(c) PROVE RegistryInv'
  BY <1>7 DEF StartSession, Goto
<1>8. ASSUME NEW c \in Conns, Insert(c) PROVE RegistryInv'
  BY <1>8 DEF Insert, Goto
<1>9. ASSUME NEW c \in Conns, ReleaseUpgrade(c) PROVE RegistryInv'
  BY <1>9 DEF ReleaseUpgrade, Goto
<1>10. ASSUME NEW c \in Conns, OnConnected(c) PROVE RegistryInv'
  BY <1>10 DEF OnConnected, CloseSessions, Goto
<1>11. ASSUME NEW c \in Conns, OnConnectedEnds(c) PROVE RegistryInv'
  BY <1>11 DEF OnConnectedEnds, HookEnds, Phase, Goto
<1>12. ASSUME NEW c \in Conns, Serve(c) PROVE RegistryInv'
  BY <1>12 DEF Serve, Goto
<1>13. ASSUME NEW c \in Conns, OnDisconnectedEnds(c) PROVE RegistryInv'
  BY <1>13 DEF OnDisconnectedEnds, HookEnds, Phase, Goto
<1>14. ASSUME NEW c \in Conns, AbortLands(c) PROVE RegistryInv'
  BY <1>14 DEF AbortLands, CloseSessions, HookEnds, Phase, Goto
<1>15. ASSUME NEW c \in Conns, SessionCloses(c) PROVE RegistryInv'
  BY <1>15 DEF SessionCloses, CloseSessions
<1>16. ASSUME NEW c \in Conns, SessionClosed(c) PROVE RegistryInv'
  BY <1>16 DEF SessionClosed
<1>17. ASSUME NEW caller \in Conns \cup {Outside}, CallCloseSessions(caller) PROVE RegistryInv'
  BY <1>17 DEF CallCloseSessions
<1>18. ASSUME NEW caller \in Conns \cup {Outside}, CallStop(caller) PROVE RegistryInv'
  BY <1>18 DEF CallStop
<1>19. CASE AcceptStops
  BY <1>19 DEF AcceptStops
<1>20. CASE AcceptEnds
  BY <1>20 DEF AcceptEnds
<1>21. CASE AcceptAborted
  BY <1>21 DEF AcceptAborted
<1>22. CASE Collect
  BY <1>22 DEF Collect, CloseSessions, Phase
<1>23. CASE SessionsClosed
  BY <1>23 DEF SessionsClosed, Phase
<1>24. CASE StopReturns
  BY <1>24 DEF StopReturns, TasksFinished, Phase
<1>25. CASE Deadline
  BY <1>25 DEF Deadline, Phase
<1>26. CASE StopHttp
  BY <1>26 DEF StopHttp
<1>27. CASE Rebind
  BY <1>27 DEF Rebind
<1>28. CASE UNCHANGED vars
  BY <1>28 DEF vars
<1>29. ASSUME NEW c \in Conns, HookPanics(c) PROVE RegistryInv'
  BY <1>29 DEF HookPanics, CloseSessions, HookEnds, Phase, Goto
<1> QED
  BY StepCases, <1>1, <1>2, <1>3, <1>4, <1>5, <1>6, <1>7, <1>8, <1>9, <1>10, <1>11, <1>12, <1>13, <1>14,
     <1>15, <1>16, <1>17, <1>18, <1>19, <1>20, <1>21, <1>22, <1>23, <1>24, <1>25, <1>26, <1>27, <1>28, <1>29

\* close_sessions waits for every upgrade and for every session it collects.
LEMMA UpgradeStep == Typing /\ RegistryInv /\ UpgradeInv /\ [Next]_vars => UpgradeInv'
<1> SUFFICES ASSUME Typing, RegistryInv, UpgradeInv, [Next]_vars PROVE UpgradeInv'
  OBVIOUS
<1> USE ServerAssumption DEF Typing, TypeOK, AcceptedIsBare, UpgradeInv, RegistryInv, RegistryIsServed, OpenIsRegistered,
        ClosingAfterPanic, Serving, Conns, flags, conns, listener, closer
<1>1. ASSUME NEW c \in Conns, Accept(c) PROVE UpgradeInv'
  BY <1>1 DEF Accept, Goto
<1>2. ASSUME NEW c \in Conns, BeginUpgrade(c) PROVE UpgradeInv'
  BY <1>2 DEF BeginUpgrade, Goto
<1>3. ASSUME NEW c \in Conns, Spawn(c) PROVE UpgradeInv'
  BY <1>3 DEF Spawn, Goto
<1>4. ASSUME NEW c \in Conns, Join(c) PROVE UpgradeInv'
  BY <1>4 DEF Join
<1>5. ASSUME NEW c \in Conns, HandshakeFails(c) PROVE UpgradeInv'
  BY <1>5 DEF HandshakeFails, Goto
<1>6. ASSUME NEW c \in Conns, HandshakeSucceeds(c) PROVE UpgradeInv'
  BY <1>6 DEF HandshakeSucceeds, Goto
<1>7. ASSUME NEW c \in Conns, StartSession(c) PROVE UpgradeInv'
  BY <1>7 DEF StartSession, Goto
<1>8. ASSUME NEW c \in Conns, Insert(c) PROVE UpgradeInv'
  BY <1>8 DEF Insert, Goto
<1>9. ASSUME NEW c \in Conns, ReleaseUpgrade(c) PROVE UpgradeInv'
  BY <1>9 DEF ReleaseUpgrade, Goto
<1>10. ASSUME NEW c \in Conns, OnConnected(c) PROVE UpgradeInv'
  BY <1>10 DEF OnConnected, CloseSessions, Goto
<1>11. ASSUME NEW c \in Conns, OnConnectedEnds(c) PROVE UpgradeInv'
  BY <1>11 DEF OnConnectedEnds, HookEnds, Phase, Goto
<1>12. ASSUME NEW c \in Conns, Serve(c) PROVE UpgradeInv'
  BY <1>12 DEF Serve, Goto
<1>13. ASSUME NEW c \in Conns, OnDisconnectedEnds(c) PROVE UpgradeInv'
  BY <1>13 DEF OnDisconnectedEnds, HookEnds, Phase, Goto
<1>14. ASSUME NEW c \in Conns, AbortLands(c) PROVE UpgradeInv'
  BY <1>14 DEF AbortLands, CloseSessions, HookEnds, Phase, Goto
<1>15. ASSUME NEW c \in Conns, SessionCloses(c) PROVE UpgradeInv'
  BY <1>15 DEF SessionCloses, CloseSessions
<1>16. ASSUME NEW c \in Conns, SessionClosed(c) PROVE UpgradeInv'
  BY <1>16 DEF SessionClosed
<1>17. ASSUME NEW caller \in Conns \cup {Outside}, CallCloseSessions(caller) PROVE UpgradeInv'
  BY <1>17 DEF CallCloseSessions
<1>18. ASSUME NEW caller \in Conns \cup {Outside}, CallStop(caller) PROVE UpgradeInv'
  BY <1>18 DEF CallStop
<1>19. CASE AcceptStops
  BY <1>19 DEF AcceptStops
<1>20. CASE AcceptEnds
  BY <1>20 DEF AcceptEnds
<1>21. CASE AcceptAborted
  BY <1>21 DEF AcceptAborted
<1>22. CASE Collect
  BY <1>22 DEF Collect, CloseSessions, Phase
<1>23. CASE SessionsClosed
  BY <1>23 DEF SessionsClosed, Phase
<1>24. CASE StopReturns
  BY <1>24 DEF StopReturns, TasksFinished, Phase
<1>25. CASE Deadline
  BY <1>25 DEF Deadline, Phase
<1>26. CASE StopHttp
  BY <1>26 DEF StopHttp
<1>27. CASE Rebind
  BY <1>27 DEF Rebind
<1>28. CASE UNCHANGED vars
  BY <1>28 DEF vars
<1>29. ASSUME NEW c \in Conns, HookPanics(c) PROVE UpgradeInv'
  BY <1>29 DEF HookPanics, CloseSessions, HookEnds, Phase, Goto
<1> QED
  BY StepCases, <1>1, <1>2, <1>3, <1>4, <1>5, <1>6, <1>7, <1>8, <1>9, <1>10, <1>11, <1>12, <1>13, <1>14,
     <1>15, <1>16, <1>17, <1>18, <1>19, <1>20, <1>21, <1>22, <1>23, <1>24, <1>25, <1>26, <1>27, <1>28, <1>29

\* stop waits for the accept loop, which joins or aborts every task it spawned.
LEMMA ListenerStep == Typing /\ UpgradeInv /\ ListenerInv /\ [Next]_vars => ListenerInv'
<1> SUFFICES ASSUME Typing, UpgradeInv, ListenerInv, [Next]_vars PROVE ListenerInv'
  OBVIOUS
<1> USE ServerAssumption DEF Typing, TypeOK, AcceptedIsBare, UpgradeInv, ListenerInv, StopLeavesNoTask, Over,
        ClosingAfterPanic, Conns, flags, conns, listener, closer
<1>1. ASSUME NEW c \in Conns, Accept(c) PROVE ListenerInv'
  BY <1>1 DEF Accept, Goto
<1>2. ASSUME NEW c \in Conns, BeginUpgrade(c) PROVE ListenerInv'
  BY <1>2 DEF BeginUpgrade, Goto
<1>3. ASSUME NEW c \in Conns, Spawn(c) PROVE ListenerInv'
  BY <1>3 DEF Spawn, Goto
<1>4. ASSUME NEW c \in Conns, Join(c) PROVE ListenerInv'
  BY <1>4 DEF Join
<1>5. ASSUME NEW c \in Conns, HandshakeFails(c) PROVE ListenerInv'
  BY <1>5 DEF HandshakeFails, Goto
<1>6. ASSUME NEW c \in Conns, HandshakeSucceeds(c) PROVE ListenerInv'
  BY <1>6 DEF HandshakeSucceeds, Goto
<1>7. ASSUME NEW c \in Conns, StartSession(c) PROVE ListenerInv'
  BY <1>7 DEF StartSession, Goto
<1>8. ASSUME NEW c \in Conns, Insert(c) PROVE ListenerInv'
  BY <1>8 DEF Insert, Goto
<1>9. ASSUME NEW c \in Conns, ReleaseUpgrade(c) PROVE ListenerInv'
  BY <1>9 DEF ReleaseUpgrade, Goto
<1>10. ASSUME NEW c \in Conns, OnConnected(c) PROVE ListenerInv'
  BY <1>10 DEF OnConnected, CloseSessions, Goto
<1>11. ASSUME NEW c \in Conns, OnConnectedEnds(c) PROVE ListenerInv'
  BY <1>11 DEF OnConnectedEnds, HookEnds, Phase, Goto
<1>12. ASSUME NEW c \in Conns, Serve(c) PROVE ListenerInv'
  BY <1>12 DEF Serve, Goto
<1>13. ASSUME NEW c \in Conns, OnDisconnectedEnds(c) PROVE ListenerInv'
  BY <1>13 DEF OnDisconnectedEnds, HookEnds, Phase, Goto
<1>14. ASSUME NEW c \in Conns, AbortLands(c) PROVE ListenerInv'
  BY <1>14 DEF AbortLands, CloseSessions, HookEnds, Phase, Goto
<1>15. ASSUME NEW c \in Conns, SessionCloses(c) PROVE ListenerInv'
  BY <1>15 DEF SessionCloses, CloseSessions
<1>16. ASSUME NEW c \in Conns, SessionClosed(c) PROVE ListenerInv'
  BY <1>16 DEF SessionClosed
<1>17. ASSUME NEW caller \in Conns \cup {Outside}, CallCloseSessions(caller) PROVE ListenerInv'
  BY <1>17 DEF CallCloseSessions
<1>18. ASSUME NEW caller \in Conns \cup {Outside}, CallStop(caller) PROVE ListenerInv'
  BY <1>18 DEF CallStop
<1>19. CASE AcceptStops
  BY <1>19 DEF AcceptStops
<1>20. CASE AcceptEnds
  BY <1>20 DEF AcceptEnds
<1>21. CASE AcceptAborted
  BY <1>21 DEF AcceptAborted
<1>22. CASE Collect
  BY <1>22 DEF Collect, CloseSessions, Phase
<1>23. CASE SessionsClosed
  BY <1>23 DEF SessionsClosed, Phase
<1>24. CASE StopReturns
  BY <1>24 DEF StopReturns, TasksFinished, Phase
<1>25. CASE Deadline
  BY <1>25 DEF Deadline, Phase
<1>26. CASE StopHttp
  BY <1>26 DEF StopHttp
<1>27. CASE Rebind
  BY <1>27 DEF Rebind
<1>28. CASE UNCHANGED vars
  BY <1>28 DEF vars
<1>29. ASSUME NEW c \in Conns, HookPanics(c) PROVE ListenerInv'
  BY <1>29 DEF HookPanics, CloseSessions, HookEnds, Phase, Goto
<1> QED
  BY StepCases, <1>1, <1>2, <1>3, <1>4, <1>5, <1>6, <1>7, <1>8, <1>9, <1>10, <1>11, <1>12, <1>13, <1>14,
     <1>15, <1>16, <1>17, <1>18, <1>19, <1>20, <1>21, <1>22, <1>23, <1>24, <1>25, <1>26, <1>27, <1>28, <1>29

----------------------------------------------------------------------------
(* The theorems *)

\* The inductive invariant of the server.
THEOREM ServerSafe == Spec => []ServerInv
<1>1. ServerInv /\ [Next]_vars => ServerInv'
  BY TypingStep, RegistryStep, UpgradeStep, ListenerStep DEF ServerInv
<1> QED
  BY ServerInit, <1>1, PTL DEF Spec

\* The variables of a server keep their types, and an upgrade is pending only
\* until it has registered or failed.
THEOREM ServerTypeCorrect == Spec => []TypeOK
<1>1. ServerInv => TypeOK
  BY DEF ServerInv, Typing
<1> QED
  BY <1>1, ServerSafe, PTL

\* Whatever is in the registry is served by a task that will remove it, whatever
\* is aborted, stopped or bound again (SessionCleanup, serve_session).
THEOREM RegisteredIsServed == Spec => []RegistryIsServed
<1>1. ServerInv => RegistryIsServed
  BY DEF ServerInv, RegistryInv
<1> QED
  BY <1>1, ServerSafe, PTL

\* Every open session is found by a shutdown or about to be registered.
THEOREM OpenIsFound == Spec => []OpenIsRegistered
<1>1. ServerInv => OpenIsRegistered
  BY DEF ServerInv, RegistryInv
<1> QED
  BY <1>1, ServerSafe, PTL

\* close_sessions after the end of the HTTP server leaves no upgraded session.
THEOREM ClosingLeavesNone == Spec => []CloseLeavesNone
<1>1. ServerInv => CloseLeavesNone
  BY DEF ServerInv, UpgradeInv, CloseLeavesNone
<1> QED
  BY <1>1, ServerSafe, PTL

\* stop leaves no task of a connection, except aborted ones and the one whose
\* hook awaits it.
THEOREM StoppingLeavesNone == Spec => []StopLeavesNoTask
<1>1. ServerInv => StopLeavesNoTask
  BY DEF ServerInv, ListenerInv, StopLeavesNoTask
<1> QED
  BY <1>1, ServerSafe, PTL
=============================================================================
