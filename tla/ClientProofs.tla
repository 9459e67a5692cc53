---------------------------- MODULE ClientProofs ----------------------------
(***************************************************************************)
(* Proofs about Client: which session a client shows (OnlyLatestShown),    *)
(* that none is left behind (NoOrphanSession), and that a connection that  *)
(* start() replaced is never reported (ReplacedSilently), for any number   *)
(* of starts, reconnects and tasks that run on after their abort.          *)
(***************************************************************************)
EXTENDS Client, Induction

\* The steps of a client, one action each.
LEMMA StepCases ==
  ASSUME [Next]_vars
  PROVE  \/ Start \/ Stop
         \/ \E g \in Generations :
              \/ StopDeadline(g) \/ ConnectSucceeds(g) \/ ConnectFails(g) \/ Interrupted(g)
              \/ Install(g) \/ OnConnected(g) \/ OnConnectedEnds(g)
              \/ Serve(g) \/ AwaitClosed(g) \/ Clear(g) \/ Notify(g) \/ OnDisconnectedEnds(g)
              \/ CheckStop(g) \/ BackoffEnds(g) \/ AbortLands(g) \/ HookPanics(g)
         \/ \E id \in Ids : SessionCloses(id) \/ SessionClosed(id)
         \/ UNCHANGED vars
BY DEF Next, Run

\* The points of `run` between the connect and the end of an attempt, where the
\* task holds a session; after `clear` it no longer shows it.
Holding == {"install", "connected", "on_connected", "serve", "closing", "clear", "notify", "on_disconnected"}
Reported == {"on_disconnected", "check", "backoff", "connect", "ended", "panicked"}

\* The types apart from the waits, which no other variable depends on.
Typing ==
    /\ running \in BOOLEAN /\ generation \in 0..MaxStarts
    /\ current \in Ids \cup {NoSession} /\ connected \in BOOLEAN
    /\ stop \in [Generations -> {"No", "Notify", "Quiet"}]
    /\ aborted \subseteq Generations
    /\ pc \in [Generations -> Awaits \cup
                  {"none", "install", "connected", "clear", "notify", "check", "ended", "panicked"}]
    /\ attempts \in [Generations -> 0..MaxSessions]
    /\ status \in [Ids -> {"none", "open", "closing", "closed"}]
    /\ installed \subseteq Ids /\ replaced \subseteq Ids
    /\ disconnectedHook \subseteq Ids /\ refusedHook \subseteq Ids
    /\ \A g \in Generations : pc[g] \in Holding => attempts[g] # 0

\* A generation that has not started has no task, and the channel of the running
\* one carries no signal.
StartsInv ==
    /\ \A g \in Generations : g > generation => pc[g] = "none" /\ stop[g] = "No"
    /\ running => generation \in Generations /\ ~Stopped(generation)

\* The shown session is the one its task is driving, which has been installed and
\* not yet cleared.
ShownInv ==
    /\ OnlyLatestShown
    /\ current # NoSession =>
          /\ current = Session(generation)
          /\ pc[generation] \in {"connected", "on_connected", "serve", "closing", "clear", "ended", "panicked"}

\* A session is cleared only once it has closed.
OrphanInv ==
    /\ NoOrphanSession
    /\ \A g \in Generations : pc[g] = "clear" => status[Session(g)] = "closed"

\* A session is reported at the end of its attempt, and a task whose session was
\* replaced has been told so.
SilenceInv ==
    /\ \A id \in disconnectedHook :
          id[2] <= attempts[id[1]] /\ (id = Session(id[1]) => pc[id[1]] \in Reported)
    /\ \A id \in replaced : stop[id[1]] = "Quiet"
    /\ current \notin disconnectedHook
    /\ ReplacedSilently

ClientInv == Typing /\ StartsInv /\ ShownInv /\ OrphanInv /\ SilenceInv

\* A new client has no task, no session and nothing to report.
LEMMA ClientInit == Init => ClientInv
<1> SUFFICES ASSUME Init PROVE ClientInv
  OBVIOUS
<1> USE ClientAssumption DEF Init
<1>1. Typing
  <2>1. generation \in 0..MaxStarts /\ attempts \in [Generations -> 0..MaxSessions]
    OBVIOUS
  <2>2. current \in Ids \cup {NoSession} /\ status \in [Ids -> {"none", "open", "closing", "closed"}]
    OBVIOUS
  <2> QED
    BY <2>1, <2>2 DEF Typing, Holding
<1>2. StartsInv /\ ShownInv
  BY DEF StartsInv, ShownInv, OnlyLatestShown, Generations, Stopped
<1>3. OrphanInv
  BY DEF OrphanInv, NoOrphanSession
<1>4. SilenceInv
  BY DEF SilenceInv, ReplacedSilently
<1> QED
  BY <1>1, <1>2, <1>3, <1>4 DEF ClientInv

----------------------------------------------------------------------------
(* Each part is kept by every step *)

\* What Session::close does to a set of sessions: nothing opens and what has
\* closed stays closed.
LEMMA Closing ==
  ASSUME Typing, NEW ids, CloseSessions(ids)
  PROVE  /\ status' \in [Ids -> {"none", "open", "closing", "closed"}]
         /\ \A id \in Ids : /\ status'[id] = "open" => status[id] = "open" /\ id \notin ids
                            /\ status[id] = "closed" => status'[id] = "closed"
BY DEF Typing, CloseSessions

\* A step of a task that neither installs nor clears a session.
LEMMA OrphanKept ==
  ASSUME Typing, Typing', OrphanInv, NEW g \in Generations, pc[g] # "install",
         \A h \in Generations : h # g => pc'[h] = pc[h],
         UNCHANGED <<current, attempts>>,
         \A id \in Ids : /\ status'[id] = "open" => status[id] = "open"
                         /\ status[id] = "closed" => status'[id] = "closed",
         pc'[g] = "clear" => status'[Session(g)] = "closed"
  PROVE  OrphanInv'
<1>1. NoOrphanSession'
  <2> SUFFICES ASSUME NEW id \in Ids, status'[id] = "open"
               PROVE  id = current \/ (pc'[id[1]] = "install" /\ id = Session(id[1])')
    BY DEF NoOrphanSession
  <2>1. id = current \/ (pc[id[1]] = "install" /\ id = Session(id[1]))
    BY DEF OrphanInv, NoOrphanSession
  <2>2. id[1] \in Generations
    BY DEF Ids
  <2> QED
    BY <2>1, <2>2 DEF Session
<1>2. ASSUME NEW h \in Generations, pc'[h] = "clear" PROVE status'[Session(h)'] = "closed"
  <2>1. Session(h)' = Session(h)
    BY DEF Session
  <2>2. h # g => Session(h) \in Ids
    BY <1>2, ClientAssumption DEF Typing, Session, Ids, Holding
  <2> QED
    BY <1>2, <2>1, <2>2 DEF OrphanInv
<1> QED
  BY <1>1, <1>2 DEF OrphanInv

\* Every step keeps the types.
LEMMA TypingStep == Typing /\ [Next]_vars => Typing'
<1> SUFFICES ASSUME Typing, [Next]_vars PROVE Typing'
  OBVIOUS
<1> USE ClientAssumption DEF Typing, Holding, Awaits, Generations, Ids, NoSession, Session, Stopped, state, reports, waits, history
<1>1. CASE Start
  <2>1. replaced' \subseteq Ids /\ aborted' \subseteq Generations /\ generation' \in 0..MaxStarts
    BY <1>1 DEF Start
  <2>2. pc' = [pc EXCEPT ![generation + 1] = "connect"] /\ UNCHANGED <<attempts, installed, reports>>
    BY <1>1 DEF Start, Goto
  <2>3. status' \in [Ids -> {"none", "open", "closing", "closed"}]
    BY <1>1, Closing DEF Start, StopLocked
  <2>4. /\ stop' \in [Generations -> {"No", "Notify", "Quiet"}]
        /\ running' = TRUE /\ current' = NoSession /\ connected' = FALSE
    BY <1>1 DEF Start, StopLocked
  <2>5. /\ pc' \in [Generations -> Awaits \cup
                       {"none", "install", "connected", "clear", "notify", "check", "ended", "panicked"}]
        /\ \A g \in Generations : pc'[g] \in Holding => attempts'[g] # 0
    BY <2>2
  <2> HIDE DEF Holding, Awaits
  <2> QED
    BY <2>1, <2>2, <2>3, <2>4, <2>5
<1>2. CASE Stop
  BY <1>2 DEF Stop, StopLocked, CloseSessions
<1>3. ASSUME NEW g \in Generations, StopDeadline(g) PROVE Typing'
  BY <1>3 DEF StopDeadline
<1>4. ASSUME NEW g \in Generations, ConnectSucceeds(g) PROVE Typing'
  <2>1. pc' = [pc EXCEPT ![g] = "install"] /\ attempts' = [attempts EXCEPT ![g] = @ + 1]
    BY <1>4 DEF ConnectSucceeds, Goto
  <2>2. attempts[g] + 1 \in 1..MaxSessions
    BY <1>4 DEF ConnectSucceeds
  <2>3. status' \in [Ids -> {"none", "open", "closing", "closed"}]
    BY <1>4, <2>2 DEF ConnectSucceeds
  <2>4. UNCHANGED <<running, generation, current, connected, stop, aborted, installed, replaced, reports>>
    BY <1>4 DEF ConnectSucceeds
  <2>5. attempts' \in [Generations -> 0..MaxSessions] /\ attempts'[g] # 0
    BY <2>1, <2>2
  <2>6. pc' \in [Generations -> Awaits \cup
                    {"none", "install", "connected", "clear", "notify", "check", "ended", "panicked"}]
    BY <2>1
  <2>7. \A h \in Generations : pc'[h] \in Holding => attempts'[h] # 0
    <3>1. \A h \in Generations : h # g => pc'[h] = pc[h] /\ attempts'[h] = attempts[h]
      BY <2>1
    <3> QED
      BY <2>5, <3>1
  <2> HIDE DEF Holding, Awaits
  <2> QED
    BY <2>3, <2>4, <2>5, <2>6, <2>7
<1>5. ASSUME NEW g \in Generations, ConnectFails(g) PROVE Typing'
  BY <1>5 DEF ConnectFails, Goto
<1>6. ASSUME NEW g \in Generations, Interrupted(g) PROVE Typing'
  BY <1>6 DEF Interrupted, Goto
<1>7. ASSUME NEW g \in Generations, Install(g) PROVE Typing'
  <2>1. Session(g) \in Ids
    BY <1>7 DEF Install
  <2>2. CASE IsReplaced(g)
    <3>1. status' \in [Ids -> {"none", "open", "closing", "closed"}]
      BY <1>7, <2>2, Closing DEF Install
    <3>2. /\ pc' = [pc EXCEPT ![g] = "ended"]
          /\ UNCHANGED <<state, stop, aborted, attempts, history>>
      BY <1>7, <2>2 DEF Install, Goto
    <3> QED
      BY <3>1, <3>2
  <2>3. CASE ~IsReplaced(g)
    <3> HIDE DEF Session
    <3>1. /\ pc' = [pc EXCEPT ![g] = "connected"]
          /\ current' = Session(g) /\ connected' = TRUE /\ installed' = installed \cup {Session(g)}
          /\ UNCHANGED <<running, generation, status, stop, aborted, attempts, replaced, reports>>
      BY <1>7, <2>3 DEF Install, Goto
    <3> QED
      BY <2>1, <3>1, <1>7 DEF Install
  <2> QED
    BY <2>2, <2>3
<1>8. ASSUME NEW g \in Generations, OnConnected(g) PROVE Typing'
  BY <1>8 DEF OnConnected, CloseSessions, Goto
<1>9. ASSUME NEW g \in Generations, OnConnectedEnds(g) PROVE Typing'
  BY <1>9 DEF OnConnectedEnds, CloseSessions, Goto
<1>10. ASSUME NEW g \in Generations, Serve(g) PROVE Typing'
  BY <1>10 DEF Serve, CloseSessions, Goto
<1>11. ASSUME NEW g \in Generations, AwaitClosed(g) PROVE Typing'
  BY <1>11 DEF AwaitClosed, Goto
<1>12. ASSUME NEW g \in Generations, Clear(g) PROVE Typing'
  BY <1>12 DEF Clear, Goto
<1>13. ASSUME NEW g \in Generations, Notify(g) PROVE Typing'
  <2>1. Session(g) \in Ids
    BY <1>13 DEF Notify
  <2>2. /\ pc' \in {[pc EXCEPT ![g] = "on_disconnected"], [pc EXCEPT ![g] = "check"]}
        /\ disconnectedHook' \subseteq disconnectedHook \cup {Session(g)}
        /\ refusedHook' \subseteq refusedHook \cup {Session(g)}
        /\ UNCHANGED <<state, stop, aborted, attempts, status, installed, replaced>>
    BY <1>13 DEF Notify, Goto
  <2> HIDE DEF Session
  <2> QED
    BY <2>1, <2>2, <1>13 DEF Notify
<1>14. ASSUME NEW g \in Generations, OnDisconnectedEnds(g) PROVE Typing'
  BY <1>14 DEF OnDisconnectedEnds, Goto
<1>15. ASSUME NEW g \in Generations, CheckStop(g) PROVE Typing'
  BY <1>15 DEF CheckStop, Goto
<1>16. ASSUME NEW g \in Generations, BackoffEnds(g) PROVE Typing'
  BY <1>16 DEF BackoffEnds, Goto
<1>17. ASSUME NEW g \in Generations, AbortLands(g) PROVE Typing'
  BY <1>17 DEF AbortLands, CloseSessions, Goto
<1>18. ASSUME NEW id \in Ids, SessionCloses(id) PROVE Typing'
  BY <1>18 DEF SessionCloses, CloseSessions
<1>19. ASSUME NEW id \in Ids, SessionClosed(id) PROVE Typing'
  BY <1>19 DEF SessionClosed
<1>20. CASE UNCHANGED vars
  BY <1>20 DEF vars
<1>21. ASSUME NEW g \in Generations, HookPanics(g) PROVE Typing'
  BY <1>21 DEF HookPanics, CloseSessions, Goto
<1> QED
  BY StepCases, <1>1, <1>2, <1>3, <1>4, <1>5, <1>6, <1>7, <1>8, <1>9, <1>10, <1>11, <1>12, <1>13, <1>14,
     <1>15, <1>16, <1>17, <1>18, <1>19, <1>20, <1>21

\* Only start() begins a generation, and it takes a fresh channel.
LEMMA StartsStep == Typing /\ StartsInv /\ [Next]_vars => StartsInv'
<1> SUFFICES ASSUME Typing, StartsInv, [Next]_vars PROVE StartsInv'
  OBVIOUS
<1> USE ClientAssumption DEF Typing, StartsInv, Generations, Stopped, state, reports, waits, history
<1>1. CASE Start
  BY <1>1 DEF Start, StopLocked, CloseSessions, Goto
<1>2. CASE Stop
  BY <1>2 DEF Stop, StopLocked, CloseSessions
<1>3. ASSUME NEW g \in Generations, StopDeadline(g) PROVE StartsInv'
  BY <1>3 DEF StopDeadline
<1>4. ASSUME NEW g \in Generations, ConnectSucceeds(g) PROVE StartsInv'
  BY <1>4 DEF ConnectSucceeds, Goto
<1>5. ASSUME NEW g \in Generations, ConnectFails(g) PROVE StartsInv'
  BY <1>5 DEF ConnectFails, Goto
<1>6. ASSUME NEW g \in Generations, Interrupted(g) PROVE StartsInv'
  BY <1>6 DEF Interrupted, Goto
<1>7. ASSUME NEW g \in Generations, Install(g) PROVE StartsInv'
  BY <1>7 DEF Install, IsReplaced, CloseSessions, Goto
<1>8. ASSUME NEW g \in Generations, OnConnected(g) PROVE StartsInv'
  BY <1>8 DEF OnConnected, CloseSessions, Goto
<1>9. ASSUME NEW g \in Generations, OnConnectedEnds(g) PROVE StartsInv'
  BY <1>9 DEF OnConnectedEnds, CloseSessions, Goto
<1>10. ASSUME NEW g \in Generations, Serve(g) PROVE StartsInv'
  BY <1>10 DEF Serve, CloseSessions, Goto
<1>11. ASSUME NEW g \in Generations, AwaitClosed(g) PROVE StartsInv'
  BY <1>11 DEF AwaitClosed, Goto
<1>12. ASSUME NEW g \in Generations, Clear(g) PROVE StartsInv'
  BY <1>12 DEF Clear, Goto
<1>13. ASSUME NEW g \in Generations, Notify(g) PROVE StartsInv'
  BY <1>13 DEF Notify, Goto
<1>14. ASSUME NEW g \in Generations, OnDisconnectedEnds(g) PROVE StartsInv'
  BY <1>14 DEF OnDisconnectedEnds, Goto
<1>15. ASSUME NEW g \in Generations, CheckStop(g) PROVE StartsInv'
  BY <1>15 DEF CheckStop, Goto
<1>16. ASSUME NEW g \in Generations, BackoffEnds(g) PROVE StartsInv'
  BY <1>16 DEF BackoffEnds, Goto
<1>17. ASSUME NEW g \in Generations, AbortLands(g) PROVE StartsInv'
  BY <1>17 DEF AbortLands, Goto, Awaits
<1>18. ASSUME NEW id \in Ids, SessionCloses(id) PROVE StartsInv'
  BY <1>18 DEF SessionCloses, CloseSessions
<1>19. ASSUME NEW id \in Ids, SessionClosed(id) PROVE StartsInv'
  BY <1>19 DEF SessionClosed
<1>20. CASE UNCHANGED vars
  BY <1>20 DEF vars
<1>21. ASSUME NEW g \in Generations, HookPanics(g) PROVE StartsInv'
  BY <1>21 DEF HookPanics, CloseSessions, Goto
<1> QED
  BY StepCases, <1>1, <1>2, <1>3, <1>4, <1>5, <1>6, <1>7, <1>8, <1>9, <1>10, <1>11, <1>12, <1>13, <1>14,
     <1>15, <1>16, <1>17, <1>18, <1>19, <1>20, <1>21

\* Only the task of the latest start installs a session, and its last step
\* before it ends or goes on is to clear it.
LEMMA ShownStep == Typing /\ StartsInv /\ ShownInv /\ [Next]_vars => ShownInv'
<1> SUFFICES ASSUME Typing, StartsInv, ShownInv, [Next]_vars PROVE ShownInv'
  OBVIOUS
<1> USE ClientAssumption DEF Typing, StartsInv, ShownInv, OnlyLatestShown,
        Generations, Ids, NoSession, Session, Stopped, state, reports, waits, history
<1>1. CASE Start
  BY <1>1 DEF Start, StopLocked, CloseSessions, Goto
<1>2. CASE Stop
  BY <1>2 DEF Stop, StopLocked, CloseSessions
<1>3. ASSUME NEW g \in Generations, StopDeadline(g) PROVE ShownInv'
  BY <1>3 DEF StopDeadline
<1>4. ASSUME NEW g \in Generations, ConnectSucceeds(g) PROVE ShownInv'
  BY <1>4 DEF ConnectSucceeds, Goto
<1>5. ASSUME NEW g \in Generations, ConnectFails(g) PROVE ShownInv'
  BY <1>5 DEF ConnectFails, Goto
<1>6. ASSUME NEW g \in Generations, Interrupted(g) PROVE ShownInv'
  BY <1>6 DEF Interrupted, Goto
<1>7. ASSUME NEW g \in Generations, Install(g) PROVE ShownInv'
  BY <1>7 DEF Install, IsReplaced, CloseSessions, Goto
<1>8. ASSUME NEW g \in Generations, OnConnected(g) PROVE ShownInv'
  BY <1>8 DEF OnConnected, CloseSessions, Goto
<1>9. ASSUME NEW g \in Generations, OnConnectedEnds(g) PROVE ShownInv'
  BY <1>9 DEF OnConnectedEnds, CloseSessions, Goto
<1>10. ASSUME NEW g \in Generations, Serve(g) PROVE ShownInv'
  BY <1>10 DEF Serve, CloseSessions, Goto
<1>11. ASSUME NEW g \in Generations, AwaitClosed(g) PROVE ShownInv'
  BY <1>11 DEF AwaitClosed, Goto
<1>12. ASSUME NEW g \in Generations, Clear(g) PROVE ShownInv'
  BY <1>12 DEF Clear, Goto
<1>13. ASSUME NEW g \in Generations, Notify(g) PROVE ShownInv'
  BY <1>13 DEF Notify, Goto
<1>14. ASSUME NEW g \in Generations, OnDisconnectedEnds(g) PROVE ShownInv'
  BY <1>14 DEF OnDisconnectedEnds, Goto
<1>15. ASSUME NEW g \in Generations, CheckStop(g) PROVE ShownInv'
  BY <1>15 DEF CheckStop, Goto
<1>16. ASSUME NEW g \in Generations, BackoffEnds(g) PROVE ShownInv'
  BY <1>16 DEF BackoffEnds, Goto
<1>17. ASSUME NEW g \in Generations, AbortLands(g) PROVE ShownInv'
  BY <1>17 DEF AbortLands, CloseSessions, Goto
<1>18. ASSUME NEW id \in Ids, SessionCloses(id) PROVE ShownInv'
  BY <1>18 DEF SessionCloses, CloseSessions
<1>19. ASSUME NEW id \in Ids, SessionClosed(id) PROVE ShownInv'
  BY <1>19 DEF SessionClosed
<1>20. CASE UNCHANGED vars
  BY <1>20 DEF vars
<1>21. ASSUME NEW g \in Generations, HookPanics(g) PROVE ShownInv'
  BY <1>21 DEF HookPanics, CloseSessions, Goto
<1> QED
  BY StepCases, <1>1, <1>2, <1>3, <1>4, <1>5, <1>6, <1>7, <1>8, <1>9, <1>10, <1>11, <1>12, <1>13, <1>14,
     <1>15, <1>16, <1>17, <1>18, <1>19, <1>20, <1>21

\* No step leaves an open session behind: a task gives up an open session only
\* by closing it, whether it is told to stop, replaced or aborted.
LEMMA OrphanStep == Typing /\ StartsInv /\ ShownInv /\ OrphanInv /\ [Next]_vars => OrphanInv'
<1> SUFFICES ASSUME Typing, StartsInv, ShownInv, OrphanInv, [Next]_vars PROVE OrphanInv'
  OBVIOUS
<1> USE ClientAssumption DEF Holding, state, reports, waits, history
<1>1. CASE Start
  <2>1. \A id \in Ids : /\ status'[id] = "open" => status[id] = "open" /\ id # current
                        /\ status[id] = "closed" => status'[id] = "closed"
    BY <1>1 DEF Start, StopLocked, CloseSessions
  <2>2. UNCHANGED attempts /\ \A h \in Generations : pc'[h] \in {"install", "clear"} => pc'[h] = pc[h]
    BY <1>1 DEF Start, Goto, Typing
  <2>3. ASSUME NEW id \in Ids, status'[id] = "open"
        PROVE  pc'[id[1]] = "install" /\ id = Session(id[1])'
    <3>1. pc[id[1]] = "install" /\ id = Session(id[1]) /\ id[1] \in Generations
      BY <2>1, <2>3 DEF OrphanInv, NoOrphanSession, Ids
    <3>2. pc'[id[1]] = "install"
      BY <1>1, <3>1 DEF Start, Goto, Typing, StartsInv, Generations
    <3> QED
      BY <2>2, <3>1, <3>2 DEF Session
  <2>4. ASSUME NEW h \in Generations, pc'[h] = "clear" PROVE status'[Session(h)'] = "closed"
    <3>1. pc[h] = "clear" /\ Session(h)' = Session(h)
      BY <2>2, <2>4 DEF Session
    <3>2. Session(h) \in Ids
      BY <3>1 DEF Typing, Session, Ids
    <3> QED
      BY <2>1, <3>1, <3>2 DEF OrphanInv
  <2> QED
    BY <2>3, <2>4 DEF OrphanInv, NoOrphanSession
<1>2. CASE Stop
  BY <1>2 DEF Stop, StopLocked, CloseSessions,
     Typing, StartsInv, ShownInv, OrphanInv, NoOrphanSession, Generations, Ids, NoSession, Session
<1>3. ASSUME NEW g \in Generations, StopDeadline(g) PROVE OrphanInv'
  BY <1>3 DEF StopDeadline,
     Typing, StartsInv, ShownInv, OrphanInv, NoOrphanSession, Generations, Ids, NoSession, Session
<1>4. ASSUME NEW g \in Generations, ConnectSucceeds(g) PROVE OrphanInv'
  <2>1. PICK new : new = <<g, attempts[g] + 1>>
    OBVIOUS
  <2>2. /\ pc[g] = "connect" /\ pc' = [pc EXCEPT ![g] = "install"] /\ UNCHANGED current
        /\ attempts' = [attempts EXCEPT ![g] = @ + 1] /\ status' = [status EXCEPT ![new] = "open"]
    BY <1>4, <2>1 DEF ConnectSucceeds, Goto
  <2>3. pc'[g] = "install" /\ Session(g)' = new /\ new[1] = g
    BY <2>1, <2>2 DEF Typing, Session
  <2>4. \A h \in Generations : h # g => pc'[h] = pc[h] /\ Session(h)' = Session(h) /\ Session(h) # new
    BY <2>1, <2>2 DEF Typing, Session
  <2>5. \A id \in Ids : id # new => status'[id] = status[id]
    BY <2>2 DEF Typing
  <2>6. ASSUME NEW id \in Ids, status'[id] = "open"
        PROVE  id = current \/ (pc'[id[1]] = "install" /\ id = Session(id[1])')
    <3>1. CASE id = new
      BY <2>3, <3>1
    <3>2. CASE id # new
      <4>1. id = current \/ (pc[id[1]] = "install" /\ id = Session(id[1]))
        BY <2>5, <2>6, <3>2 DEF OrphanInv, NoOrphanSession
      <4>2. id[1] \in Generations
        BY DEF Ids
      <4> QED
        BY <2>2, <2>4, <4>1, <4>2
    <3> QED
      BY <3>1, <3>2
  <2>7. ASSUME NEW h \in Generations, pc'[h] = "clear" PROVE status'[Session(h)'] = "closed"
    <3>1. h # g /\ pc[h] = "clear"
      BY <2>3, <2>4, <2>7
    <3>2. Session(h) \in Ids
      BY <3>1 DEF Typing, Session, Ids
    <3> QED
      BY <2>4, <2>5, <3>1, <3>2 DEF OrphanInv
  <2> QED
    BY <2>2, <2>6, <2>7 DEF OrphanInv, NoOrphanSession
<1>5. ASSUME NEW g \in Generations, ConnectFails(g) PROVE OrphanInv'
  <2>1. pc[g] # "install" /\ pc' = [pc EXCEPT ![g] = pc'[g]] /\ UNCHANGED <<current, attempts>>
    BY <1>5 DEF ConnectFails, Goto, state
  <2>2. \A id \in Ids : /\ status'[id] = "open" => status[id] = "open"
                        /\ status[id] = "closed" => status'[id] = "closed"
    BY <1>5 DEF ConnectFails, Goto, Typing
  <2>3. pc'[g] = "clear" => status'[Session(g)] = "closed"
    BY <1>5, <2>1, <2>2 DEF ConnectFails, Goto, Typing, Ids, Session, Generations, OrphanInv
  <2>4. Typing'
    BY TypingStep
  <2>5. \A h \in Generations : h # g => pc'[h] = pc[h]
    BY <2>1 DEF Typing
  <2> QED
    BY <2>1, <2>2, <2>3, <2>4, <2>5, OrphanKept
<1>6. ASSUME NEW g \in Generations, Interrupted(g) PROVE OrphanInv'
  <2>1. pc[g] # "install" /\ pc' = [pc EXCEPT ![g] = pc'[g]] /\ UNCHANGED <<current, attempts>>
    BY <1>6 DEF Interrupted, Goto, state
  <2>2. \A id \in Ids : /\ status'[id] = "open" => status[id] = "open"
                        /\ status[id] = "closed" => status'[id] = "closed"
    BY <1>6 DEF Interrupted, Goto, Typing
  <2>3. pc'[g] = "clear" => status'[Session(g)] = "closed"
    BY <1>6, <2>1, <2>2 DEF Interrupted, Goto, Typing, Ids, Session, Generations, OrphanInv
  <2>4. Typing'
    BY TypingStep
  <2>5. \A h \in Generations : h # g => pc'[h] = pc[h]
    BY <2>1 DEF Typing
  <2> QED
    BY <2>1, <2>2, <2>3, <2>4, <2>5, OrphanKept
<1>7. ASSUME NEW g \in Generations, Install(g) PROVE OrphanInv'
  <2>1. Session(g) \in Ids /\ pc[g] = "install" /\ attempts' = attempts
    BY <1>7 DEF Install, Typing, Session, Ids
  <2>2. CASE IsReplaced(g)
    <3>1. CloseSessions({Session(g)}) /\ pc' = [pc EXCEPT ![g] = "ended"] /\ UNCHANGED current
      BY <1>7, <2>2 DEF Install, Goto
    <3>2. \A id \in Ids : /\ status'[id] = "open" => status[id] = "open" /\ id # Session(g)
                          /\ status[id] = "closed" => status'[id] = "closed"
      BY <3>1, Closing
    <3>3. NoOrphanSession'
      BY <2>1, <3>1, <3>2 DEF OrphanInv, NoOrphanSession, Typing, Session, Ids
    <3>4. \A h \in Generations : pc'[h] = "clear" => status'[Session(h)'] = "closed"
      BY <2>1, <3>1, <3>2 DEF OrphanInv, Typing, Session, Ids
    <3> QED
      BY <3>3, <3>4 DEF OrphanInv
  <2>3. CASE ~IsReplaced(g)
    <3>1. /\ generation = g /\ current' = Session(g)
          /\ pc' = [pc EXCEPT ![g] = "connected"] /\ UNCHANGED status
      BY <1>7, <2>3 DEF Install, IsReplaced, Goto
    <3>2. current = NoSession
      BY <2>1, <3>1 DEF ShownInv
    <3>3. NoOrphanSession'
      <4> SUFFICES ASSUME NEW id \in Ids, status'[id] = "open"
                   PROVE  id = current' \/ (pc'[id[1]] = "install" /\ id = Session(id[1])')
        BY DEF NoOrphanSession
      <4>1. id[1] \in Generations /\ id # current
        BY <3>2 DEF Ids, NoSession, Generations
      <4>2. pc[id[1]] = "install" /\ id = Session(id[1])
        BY <3>1, <4>1 DEF OrphanInv, NoOrphanSession
      <4>3. CASE id[1] = g
        BY <3>1, <4>2, <4>3
      <4>4. CASE id[1] # g
        BY <2>1, <3>1, <4>1, <4>2, <4>4 DEF Typing, Session
      <4> QED
        BY <4>3, <4>4
    <3>4. \A h \in Generations : pc'[h] = "clear" => status'[Session(h)'] = "closed"
      BY <2>1, <3>1 DEF OrphanInv, Typing, Session
    <3> QED
      BY <3>3, <3>4 DEF OrphanInv
  <2> QED
    BY <2>2, <2>3
<1>8. ASSUME NEW g \in Generations, OnConnected(g) PROVE OrphanInv'
  <2>1. pc[g] # "install" /\ pc' = [pc EXCEPT ![g] = pc'[g]] /\ UNCHANGED <<current, attempts>>
    BY <1>8 DEF OnConnected, Goto, state
  <2>2. \A id \in Ids : /\ status'[id] = "open" => status[id] = "open"
                        /\ status[id] = "closed" => status'[id] = "closed"
    BY <1>8, Closing DEF OnConnected, Goto, Typing
  <2>3. pc'[g] = "clear" => status'[Session(g)] = "closed"
    BY <1>8, <2>1, <2>2 DEF OnConnected, Goto, Typing, Ids, Session, Generations, OrphanInv
  <2>4. Typing'
    BY TypingStep
  <2>5. \A h \in Generations : h # g => pc'[h] = pc[h]
    BY <2>1 DEF Typing
  <2> QED
    BY <2>1, <2>2, <2>3, <2>4, <2>5, OrphanKept
<1>9. ASSUME NEW g \in Generations, OnConnectedEnds(g) PROVE OrphanInv'
  <2>1. pc[g] # "install" /\ pc' = [pc EXCEPT ![g] = pc'[g]] /\ UNCHANGED <<current, attempts>>
    BY <1>9 DEF OnConnectedEnds, Goto, state
  <2>2. \A id \in Ids : /\ status'[id] = "open" => status[id] = "open"
                        /\ status[id] = "closed" => status'[id] = "closed"
    BY <1>9, Closing DEF OnConnectedEnds, Goto, Typing
  <2>3. pc'[g] = "clear" => status'[Session(g)] = "closed"
    BY <1>9, <2>1, <2>2 DEF OnConnectedEnds, Goto, Typing, Ids, Session, Generations, OrphanInv
  <2>4. Typing'
    BY TypingStep
  <2>5. \A h \in Generations : h # g => pc'[h] = pc[h]
    BY <2>1 DEF Typing
  <2> QED
    BY <2>1, <2>2, <2>3, <2>4, <2>5, OrphanKept
<1>10. ASSUME NEW g \in Generations, Serve(g) PROVE OrphanInv'
  <2>1. pc[g] # "install" /\ pc' = [pc EXCEPT ![g] = pc'[g]] /\ UNCHANGED <<current, attempts>>
    BY <1>10 DEF Serve, Goto, state
  <2>2. \A id \in Ids : /\ status'[id] = "open" => status[id] = "open"
                        /\ status[id] = "closed" => status'[id] = "closed"
    BY <1>10, Closing DEF Serve, Goto, Typing
  <2>3. pc'[g] = "clear" => status'[Session(g)] = "closed"
    BY <1>10, <2>1, <2>2 DEF Serve, Goto, Typing, Ids, Session, Generations, OrphanInv
  <2>4. Typing'
    BY TypingStep
  <2>5. \A h \in Generations : h # g => pc'[h] = pc[h]
    BY <2>1 DEF Typing
  <2> QED
    BY <2>1, <2>2, <2>3, <2>4, <2>5, OrphanKept
<1>11. ASSUME NEW g \in Generations, AwaitClosed(g) PROVE OrphanInv'
  <2>1. pc[g] # "install" /\ pc' = [pc EXCEPT ![g] = pc'[g]] /\ UNCHANGED <<current, attempts>>
    BY <1>11 DEF AwaitClosed, Goto, state
  <2>2. \A id \in Ids : /\ status'[id] = "open" => status[id] = "open"
                        /\ status[id] = "closed" => status'[id] = "closed"
    BY <1>11 DEF AwaitClosed, Goto, Typing
  <2>3. pc'[g] = "clear" => status'[Session(g)] = "closed"
    BY <1>11, <2>1, <2>2 DEF AwaitClosed, Goto, Typing, Ids, Session, Generations, OrphanInv
  <2>4. Typing'
    BY TypingStep
  <2>5. \A h \in Generations : h # g => pc'[h] = pc[h]
    BY <2>1 DEF Typing
  <2> QED
    BY <2>1, <2>2, <2>3, <2>4, <2>5, OrphanKept
<1>12. ASSUME NEW g \in Generations, Clear(g) PROVE OrphanInv'
  <2>1. /\ pc[g] = "clear" /\ pc' = [pc EXCEPT ![g] = "notify"] /\ UNCHANGED <<attempts, status>>
        /\ current' = current \/ (generation = g /\ current' = NoSession)
    BY <1>12 DEF Clear, Goto
  <2>2. \A h \in Generations : pc'[h] \in {"install", "clear"} => pc'[h] = pc[h]
    BY <2>1 DEF Typing
  <2>3. ASSUME NEW id \in Ids, status'[id] = "open"
        PROVE  id = current' \/ (pc'[id[1]] = "install" /\ id = Session(id[1])')
    <3>1. status[id] = "open" /\ status[Session(g)] = "closed" /\ id[1] \in Generations
      BY <2>1, <2>3 DEF OrphanInv, Ids
    <3>2. id = current \/ (pc[id[1]] = "install" /\ id = Session(id[1]))
      BY <3>1 DEF OrphanInv, NoOrphanSession
    <3>3. CASE id = current
      <4>1. current # NoSession => current = Session(generation)
        BY DEF ShownInv
      <4>2. current # NoSession
        BY <3>3, ClientAssumption DEF Ids, NoSession, Generations
      <4> QED
        BY <2>1, <3>1, <3>3, <4>1, <4>2
    <3>4. CASE pc[id[1]] = "install" /\ id = Session(id[1])
      BY <2>1, <3>1, <3>4 DEF Typing, Session
    <3> QED
      BY <3>2, <3>3, <3>4
  <2>4. \A h \in Generations : pc'[h] = "clear" => status'[Session(h)'] = "closed"
    BY <2>1, <2>2 DEF OrphanInv, Session
  <2> QED
    BY <2>3, <2>4 DEF OrphanInv, NoOrphanSession
<1>13. ASSUME NEW g \in Generations, Notify(g) PROVE OrphanInv'
  <2>1. pc[g] # "install" /\ pc' = [pc EXCEPT ![g] = pc'[g]] /\ UNCHANGED <<current, attempts>>
    BY <1>13 DEF Notify, Goto, state
  <2>2. \A id \in Ids : /\ status'[id] = "open" => status[id] = "open"
                        /\ status[id] = "closed" => status'[id] = "closed"
    BY <1>13 DEF Notify, Goto, Typing
  <2>3. pc'[g] = "clear" => status'[Session(g)] = "closed"
    BY <1>13, <2>1, <2>2 DEF Notify, Goto, Typing, Ids, Session, Generations, OrphanInv
  <2>4. Typing'
    BY TypingStep
  <2>5. \A h \in Generations : h # g => pc'[h] = pc[h]
    BY <2>1 DEF Typing
  <2> QED
    BY <2>1, <2>2, <2>3, <2>4, <2>5, OrphanKept
<1>14. ASSUME NEW g \in Generations, OnDisconnectedEnds(g) PROVE OrphanInv'
  <2>1. pc[g] # "install" /\ pc' = [pc EXCEPT ![g] = pc'[g]] /\ UNCHANGED <<current, attempts>>
    BY <1>14 DEF OnDisconnectedEnds, Goto, state
  <2>2. \A id \in Ids : /\ status'[id] = "open" => status[id] = "open"
                        /\ status[id] = "closed" => status'[id] = "closed"
    BY <1>14 DEF OnDisconnectedEnds, Goto, Typing
  <2>3. pc'[g] = "clear" => status'[Session(g)] = "closed"
    BY <1>14, <2>1, <2>2 DEF OnDisconnectedEnds, Goto, Typing, Ids, Session, Generations, OrphanInv
  <2>4. Typing'
    BY TypingStep
  <2>5. \A h \in Generations : h # g => pc'[h] = pc[h]
    BY <2>1 DEF Typing
  <2> QED
    BY <2>1, <2>2, <2>3, <2>4, <2>5, OrphanKept
<1>15. ASSUME NEW g \in Generations, CheckStop(g) PROVE OrphanInv'
  <2>1. pc[g] # "install" /\ pc' = [pc EXCEPT ![g] = pc'[g]] /\ UNCHANGED <<current, attempts>>
    BY <1>15 DEF CheckStop, Goto, state
  <2>2. \A id \in Ids : /\ status'[id] = "open" => status[id] = "open"
                        /\ status[id] = "closed" => status'[id] = "closed"
    BY <1>15 DEF CheckStop, Goto, Typing
  <2>3. pc'[g] = "clear" => status'[Session(g)] = "closed"
    BY <1>15, <2>1, <2>2 DEF CheckStop, Goto, Typing, Ids, Session, Generations, OrphanInv
  <2>4. Typing'
    BY TypingStep
  <2>5. \A h \in Generations : h # g => pc'[h] = pc[h]
    BY <2>1 DEF Typing
  <2> QED
    BY <2>1, <2>2, <2>3, <2>4, <2>5, OrphanKept
<1>16. ASSUME NEW g \in Generations, BackoffEnds(g) PROVE OrphanInv'
  <2>1. pc[g] # "install" /\ pc' = [pc EXCEPT ![g] = pc'[g]] /\ UNCHANGED <<current, attempts>>
    BY <1>16 DEF BackoffEnds, Goto, state
  <2>2. \A id \in Ids : /\ status'[id] = "open" => status[id] = "open"
                        /\ status[id] = "closed" => status'[id] = "closed"
    BY <1>16 DEF BackoffEnds, Goto, Typing
  <2>3. pc'[g] = "clear" => status'[Session(g)] = "closed"
    BY <1>16, <2>1, <2>2 DEF BackoffEnds, Goto, Typing, Ids, Session, Generations, OrphanInv
  <2>4. Typing'
    BY TypingStep
  <2>5. \A h \in Generations : h # g => pc'[h] = pc[h]
    BY <2>1 DEF Typing
  <2> QED
    BY <2>1, <2>2, <2>3, <2>4, <2>5, OrphanKept
<1>17. ASSUME NEW g \in Generations, AbortLands(g) PROVE OrphanInv'
  <2>1. pc[g] # "install" /\ pc' = [pc EXCEPT ![g] = pc'[g]] /\ UNCHANGED <<current, attempts>>
    BY <1>17 DEF AbortLands, Goto, Awaits, state
  <2>2. \A id \in Ids : /\ status'[id] = "open" => status[id] = "open"
                        /\ status[id] = "closed" => status'[id] = "closed"
    BY <1>17, Closing DEF AbortLands, Goto, Typing
  <2>3. pc'[g] = "clear" => status'[Session(g)] = "closed"
    BY <1>17, <2>1, <2>2 DEF AbortLands, Goto, Typing, Ids, Session, Generations, OrphanInv
  <2>4. Typing'
    BY TypingStep
  <2>5. \A h \in Generations : h # g => pc'[h] = pc[h]
    BY <2>1 DEF Typing
  <2> QED
    BY <2>1, <2>2, <2>3, <2>4, <2>5, OrphanKept
<1>18. ASSUME NEW id \in Ids, SessionCloses(id) PROVE OrphanInv'
  BY <1>18 DEF SessionCloses, CloseSessions,
     Typing, StartsInv, ShownInv, OrphanInv, NoOrphanSession, Generations, Ids, NoSession, Session
<1>19. ASSUME NEW id \in Ids, SessionClosed(id) PROVE OrphanInv'
  <2>1. /\ UNCHANGED <<pc, current, attempts>>
        /\ \A i \in Ids : /\ status'[i] = "open" => status[i] = "open"
                          /\ status[i] = "closed" => status'[i] = "closed"
    BY <1>19 DEF SessionClosed, Typing
  <2>2. NoOrphanSession'
    BY <2>1 DEF OrphanInv, NoOrphanSession, Session
  <2>3. ASSUME NEW h \in Generations, pc'[h] = "clear" PROVE status'[Session(h)'] = "closed"
    <3>1. Session(h)' = Session(h) /\ Session(h) \in Ids
      BY <2>1, <2>3 DEF Typing, Session, Ids
    <3> QED
      BY <2>1, <2>3, <3>1 DEF OrphanInv
  <2> QED
    BY <2>2, <2>3 DEF OrphanInv
<1>20. CASE UNCHANGED vars
  BY <1>20 DEF vars,
     Typing, StartsInv, ShownInv, OrphanInv, NoOrphanSession, Generations, Ids, NoSession, Session
<1>21. ASSUME NEW g \in Generations, HookPanics(g) PROVE OrphanInv'
  <2>1. pc[g] # "install" /\ pc' = [pc EXCEPT ![g] = pc'[g]] /\ UNCHANGED <<current, attempts>>
    BY <1>21 DEF HookPanics, Goto, state
  <2>2. \A id \in Ids : /\ status'[id] = "open" => status[id] = "open"
                        /\ status[id] = "closed" => status'[id] = "closed"
    BY <1>21, Closing DEF HookPanics, Goto, Typing
  <2>3. pc'[g] = "clear" => status'[Session(g)] = "closed"
    BY <1>21, <2>1, <2>2 DEF HookPanics, Goto, Typing, Ids, Session, Generations, OrphanInv
  <2>4. Typing'
    BY TypingStep
  <2>5. \A h \in Generations : h # g => pc'[h] = pc[h]
    BY <2>1 DEF Typing
  <2> QED
    BY <2>1, <2>2, <2>3, <2>4, <2>5, OrphanKept
<1> QED
  BY StepCases, <1>1, <1>2, <1>3, <1>4, <1>5, <1>6, <1>7, <1>8, <1>9, <1>10, <1>11, <1>12, <1>13, <1>14,
     <1>15, <1>16, <1>17, <1>18, <1>19, <1>20, <1>21

\* A task reports its session only if nobody has told it to be quiet, and start()
\* tells the task whose session it replaces.
LEMMA SilenceStep == Typing /\ StartsInv /\ ShownInv /\ SilenceInv /\ [Next]_vars => SilenceInv'
<1> SUFFICES ASSUME Typing, StartsInv, ShownInv, SilenceInv, [Next]_vars PROVE SilenceInv'
  OBVIOUS
<1> USE ClientAssumption DEF Typing, StartsInv, ShownInv, OnlyLatestShown, SilenceInv, ReplacedSilently,
        Generations, Ids, NoSession, Session, Stopped, Holding, Reported, state, reports, waits, history
<1>1. CASE Start
  BY <1>1 DEF Start, StopLocked, CloseSessions, Goto
<1>2. CASE Stop
  BY <1>2 DEF Stop, StopLocked, CloseSessions
<1>3. ASSUME NEW g \in Generations, StopDeadline(g) PROVE SilenceInv'
  BY <1>3 DEF StopDeadline
<1>4. ASSUME NEW g \in Generations, ConnectSucceeds(g) PROVE SilenceInv'
  <2>1. /\ attempts' = [attempts EXCEPT ![g] = @ + 1] /\ pc' = [pc EXCEPT ![g] = "install"]
        /\ pc[g] = "connect" /\ UNCHANGED <<running, generation, current, connected, stop, aborted>>
        /\ UNCHANGED <<installed, replaced, disconnectedHook, refusedHook>>
    BY <1>4 DEF ConnectSucceeds, Goto
  <2>2. ASSUME NEW id \in disconnectedHook
        PROVE  id[2] <= attempts'[id[1]] /\ (id = Session(id[1])' => pc'[id[1]] \in Reported)
    <3>1. id[1] \in Generations /\ id[2] <= attempts[id[1]] /\ attempts[id[1]] \in Nat /\ id[2] \in Nat
      OBVIOUS
    <3>2. CASE id[1] = g
      <4>1. attempts'[g] = attempts[g] + 1
        BY <2>1
      <4>2. id[2] <= attempts'[id[1]] /\ id # Session(id[1])'
        BY <3>1, <3>2, <4>1
      <4> QED
        BY <4>2
    <3>3. CASE id[1] # g
      BY <2>1, <2>2, <3>1, <3>3
    <3> QED
      BY <3>2, <3>3
  <2> QED
    BY <2>1, <2>2
<1>5. ASSUME NEW g \in Generations, ConnectFails(g) PROVE SilenceInv'
  BY <1>5 DEF ConnectFails, Goto
<1>6. ASSUME NEW g \in Generations, Interrupted(g) PROVE SilenceInv'
  BY <1>6 DEF Interrupted, Goto
<1>7. ASSUME NEW g \in Generations, Install(g) PROVE SilenceInv'
  <2>1. /\ pc' \in {[pc EXCEPT ![g] = "ended"], [pc EXCEPT ![g] = "connected"]}
        /\ current' \in {current, Session(g)}
        /\ UNCHANGED <<attempts, stop, replaced, disconnectedHook>>
    BY <1>7 DEF Install, Goto
  <2>2. \A id \in disconnectedHook : id \in Ids /\ id[1] \in Generations
    OBVIOUS
  <2>3. pc[g] = "install" /\ Session(g) \notin disconnectedHook
    BY <1>7 DEF Install
  <2>4. \A id \in disconnectedHook : id = Session(id[1]) => pc'[id[1]] \in Reported
    <3> SUFFICES ASSUME NEW id \in disconnectedHook, id = Session(id[1]) PROVE pc'[id[1]] \in Reported
      OBVIOUS
    <3>1. id[1] # g
      BY <2>3
    <3>2. pc[id[1]] \in Reported
      OBVIOUS
    <3> QED
      BY <2>1, <2>2, <3>1, <3>2
  <2>5. current' \notin disconnectedHook'
    BY <2>1, <2>3
  <2> QED
    BY <2>1, <2>2, <2>4, <2>5
<1>8. ASSUME NEW g \in Generations, OnConnected(g) PROVE SilenceInv'
  BY <1>8 DEF OnConnected, CloseSessions, Goto
<1>9. ASSUME NEW g \in Generations, OnConnectedEnds(g) PROVE SilenceInv'
  BY <1>9 DEF OnConnectedEnds, CloseSessions, Goto
<1>10. ASSUME NEW g \in Generations, Serve(g) PROVE SilenceInv'
  BY <1>10 DEF Serve, CloseSessions, Goto
<1>11. ASSUME NEW g \in Generations, AwaitClosed(g) PROVE SilenceInv'
  BY <1>11 DEF AwaitClosed, Goto
<1>12. ASSUME NEW g \in Generations, Clear(g) PROVE SilenceInv'
  BY <1>12 DEF Clear, Goto
<1>13. ASSUME NEW g \in Generations, Notify(g) PROVE SilenceInv'
  <2>1. UNCHANGED <<attempts, stop, replaced, current>> /\ pc[g] = "notify" /\ Session(g) \in Ids
    BY <1>13 DEF Notify
  <2>2. current # Session(g)
    BY <2>1
  <2>3. CASE disconnectedHook' = disconnectedHook
    <3>1. pc' \in {[pc EXCEPT ![g] = "on_disconnected"], [pc EXCEPT ![g] = "check"]}
      BY <1>13 DEF Notify, Goto
    <3>2. \A h \in Generations : pc'[h] = pc[h] \/ pc'[h] \in {"on_disconnected", "check"}
      BY <3>1
    <3>3. \A id \in disconnectedHook : id[1] \in Generations /\ (id = Session(id[1]) => pc[id[1]] \in Reported)
      OBVIOUS
    <3>4. \A id \in disconnectedHook : id = Session(id[1]) => pc'[id[1]] \in Reported
      BY <3>2, <3>3
    <3> QED
      BY <2>1, <2>3, <3>4
  <2>4. CASE /\ stop[g] # "Quiet" /\ pc' = [pc EXCEPT ![g] = "on_disconnected"]
             /\ disconnectedHook' = disconnectedHook \cup {Session(g)}
    <3>1. \A id \in disconnectedHook' :
             id[2] <= attempts[id[1]] /\ (id = Session(id[1]) => pc'[id[1]] \in Reported)
      BY <2>1, <2>4
    <3>2. Session(g) \notin replaced
      BY <2>4
    <3>3. current \notin disconnectedHook'
      BY <2>2, <2>4
    <3>4. ReplacedSilently'
      BY <2>1, <2>4, <3>2
    <3> HIDE DEF Session, Reported
    <3> QED
      BY <2>1, <3>1, <3>3, <3>4 DEF Session
  <2> QED
    BY <1>13, <2>3, <2>4 DEF Notify, Goto
<1>14. ASSUME NEW g \in Generations, OnDisconnectedEnds(g) PROVE SilenceInv'
  BY <1>14 DEF OnDisconnectedEnds, Goto
<1>15. ASSUME NEW g \in Generations, CheckStop(g) PROVE SilenceInv'
  BY <1>15 DEF CheckStop, Goto
<1>16. ASSUME NEW g \in Generations, BackoffEnds(g) PROVE SilenceInv'
  BY <1>16 DEF BackoffEnds, Goto
<1>17. ASSUME NEW g \in Generations, AbortLands(g) PROVE SilenceInv'
  BY <1>17 DEF AbortLands, CloseSessions, Goto
<1>18. ASSUME NEW id \in Ids, SessionCloses(id) PROVE SilenceInv'
  BY <1>18 DEF SessionCloses, CloseSessions
<1>19. ASSUME NEW id \in Ids, SessionClosed(id) PROVE SilenceInv'
  BY <1>19 DEF SessionClosed
<1>20. CASE UNCHANGED vars
  BY <1>20 DEF vars
<1>21. ASSUME NEW g \in Generations, HookPanics(g) PROVE SilenceInv'
  BY <1>21 DEF HookPanics, CloseSessions, Goto
<1> QED
  BY StepCases, <1>1, <1>2, <1>3, <1>4, <1>5, <1>6, <1>7, <1>8, <1>9, <1>10, <1>11, <1>12, <1>13, <1>14,
     <1>15, <1>16, <1>17, <1>18, <1>19, <1>20, <1>21

----------------------------------------------------------------------------
(* The theorems *)

\* The inductive invariant of the client.
THEOREM ClientSafe == Spec => []ClientInv
<1>1. ClientInv /\ [Next]_vars => ClientInv'
  BY TypingStep, StartsStep, ShownStep, OrphanStep, SilenceStep DEF ClientInv
<1> QED
  BY ClientInit, <1>1, PTL DEF Spec

\* The session a client shows is one of its latest start, whatever tasks of
\* earlier starts still do (set_session, stop_locked).
THEOREM LatestIsShown == Spec => []OnlyLatestShown
<1>1. ClientInv => OnlyLatestShown
  BY DEF ClientInv, ShownInv
<1> QED
  BY <1>1, ClientSafe, PTL

\* An open session is shown or about to be; none is left open behind the client.
THEOREM NoneOrphaned == Spec => []NoOrphanSession
<1>1. ClientInv => NoOrphanSession
  BY DEF ClientInv, OrphanInv
<1> QED
  BY <1>1, ClientSafe, PTL

\* on_disconnected is not called for a connection that start() replaced.
THEOREM ReplacementIsSilent == Spec => []ReplacedSilently
<1>1. ClientInv => ReplacedSilently
  BY DEF ClientInv, SilenceInv
<1> QED
  BY <1>1, ClientSafe, PTL

----------------------------------------------------------------------------
(* The waits *)

\* The recursive definition defines a function.
LEMMA PowersAreDefined ==
  ASSUME NEW first \in Nat, NEW factor \in Nat
  PROVE  /\ \A n \in Nat : Powers(first, factor)[n] \in Nat
         /\ Powers(first, factor)[0] = first
         /\ \A n \in Nat : Powers(first, factor)[n + 1] = factor * Powers(first, factor)[n]
<1> DEFINE Rec(f) == f = [n \in Nat |-> IF n = 0 THEN first ELSE factor * f[n - 1]]
           P == Powers(first, factor)
<1>1. PICK step \in [Nat \X Nat -> Nat] : \A n, k \in Nat : step[<<n, k>>] = factor * k
  <2>1. [p \in Nat \X Nat |-> factor * p[2]] \in [Nat \X Nat -> Nat]
    OBVIOUS
  <2> QED
    BY <2>1
<1>2. PICK f \in [Nat -> Nat] : f[0] = first /\ \A n \in Nat : f[n + 1] = step[<<n, f[n]>>]
  <2>1. Iterates(Nat, first, step) # {}
    BY PrimitiveRecursion
  <2> QED
    BY <2>1 DEF Iterates
<1>3. Rec(f)
  <2>1. ASSUME NEW n \in Nat, n # 0 PROVE f[n] = factor * f[n - 1]
    <3>1. PICK m \in Nat : m = n - 1 /\ m + 1 = n
      BY <2>1
    <3>2. f[m + 1] = step[<<m, f[m]>>] /\ f[m] \in Nat
      BY <1>2
    <3> QED
      BY <1>1, <3>1, <3>2
  <2>2. f[0] = first
    BY <1>2
  <2> QED
    BY <2>1, <2>2
<1>4. P = CHOOSE g : Rec(g)
  BY DEF Powers
<1>5. Rec(P)
  BY <1>3, <1>4
<1> HIDE DEF P
<1>6. P[0] = first /\ \A n \in Nat : P[n + 1] = factor * P[n]
  BY <1>5
<1>7. \A n \in Nat : P[n] \in Nat
  <2> DEFINE S == {n \in Nat : P[n] \in Nat}
  <2>1. 0 \in S /\ \A n \in Nat : n \in S => n + 1 \in S
    BY <1>6
  <2>2. Nat \subseteq S
    <3> HIDE DEF S
    <3> QED
      BY <2>1, Naturals_Induction
  <2> QED
    BY <2>2
<1> QED
  BY <1>6, <1>7 DEF P

\* The quotient of naturals, and that it does not shrink when the numerator grows
\* by at least the factor of the denominator.
LEMMA Quotient ==
  ASSUME NEW a \in Nat, NEW d \in Nat, d >= 1
  PROVE  a \div d \in Nat /\ (a \div d) * d <= a
OBVIOUS

LEMMA QuotientIsLargest ==
  ASSUME NEW a \in Nat, NEW d \in Nat, d >= 1, NEW q \in Nat, q * d <= a
  PROVE  q <= a \div d
OBVIOUS

\* The delay without its maximum.
Uncapped(n) == Powers(Initial, Growth)[n] \div Powers(1, Denominator)[n]

\* Each power of the multiplier is at least the one before.
LEMMA UncappedGrows ==
  /\ \A n \in Nat : Uncapped(n) \in Nat
  /\ Uncapped(0) = Initial
  /\ \A m, n \in Nat : m <= n => Uncapped(m) <= Uncapped(n)
<1> DEFINE A == Powers(Initial, Growth)
           D == Powers(1, Denominator)
<1>1. Growth \in Nat /\ Growth >= Denominator
  BY ClientAssumption DEF Growth
<1>2. \A n \in Nat : A[n] \in Nat /\ A[n + 1] = Growth * A[n]
  BY <1>1, PowersAreDefined, ClientAssumption
<1>3. \A n \in Nat : D[n] \in Nat /\ D[n + 1] = Denominator * D[n]
  BY PowersAreDefined, ClientAssumption
<1>4. A[0] = Initial /\ D[0] = 1
  BY <1>1, PowersAreDefined, ClientAssumption
<1>5. \A n \in Nat : Uncapped(n) = A[n] \div D[n]
  BY DEF Uncapped
<1> HIDE DEF A, D
<1>6. \A n \in Nat : D[n] >= 1
  <2> DEFINE S == {n \in Nat : D[n] >= 1}
  <2>1. 0 \in S
    BY <1>4
  <2>2. ASSUME NEW n \in Nat, n \in S PROVE n + 1 \in S
    BY <1>3, <2>2, ClientAssumption
  <2>3. Nat \subseteq S
    <3> HIDE DEF S
    <3> QED
      BY <2>1, <2>2, Naturals_Induction
  <2> QED
    BY <2>3
<1>7. \A n \in Nat : Uncapped(n) \in Nat
  BY <1>2, <1>3, <1>5, <1>6, Quotient
<1>8. Uncapped(0) = Initial
  BY <1>4, <1>5, ClientAssumption
<1>9. ASSUME NEW n \in Nat PROVE Uncapped(n) <= Uncapped(n + 1)
  <2> DEFINE a == A[n]
             d == D[n]
             q == Uncapped(n)
  <2>1. a \in Nat /\ d \in Nat /\ d >= 1 /\ q \in Nat /\ q * d <= a
    BY <1>2, <1>3, <1>5, <1>6, Quotient
  <2>2. Uncapped(n + 1) = (Growth * a) \div (Denominator * d)
    BY <1>2, <1>3, <1>5
  <2>3. Denominator * d \in Nat /\ Denominator * d >= 1 /\ Growth * a \in Nat
    BY <1>1, <1>2, <1>3, <1>6, ClientAssumption
  <2> HIDE DEF a, d, q
  <2>4. q * (Denominator * d) <= Growth * a
    <3>1. q * (Denominator * d) = Denominator * (q * d) /\ q * d \in Nat
      BY <2>1, ClientAssumption
    <3>2. Denominator * (q * d) <= Denominator * a
      BY <2>1, <3>1, ClientAssumption
    <3>3. Denominator * a <= Growth * a
      BY <1>1, <2>1, ClientAssumption
    <3> QED
      BY <1>1, <2>1, <2>3, <3>1, <3>2, <3>3, ClientAssumption
  <2>5. q <= (Growth * a) \div (Denominator * d)
    BY <2>1, <2>3, <2>4, QuotientIsLargest
  <2> QED
    BY <2>2, <2>5 DEF q
<1> HIDE DEF Uncapped
<1>10. \A m, n \in Nat : m <= n => Uncapped(m) <= Uncapped(n)
  <2> DEFINE S == {n \in Nat : \A m \in Nat : m <= n => Uncapped(m) <= Uncapped(n)}
  <2>1. 0 \in S
    BY <1>7
  <2>2. ASSUME NEW n \in Nat, n \in S PROVE n + 1 \in S
    <3> SUFFICES ASSUME NEW m \in Nat, m <= n + 1 PROVE Uncapped(m) <= Uncapped(n + 1)
      OBVIOUS
    <3>1. Uncapped(n) <= Uncapped(n + 1) /\ Uncapped(n) \in Nat /\ Uncapped(n + 1) \in Nat /\ Uncapped(m) \in Nat
      BY <1>7, <1>9
    <3> QED
      BY <2>2, <3>1
  <2>3. Nat \subseteq S
    <3> HIDE DEF S
    <3> QED
      BY <2>1, <2>2, Naturals_Induction
  <2> QED
    BY <2>3
<1> QED
  BY <1>7, <1>8, <1>10

\* Backoff::delay before its jitter begins with the initial wait, or the maximum
\* if that is less, and never shrinks from one attempt to the next.
LEMMA DelayGrows ==
  /\ \A n \in Nat : Delay(n) \in 0..MaxWait
  /\ Delay(0) = IF Initial > MaxWait THEN MaxWait ELSE Initial
  /\ \A m, n \in Nat : m <= n => Delay(m) <= Delay(n)
<1> DEFINE Cut(n) == IF n > MaxExponent THEN MaxExponent ELSE n
<1>1. \A n \in Nat : Cut(n) \in Nat
  BY ClientAssumption
<1>2. \A m, n \in Nat : m <= n => Cut(m) <= Cut(n)
  BY ClientAssumption
<1>3. Cut(0) = 0
  BY ClientAssumption
<1>4. \A n \in Nat : Delay(n) = IF Uncapped(Cut(n)) > MaxWait THEN MaxWait ELSE Uncapped(Cut(n))
  BY DEF Delay, Uncapped
<1> HIDE DEF Cut
<1>5. \A n \in Nat : Delay(n) \in 0..MaxWait
  BY <1>1, <1>4, UncappedGrows, ClientAssumption
<1>6. Delay(0) = IF Initial > MaxWait THEN MaxWait ELSE Initial
  BY <1>3, <1>4, UncappedGrows
<1>7. ASSUME NEW m \in Nat, NEW n \in Nat, m <= n PROVE Delay(m) <= Delay(n)
  <2>1. Uncapped(Cut(m)) <= Uncapped(Cut(n)) /\ Uncapped(Cut(m)) \in Nat /\ Uncapped(Cut(n)) \in Nat
    BY <1>1, <1>2, <1>7, UncappedGrows
  <2> QED
    BY <1>4, <2>1, ClientAssumption
<1> QED
  BY <1>5, <1>6, <1>7

\* The waits a task has sat through are within the delay its counter has come to;
\* so is the one it sits in, whose attempt has been counted.
WaitsInv ==
    /\ attempt \in [Generations -> 0..MaxAttempt]
    /\ delay \in [Generations -> {NoWait} \cup (0..MaxWait)]
    /\ longest \in [Generations -> {NoWait} \cup (0..MaxWait)]
    /\ \A g \in Generations :
          /\ delay[g] <= Delay(attempt[g]) /\ longest[g] <= Delay(attempt[g])
          /\ longest[g] = NoWait /\ delay[g] = NoWait /\ pc[g] # "ended" => attempt[g] = 0
          /\ delay[g] # NoWait => pc[g] = "backoff"

\* Nobody waits at first.
LEMMA WaitsInit == Init => WaitsInv
<1> SUFFICES ASSUME Init PROVE WaitsInv
  OBVIOUS
<1>1. Delay(0) \in Nat
  BY DelayGrows, ClientAssumption
<1> QED
  BY <1>1, ClientAssumption DEF Init, WaitsInv, NoWait

\* A failed connect raises the counter, and a wait follows the counter.
LEMMA WaitsStep == Typing /\ StartsInv /\ WaitsInv /\ [Next]_vars => WaitsInv'
<1> SUFFICES ASSUME Typing, StartsInv, WaitsInv, [Next]_vars PROVE WaitsInv'
  OBVIOUS
<1>0. \A n \in Nat : Delay(n) \in 0..MaxWait
  BY DelayGrows
<1> USE ClientAssumption DEF WaitsInv, waits, NoWait, Goto, Typing
<1>a. \A g \in Generations : Delay(attempt[g]) \in Nat
  BY <1>0
<1>1. CASE Start
  <2>1. pc' = [pc EXCEPT ![generation + 1] = "connect"] /\ UNCHANGED waits
    BY <1>1 DEF Start
  <2>2. \A g \in Generations : pc'[g] = pc[g] \/ (pc[g] = "none" /\ pc'[g] = "connect")
    BY <2>1 DEF StartsInv, Generations
  <2> QED
    BY <2>1, <2>2
<1>2. CASE Stop
  BY <1>2 DEF Stop
<1>3. ASSUME NEW g \in Generations, StopDeadline(g) PROVE WaitsInv'
  BY <1>3 DEF StopDeadline
<1>4. ASSUME NEW g \in Generations, ConnectSucceeds(g) PROVE WaitsInv'
  <2>1. /\ attempt' = [attempt EXCEPT ![g] = 0] /\ longest' = [longest EXCEPT ![g] = NoWait]
        /\ UNCHANGED delay /\ pc[g] = "connect" /\ pc' = [pc EXCEPT ![g] = "install"]
    BY <1>4 DEF ConnectSucceeds
  <2>2. Delay(0) \in 0..MaxWait
    BY <1>0
  <2> QED
    BY <2>1, <2>2
<1>5. ASSUME NEW g \in Generations, ConnectFails(g) PROVE WaitsInv'
  BY <1>5 DEF ConnectFails
<1>6. ASSUME NEW g \in Generations, Interrupted(g) PROVE WaitsInv'
  <2>1. /\ pc' = [pc EXCEPT ![g] = "ended"] /\ delay' = [delay EXCEPT ![g] = NoWait]
        /\ UNCHANGED <<attempt, longest>>
    BY <1>6 DEF Interrupted
  <2> QED
    BY <1>a, <2>1
<1>7. ASSUME NEW g \in Generations, Install(g) PROVE WaitsInv'
  BY <1>7 DEF Install
<1>8. ASSUME NEW g \in Generations, OnConnected(g) PROVE WaitsInv'
  BY <1>8 DEF OnConnected
<1>9. ASSUME NEW g \in Generations, OnConnectedEnds(g) PROVE WaitsInv'
  BY <1>9 DEF OnConnectedEnds
<1>10. ASSUME NEW g \in Generations, Serve(g) PROVE WaitsInv'
  BY <1>10 DEF Serve
<1>11. ASSUME NEW g \in Generations, AwaitClosed(g) PROVE WaitsInv'
  BY <1>11 DEF AwaitClosed
<1>12. ASSUME NEW g \in Generations, Clear(g) PROVE WaitsInv'
  BY <1>12 DEF Clear
<1>13. ASSUME NEW g \in Generations, Notify(g) PROVE WaitsInv'
  BY <1>13 DEF Notify
<1>14. ASSUME NEW g \in Generations, OnDisconnectedEnds(g) PROVE WaitsInv'
  BY <1>14 DEF OnDisconnectedEnds
<1>15. ASSUME NEW g \in Generations, CheckStop(g) PROVE WaitsInv'
  <2>1. CASE UNCHANGED waits /\ pc[g] = "check" /\ pc' = [pc EXCEPT ![g] = "ended"]
    BY <2>1
  <2>2. ASSUME NEW wait \in Waits(attempt[g]),
               pc[g] = "check", pc' = [pc EXCEPT ![g] = "backoff"],
               attempt' = [attempt EXCEPT ![g] = NextAttempt(@)],
               delay' = [delay EXCEPT ![g] = wait], UNCHANGED longest
        PROVE  WaitsInv'
    <3>1. attempt[g] \in 0..MaxAttempt /\ NextAttempt(attempt[g]) \in attempt[g]..MaxAttempt
      BY DEF NextAttempt
    <3>2. /\ wait \in 0..Delay(attempt[g]) /\ Delay(attempt[g]) \in 0..MaxWait
          /\ Delay(attempt'[g]) \in 0..MaxWait /\ Delay(attempt[g]) <= Delay(attempt'[g])
      BY <2>2, <3>1, DelayGrows DEF Waits
    <3>3. attempt' \in [Generations -> 0..MaxAttempt] /\ delay' \in [Generations -> {NoWait} \cup (0..MaxWait)]
      BY <2>2, <3>1, <3>2
    <3>4. /\ delay'[g] <= Delay(attempt'[g]) /\ longest'[g] <= Delay(attempt'[g])
          /\ delay'[g] # NoWait /\ pc'[g] = "backoff"
      BY <2>2, <3>2
    <3>5. \A h \in Generations : h # g => /\ attempt'[h] = attempt[h] /\ delay'[h] = delay[h]
                                          /\ longest'[h] = longest[h] /\ pc'[h] = pc[h]
      BY <2>2
    <3> QED
      BY <2>2, <3>3, <3>4, <3>5
  <2> QED
    BY <1>15, <2>1, <2>2 DEF CheckStop
<1>16. ASSUME NEW g \in Generations, BackoffEnds(g) PROVE WaitsInv'
  <2>1. /\ pc' = [pc EXCEPT ![g] = "connect"] /\ delay' = [delay EXCEPT ![g] = NoWait]
        /\ longest' = [longest EXCEPT ![g] = IF delay[g] > @ THEN delay[g] ELSE @]
        /\ UNCHANGED attempt
    BY <1>16 DEF BackoffEnds
  <2>2. /\ longest'[g] <= Delay(attempt[g]) /\ longest'[g] \in {NoWait} \cup (0..MaxWait)
        /\ longest'[g] = NoWait => longest[g] = NoWait /\ delay[g] = NoWait
    BY <2>1
  <2>3. \A h \in Generations : h # g =>
           pc'[h] = pc[h] /\ delay'[h] = delay[h] /\ longest'[h] = longest[h]
    BY <2>1
  <2>4. pc[g] = "backoff" /\ pc'[g] = "connect" /\ delay'[g] = NoWait
    BY <1>16, <2>1 DEF BackoffEnds
  <2>5. /\ delay' \in [Generations -> {NoWait} \cup (0..MaxWait)]
        /\ longest' \in [Generations -> {NoWait} \cup (0..MaxWait)]
    BY <2>1
  <2> QED
    BY <1>a, <2>1, <2>2, <2>3, <2>4, <2>5
<1>17. ASSUME NEW g \in Generations, AbortLands(g) PROVE WaitsInv'
  <2>1. /\ pc' = [pc EXCEPT ![g] = "ended"] /\ delay' = [delay EXCEPT ![g] = NoWait]
        /\ UNCHANGED <<attempt, longest>>
    BY <1>17 DEF AbortLands
  <2> QED
    BY <1>a, <2>1
<1>18. ASSUME NEW id \in Ids, SessionCloses(id) PROVE WaitsInv'
  BY <1>18 DEF SessionCloses
<1>19. ASSUME NEW id \in Ids, SessionClosed(id) PROVE WaitsInv'
  BY <1>19 DEF SessionClosed
<1>20. CASE UNCHANGED vars
  BY <1>20 DEF vars
<1>21. ASSUME NEW g \in Generations, HookPanics(g) PROVE WaitsInv'
  BY <1>21 DEF HookPanics
<1> QED
  BY StepCases, <1>1, <1>2, <1>3, <1>4, <1>5, <1>6, <1>7, <1>8, <1>9, <1>10, <1>11, <1>12, <1>13, <1>14,
     <1>15, <1>16, <1>17, <1>18, <1>19, <1>20, <1>21

\* What BackoffHolds says of a task that begins to back off.
Holds(g) ==
    /\ delay'[g] <= MaxWait
    /\ 2 * delay'[g] >= longest[g]
    /\ ~Jitter => delay'[g] >= longest[g]
    /\ longest[g] = NoWait =>
          delay'[g] <= Initial /\ (2 * delay'[g] >= Initial \/ 2 * delay'[g] >= MaxWait)

Hold == \A g \in Generations : pc[g] = "check" /\ pc'[g] = "backoff" => Holds(g)

\* Only CheckStop takes a task into the backoff, for a wait its counter allows.
LEMMA HoldStep == Typing /\ StartsInv /\ WaitsInv /\ [Next]_vars => Hold
<1> SUFFICES ASSUME Typing, StartsInv, WaitsInv, [Next]_vars,
                    NEW h \in Generations, pc[h] = "check", pc'[h] = "backoff"
             PROVE  Holds(h)
  BY DEF Hold
<1>1. CheckStop(h)
  <2>1. ASSUME NEW g \in Generations,
               \/ StopDeadline(g) \/ ConnectSucceeds(g) \/ ConnectFails(g) \/ Interrupted(g)
               \/ Install(g) \/ OnConnected(g) \/ OnConnectedEnds(g)
               \/ Serve(g) \/ AwaitClosed(g) \/ Clear(g) \/ Notify(g) \/ OnDisconnectedEnds(g)
               \/ BackoffEnds(g) \/ AbortLands(g) \/ HookPanics(g)
        PROVE  FALSE
    <3>1. \/ UNCHANGED pc
          \/ \E label \in {"install", "check", "ended", "connected", "on_connected", "serve", "clear",
                          "closing", "notify", "on_disconnected", "connect", "panicked"} :
                pc' = [pc EXCEPT ![g] = label]
      BY <2>1 DEF Goto, StopDeadline, ConnectSucceeds, ConnectFails, Interrupted, Install, OnConnected,
         OnConnectedEnds, Serve, AwaitClosed, Clear, Notify, OnDisconnectedEnds, BackoffEnds, AbortLands,
         HookPanics
    <3> QED
      BY <3>1 DEF Typing
  <2>2. ASSUME Start PROVE FALSE
    BY <2>2 DEF Start, Goto, Typing
  <2>3. ASSUME Stop \/ UNCHANGED vars \/ \E id \in Ids : SessionCloses(id) \/ SessionClosed(id) PROVE FALSE
    BY <2>3 DEF Stop, vars, SessionCloses, SessionClosed
  <2>4. ASSUME NEW g \in Generations, CheckStop(g) PROVE g = h
    BY <2>4 DEF CheckStop, Goto, Typing
  <2> QED
    BY StepCases, <2>1, <2>2, <2>3, <2>4
<1>2. PICK wait \in Waits(attempt[h]) : delay' = [delay EXCEPT ![h] = wait]
  BY <1>1 DEF CheckStop, Goto, Typing
<1>3. attempt[h] \in Nat /\ Delay(attempt[h]) \in 0..MaxWait /\ longest[h] <= Delay(attempt[h])
  BY DelayGrows, ClientAssumption DEF WaitsInv
<1>4. /\ delay'[h] = wait /\ wait \in 0..Delay(attempt[h])
      /\ 2 * wait >= Delay(attempt[h]) /\ (~Jitter => wait = Delay(attempt[h]))
  BY <1>2, <1>3 DEF Waits, WaitsInv
<1>5. longest[h] = NoWait => attempt[h] = 0
  BY DEF WaitsInv
<1>6. longest[h] = NoWait => Delay(attempt[h]) = IF Initial > MaxWait THEN MaxWait ELSE Initial
  BY <1>5, DelayGrows
<1> QED
  BY <1>3, <1>4, <1>6, ClientAssumption DEF Holds, NoWait, WaitsInv

\* The waits, in every reachable state.
LEMMA WaitsSafe == Spec => [](ClientInv /\ WaitsInv)
<1>1. ClientInv /\ WaitsInv /\ [Next]_vars => WaitsInv'
  BY WaitsStep DEF ClientInv
<1> QED
  BY <1>1, WaitsInit, ClientSafe, PTL DEF Spec

\* The variables of a client keep their types; the waits stay below the maximum.
THEOREM ClientTypeCorrect == Spec => []TypeOK
<1>1. ClientInv /\ WaitsInv => TypeOK
  BY DEF ClientInv, Typing, WaitsInv, TypeOK
<1> QED
  BY <1>1, WaitsSafe, PTL

\* A wait is at least half as long as every one before it since the connection,
\* with jitter or without, and no less than all of it without; for any initial
\* and maximal wait and any multiplier (Backoff::delay, the counter of `run`).
THEOREM BackoffIsKept == Spec => BackoffHolds
<1>1. ClientInv /\ WaitsInv /\ [Next]_vars =>
        [\A g \in Generations :
           pc[g] = "check" /\ pc'[g] = "backoff" =>
               /\ delay'[g] <= MaxWait
               /\ 2 * delay'[g] >= longest[g]
               /\ ~Jitter => delay'[g] >= longest[g]
               /\ longest[g] = NoWait =>
                     delay'[g] <= Initial /\ (2 * delay'[g] >= Initial \/ 2 * delay'[g] >= MaxWait)]_vars
  BY HoldStep DEF ClientInv, Hold, Holds
<1> QED
  BY <1>1, WaitsSafe, PTL DEF Spec, BackoffHolds
=============================================================================
