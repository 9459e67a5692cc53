----------------------------- MODULE SessionApi -----------------------------
(***************************************************************************)
(* What a session promises to the callers of `send` and `closed`           *)
(* (the doc comments of session.rs): a call is registered only on an open  *)
(* session, it ends in exactly one way, and once the session is closed no  *)
(* call is left waiting.  Session.tla implements this specification.       *)
(***************************************************************************)
EXTENDS Naturals

CONSTANT Calls

VARIABLES
    phase,      \* the session
    outcome     \* of each call

vars == <<phase, outcome>>

Phases == {"open", "closing", "drained", "closed"}

Outcomes == {"none", "waiting", "peer", "timeout", "dropped", "unavailable"}

TypeOK ==
    /\ phase \in Phases
    /\ outcome \in [Calls -> Outcomes]

Init ==
    /\ phase = "open"
    /\ outcome = [c \in Calls |-> "none"]

Register(c) ==
    /\ phase = "open"
    /\ outcome[c] = "none"
    /\ outcome' = [outcome EXCEPT ![c] = "waiting"]
    /\ UNCHANGED phase

\* A local failure before the call is registered.
Refuse(c) ==
    /\ outcome[c] = "none"
    /\ outcome' = [outcome EXCEPT ![c] = "unavailable"]
    /\ UNCHANGED phase

Settle(c, how) ==
    /\ outcome[c] = "waiting"
    /\ outcome' = [outcome EXCEPT ![c] = how]
    /\ UNCHANGED phase

\* A caller may drop its future, even one whose answer is already there.
Abandon(c) ==
    /\ outcome[c] \in {"waiting", "peer", "unavailable"}
    /\ outcome' = [outcome EXCEPT ![c] = "dropped"]
    /\ UNCHANGED phase

Close ==
    /\ phase = "open"
    /\ phase' = "closing"
    /\ UNCHANGED outcome

\* Every call still waiting fails with 503.
FailWaiting ==
    /\ phase = "closing"
    /\ phase' = "drained"
    /\ outcome' = [c \in Calls |-> IF outcome[c] = "waiting" THEN "unavailable" ELSE outcome[c]]

Publish ==
    /\ phase = "drained"
    /\ phase' = "closed"
    /\ UNCHANGED outcome

Next ==
    \/ \E c \in Calls :
          \/ Register(c) \/ Refuse(c) \/ Abandon(c)
          \/ \E how \in {"peer", "timeout", "unavailable"} : Settle(c, how)
    \/ Close \/ FailWaiting \/ Publish

Spec == Init /\ [][Next]_vars

\* No call waits on a session whose pending sends were drained.
NoneWaiting == phase \in {"drained", "closed"} => \A c \in Calls : outcome[c] # "waiting"
=============================================================================
