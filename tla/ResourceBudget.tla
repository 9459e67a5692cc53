--------------------------- MODULE ResourceBudget ---------------------------
(***************************************************************************)
(* resources.rs: the admission budgets, and Session::reserve, which takes  *)
(* a permit of the session's own budget and then one of the budget that    *)
(* clients, servers and sessions share.  Connections and hooks take only a *)
(* shared permit.                                                          *)
(*                                                                         *)
(* A claim is one caller on its way through a reservation, then the owner  *)
(* of its permits, then on its way through their drop; every step takes    *)
(* the lock of one budget.                                                 *)
(***************************************************************************)
EXTENDS Integers, FiniteSets, Functions

CONSTANTS
    Claims,         \* concurrent callers
    Sessions,
    Shared,         \* the shared budget
    SharedLimits,   \* its ResourceLimits
    SessionLimits,  \* the ResourceLimits of each session's own budget
    Sizes,          \* of payloads, in bytes
    MaxOverloads    \* the largest value of the u64 `overloads`

Resource == {"Connection", "Request", "Data", "Control", "Handler"}

\* The resources whose bytes are counted.
Metered == {"Data", "Control", "Handler"}

ResourceLimits == [Resource -> [count : Nat, bytes : Nat]]

ASSUME BudgetAssumption ==
    /\ IsFiniteSet(Claims)
    /\ Shared \notin Sessions
    /\ SharedLimits \in ResourceLimits /\ SessionLimits \in ResourceLimits
    /\ Sizes \subseteq Nat /\ MaxOverloads \in Nat

Budgets == Sessions \cup {Shared}

limits == [b \in Budgets |-> IF b = Shared THEN SharedLimits ELSE SessionLimits]

VARIABLES
    usage,      \* per budget and resource: the counts of ResourceSnapshot
    overloads,  \* per budget
    claim       \* what each claim holds or asks for, and where it is

vars == <<usage, overloads, claim>>

Idle == [at |-> "idle", session |-> Shared, resource |-> "Request", bytes |-> 0]

\* The budgets a claim holds a permit of.
Permits(i) ==
    CASE claim[i].at \in {"local", "refused"} -> {claim[i].session}
      [] claim[i].at = "both"                 -> {claim[i].session, Shared}
      [] claim[i].at = "shared"               -> {Shared}
      [] OTHER                                -> {}

\* Mutation: a payload is compared with the limit and not with what is left of it.
Admits_Whole(b, r, n) ==
    /\ usage[b][r].count < limits[b][r].count
    /\ r \in Metered => n <= limits[b][r].bytes

\* reserve: is there room?  What is left is at least zero (saturating_sub).
Admits(b, r, n) ==
    /\ usage[b][r].count < limits[b][r].count
    /\ r \in Metered =>
         \/ n <= limits[b][r].bytes - usage[b][r].bytes
         \/ n = 0

\* A permit of n bytes is taken (by 1) or dropped (by -1).
Account(b, r, n, by) ==
    usage' = [usage EXCEPT ![b][r] =
        [count |-> @.count + by, bytes |-> @.bytes + (IF r \in Metered THEN by * n ELSE 0)]]

Refuse(b) ==
    /\ overloads' = [overloads EXCEPT ![b] = IF @ < MaxOverloads THEN @ + 1 ELSE @]
    /\ UNCHANGED usage

Init ==
    /\ usage = [b \in Budgets |-> [r \in Resource |-> [count |-> 0, bytes |-> 0]]]
    /\ overloads = [b \in Budgets |-> 0]
    /\ claim = [i \in Claims |-> Idle]

----------------------------------------------------------------------------
Become(i, at) == claim' = [claim EXCEPT ![i].at = at]

\* Session::reserve, first half: the session's own budget.
ReserveLocal(i, s, r, n) ==
    /\ claim[i].at = "idle"
    /\ r # "Connection" /\ (r = "Request" => n = 0)
    /\ \/ /\ Admits(s, r, n)
          /\ Account(s, r, n, 1)
          /\ claim' = [claim EXCEPT ![i] = [at |-> "local", session |-> s, resource |-> r, bytes |-> n]]
          /\ UNCHANGED overloads
       \/ /\ ~Admits(s, r, n)
          /\ Refuse(s)
          /\ UNCHANGED claim

\* Mutation: the local permit is not returned when the shared budget refuses.
ReserveShared_Forgets(i) ==
    LET c == claim[i] IN
    /\ c.at = "local"
    /\ \/ /\ Admits(Shared, c.resource, c.bytes)
          /\ Account(Shared, c.resource, c.bytes, 1)
          /\ Become(i, "both")
          /\ UNCHANGED overloads
       \/ /\ ~Admits(Shared, c.resource, c.bytes)
          /\ Refuse(Shared)
          /\ claim' = [claim EXCEPT ![i] = Idle]

\* Second half: the shared budget.  If it refuses, the local permit is dropped.
ReserveShared(i) ==
    LET c == claim[i] IN
    /\ c.at = "local"
    /\ \/ /\ Admits(Shared, c.resource, c.bytes)
          /\ Account(Shared, c.resource, c.bytes, 1)
          /\ Become(i, "both")
          /\ UNCHANGED overloads
       \/ /\ ~Admits(Shared, c.resource, c.bytes)
          /\ Refuse(Shared)
          /\ Become(i, "refused")

\* A connection or a hook: one permit of the shared budget, no bytes.
ReserveSharedOnly(i, r) ==
    /\ claim[i].at = "idle"
    /\ r \in {"Connection", "Handler"}
    /\ \/ /\ Admits(Shared, r, 0)
          /\ Account(Shared, r, 0, 1)
          /\ claim' = [claim EXCEPT ![i] = [at |-> "shared", session |-> Shared, resource |-> r, bytes |-> 0]]
          /\ UNCHANGED overloads
       \/ /\ ~Admits(Shared, r, 0)
          /\ Refuse(Shared)
          /\ UNCHANGED claim

\* The pair of permits is dropped in order, the local one first.
DropLocal(i) ==
    LET c == claim[i] IN
    /\ c.at \in {"both", "refused"}
    /\ Account(c.session, c.resource, c.bytes, -1)
    /\ claim' = [claim EXCEPT ![i] = IF c.at = "both" THEN [c EXCEPT !.at = "shared"] ELSE Idle]
    /\ UNCHANGED overloads

DropShared(i) ==
    LET c == claim[i] IN
    /\ c.at = "shared"
    /\ Account(Shared, c.resource, c.bytes, -1)
    /\ claim' = [claim EXCEPT ![i] = Idle]
    /\ UNCHANGED overloads

Next ==
    \E i \in Claims :
        \/ \E s \in Sessions, r \in Resource, n \in Sizes : ReserveLocal(i, s, r, n)
        \/ \E r \in Resource : ReserveSharedOnly(i, r)
        \/ ReserveShared(i) \/ DropLocal(i) \/ DropShared(i)

Spec == Init /\ [][Next]_vars

----------------------------------------------------------------------------
(* Properties *)

\* No budget ever admits more than its limits, however many claims race and
\* whichever of the two budgets refuses them.
WithinLimits ==
    \A b \in Budgets, r \in Resource :
        usage[b][r].count <= limits[b][r].count /\ usage[b][r].bytes <= limits[b][r].bytes

\* The claims that hold a permit of b for r.
Owners(b, r) == {i \in Claims : b \in Permits(i) /\ claim[i].resource = r}

\* The bytes of each claim.
Payload == [i \in Claims |-> claim[i].bytes]

\* Every unit of usage has an owner that will return it: nothing leaks when the
\* second reservation is refused, and the bytes returned are the bytes taken.
UsageIsOwned ==
    \A b \in Budgets, r \in Resource :
        /\ usage[b][r].count = Cardinality(Owners(b, r))
        /\ usage[b][r].bytes =
             IF r \in Metered THEN SumFunctionOnSet(Payload, Owners(b, r)) ELSE 0
=============================================================================
