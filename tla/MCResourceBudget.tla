-------------------------- MODULE MCResourceBudget --------------------------
(* ResourceBudget.tla for TLC: the shared limits are below the sum of the  *)
(* sessions' limits, and one resource of either budget admits nothing.     *)
EXTENDS ResourceBudget, TLC

Limit(count, bytes) == [count |-> count, bytes |-> bytes]

MCSharedLimits ==
    [r \in Resource |-> CASE r = "Connection" -> Limit(1, 0)
                          [] r = "Request"    -> Limit(1, 0)
                          [] r = "Data"       -> Limit(3, 4)
                          [] r = "Control"    -> Limit(0, 4)
                          [] OTHER            -> Limit(2, 3)]

MCSessionLimits ==
    [r \in Resource |-> CASE r = "Request" -> Limit(2, 0)
                          [] r = "Data"    -> Limit(2, 3)
                          [] r = "Control" -> Limit(1, 4)
                          [] r = "Handler" -> Limit(1, 2)
                          [] OTHER         -> Limit(0, 0)]

ClaimSymmetry == Permutations(Claims) \cup Permutations(Sessions)
=============================================================================
