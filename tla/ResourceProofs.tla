--------------------------- MODULE ResourceProofs ---------------------------
(***************************************************************************)
(* Proofs about ResourceBudget: no budget exceeds its limits               *)
(* (WithinLimits) and every unit of its usage has an owner (UsageIsOwned), *)
(* for any number of claims and sessions and any limits and sizes.         *)
(***************************************************************************)
EXTENDS ResourceBudget, Induction

\* The types, without the claim that no counter underflows.
Typing ==
    /\ usage \in [Budgets -> [Resource -> [count : Int, bytes : Int]]]
    /\ claim \in [Claims -> [at : {"idle", "local", "refused", "both", "shared"},
                             session : Budgets, resource : Resource, bytes : Nat]]
    /\ \A i \in Claims : claim[i].at \in {"local", "refused", "both"} => claim[i].session \in Sessions

\* What one accounting does to every counter.
LEMMA Accounted ==
  ASSUME Typing, NEW b \in Budgets, NEW r \in Resource, NEW n \in Nat, NEW by \in {1, -1},
         Account(b, r, n, by)
  PROVE  /\ usage' \in [Budgets -> [Resource -> [count : Int, bytes : Int]]]
         /\ usage'[b][r].count = usage[b][r].count + by
         /\ usage'[b][r].bytes = usage[b][r].bytes + (IF r \in Metered THEN by * n ELSE 0)
         /\ \A b2 \in Budgets, r2 \in Resource :
              <<b2, r2>> # <<b, r>> => usage'[b2][r2] = usage[b2][r2]
<1> DEFINE new == [count |-> usage[b][r].count + by,
                   bytes |-> usage[b][r].bytes + (IF r \in Metered THEN by * n ELSE 0)]
<1>1. new \in [count : Int, bytes : Int]
  BY DEF Typing
<1>2. usage' = [usage EXCEPT ![b][r] = new]
  BY DEF Account
<1> HIDE DEF new
<1>3. /\ usage' \in [Budgets -> [Resource -> [count : Int, bytes : Int]]]
      /\ usage'[b][r] = new
      /\ \A b2 \in Budgets, r2 \in Resource :
           <<b2, r2>> # <<b, r>> => usage'[b2][r2] = usage[b2][r2]
  BY <1>1, <1>2 DEF Typing
<1> QED
  BY <1>3 DEF new

\* A step of one claim: which permit it takes (1) or drops (-1), if any.
Moves(i, b, by) ==
    /\ i \in Claims /\ b \in Budgets /\ by \in {1, -1}
    /\ claim'[i].resource \in Resource /\ claim'[i].bytes \in Nat
    /\ \E r \in Resource, n \in Nat :
         /\ Account(b, r, n, by)
         /\ by = 1  => Admits(b, r, n) /\ b \notin Permits(i)
                         /\ claim'[i].resource = r /\ claim'[i].bytes = n
                         /\ Permits(i)' = Permits(i) \cup {b}
         /\ by = -1 => b \in Permits(i) /\ claim[i].resource = r /\ claim[i].bytes = n
                         /\ Permits(i)' = Permits(i) \ {b}
    /\ Permits(i) # {} /\ Permits(i)' # {} =>
         claim'[i].resource = claim[i].resource /\ claim'[i].bytes = claim[i].bytes
    /\ \A j \in Claims \ {i} : claim'[j] = claim[j]

\* The claims are never more than moved from one stage to the next.
Keeps ==
    /\ UNCHANGED usage
    /\ \A i \in Claims :
         /\ Permits(i)' = Permits(i)
         /\ claim'[i].resource = claim[i].resource /\ claim'[i].bytes = claim[i].bytes

\* Every step keeps the types, and takes or drops one permit or none.
LEMMA StepMoves ==
  ASSUME Typing, [Next]_vars
  PROVE  /\ Typing'
         /\ Keeps \/ \E i \in Claims, b \in Budgets, by \in {1, -1} : Moves(i, b, by)
<1> USE BudgetAssumption DEF Budgets
<1>0. Shared \in Budgets
  OBVIOUS
<1>1. ASSUME NEW i \in Claims, NEW s \in Sessions, NEW r \in Resource, NEW n \in Sizes,
             ReserveLocal(i, s, r, n)
      PROVE  Typing' /\ (Keeps \/ Moves(i, s, 1))
  <2>1. CASE Admits(s, r, n)
    <3>1. Account(s, r, n, 1) /\ n \in Nat /\ claim[i].at = "idle"
          /\ claim' = [claim EXCEPT ![i] = [at |-> "local", session |-> s, resource |-> r, bytes |-> n]]
      BY <1>1, <2>1 DEF ReserveLocal
    <3>2. Typing'
      BY <3>1, Accounted DEF Typing
    <3>3. Permits(i) = {} /\ Permits(i)' = {s}
      BY <3>1 DEF Permits, Typing
    <3> QED
      BY <2>1, <3>1, <3>2, <3>3 DEF Moves, Typing
  <2>2. CASE ~Admits(s, r, n)
    BY <1>1, <2>2 DEF ReserveLocal, Refuse, Typing, Keeps, Permits
  <2> QED
    BY <2>1, <2>2
<1>2. ASSUME NEW i \in Claims, ReserveShared(i)
      PROVE  Typing' /\ (Keeps \/ Moves(i, Shared, 1))
  <2>1. CASE Admits(Shared, claim[i].resource, claim[i].bytes)
    <3>1. Account(Shared, claim[i].resource, claim[i].bytes, 1) /\ claim[i].at = "local"
          /\ claim' = [claim EXCEPT ![i].at = "both"]
      BY <1>2, <2>1 DEF ReserveShared, Become
    <3>2. claim[i].session # Shared /\ claim[i].resource \in Resource /\ claim[i].bytes \in Nat
      BY <3>1 DEF Typing
    <3>3. Typing'
      <4>1. usage' \in [Budgets -> [Resource -> [count : Int, bytes : Int]]]
        BY <3>1, <3>2, Accounted
      <4>2. claim' \in [Claims -> [at : {"idle", "local", "refused", "both", "shared"},
                                   session : Budgets, resource : Resource, bytes : Nat]]
        BY <3>1 DEF Typing
      <4>3. \A j \in Claims : claim'[j].at \in {"local", "refused", "both"} => claim'[j].session \in Sessions
        BY <3>1 DEF Typing
      <4> QED
        BY <4>1, <4>2, <4>3 DEF Typing
    <3>4. /\ Permits(i) = {claim[i].session} /\ Permits(i)' = {claim[i].session, Shared}
          /\ claim'[i].resource = claim[i].resource /\ claim'[i].bytes = claim[i].bytes
      BY <3>1 DEF Permits, Typing
    <3> QED
      BY <2>1, <3>1, <3>2, <3>3, <3>4 DEF Moves, Typing
  <2>2. CASE ~Admits(Shared, claim[i].resource, claim[i].bytes)
    <3>1. UNCHANGED usage /\ claim[i].at = "local" /\ claim' = [claim EXCEPT ![i].at = "refused"]
      BY <1>2, <2>2 DEF ReserveShared, Become, Refuse
    <3>2. Typing'
      BY <3>1 DEF Typing
    <3>3. \A j \in Claims :
            /\ Permits(j)' = Permits(j)
            /\ claim'[j].resource = claim[j].resource /\ claim'[j].bytes = claim[j].bytes
      BY <3>1 DEF Typing, Permits
    <3> QED
      BY <3>1, <3>2, <3>3 DEF Keeps
  <2> QED
    BY <2>1, <2>2
<1>3. ASSUME NEW i \in Claims, NEW r \in Resource, ReserveSharedOnly(i, r)
      PROVE  Typing' /\ (Keeps \/ Moves(i, Shared, 1))
  <2>1. CASE Admits(Shared, r, 0)
    <3>1. Account(Shared, r, 0, 1) /\ claim[i].at = "idle"
          /\ claim' = [claim EXCEPT ![i] = [at |-> "shared", session |-> Shared, resource |-> r, bytes |-> 0]]
      BY <1>3, <2>1 DEF ReserveSharedOnly
    <3>2. Typing'
      BY <3>1, Accounted DEF Typing
    <3>3. Permits(i) = {} /\ Permits(i)' = {Shared}
      BY <3>1 DEF Permits, Typing
    <3> QED
      BY <2>1, <3>1, <3>2, <3>3 DEF Moves, Typing
  <2>2. CASE ~Admits(Shared, r, 0)
    BY <1>3, <2>2 DEF ReserveSharedOnly, Refuse, Typing, Keeps, Permits
  <2> QED
    BY <2>1, <2>2
<1>4. ASSUME NEW i \in Claims, DropLocal(i)
      PROVE  Typing' /\ Moves(i, claim[i].session, -1)
  <2>1. /\ claim[i].at \in {"both", "refused"}
        /\ claim[i].session \in Sessions /\ claim[i].session # Shared
        /\ claim[i].resource \in Resource /\ claim[i].bytes \in Nat
    BY <1>4 DEF DropLocal, Typing
  <2>2. Account(claim[i].session, claim[i].resource, claim[i].bytes, -1)
    BY <1>4 DEF DropLocal
  <2>3. CASE claim[i].at = "both"
    <3>1. claim' = [claim EXCEPT ![i] = [claim[i] EXCEPT !.at = "shared"]]
      BY <1>4, <2>3 DEF DropLocal
    <3>2. Typing'
      <4>1. usage' \in [Budgets -> [Resource -> [count : Int, bytes : Int]]]
        BY <2>1, <2>2, Accounted
      <4>2. claim' \in [Claims -> [at : {"idle", "local", "refused", "both", "shared"},
                                   session : Budgets, resource : Resource, bytes : Nat]]
        BY <3>1 DEF Typing
      <4>3. \A j \in Claims : claim'[j].at \in {"local", "refused", "both"} => claim'[j].session \in Sessions
        BY <3>1 DEF Typing
      <4> QED
        BY <4>1, <4>2, <4>3 DEF Typing
    <3>3. /\ Permits(i) = {claim[i].session, Shared} /\ Permits(i)' = {Shared}
          /\ claim'[i].resource = claim[i].resource /\ claim'[i].bytes = claim[i].bytes
      BY <2>3, <3>1 DEF Permits, Typing
    <3>4. claim[i].session \in Permits(i) /\ Permits(i)' = Permits(i) \ {claim[i].session}
      BY <2>1, <3>3
    <3>5. \A j \in Claims \ {i} : claim'[j] = claim[j]
      BY <3>1 DEF Typing
    <3> QED
      BY <2>1, <2>2, <3>2, <3>3, <3>4, <3>5 DEF Moves
  <2>4. CASE claim[i].at = "refused"
    <3>1. claim' = [claim EXCEPT ![i] = Idle]
      BY <1>4, <2>4 DEF DropLocal
    <3>2. Typing'
      <4>1. usage' \in [Budgets -> [Resource -> [count : Int, bytes : Int]]]
        BY <2>1, <2>2, Accounted
      <4>2. claim' \in [Claims -> [at : {"idle", "local", "refused", "both", "shared"},
                                   session : Budgets, resource : Resource, bytes : Nat]]
        BY <3>1 DEF Typing, Idle, Resource
      <4>3. \A j \in Claims : claim'[j].at \in {"local", "refused", "both"} => claim'[j].session \in Sessions
        BY <3>1 DEF Typing, Idle, Resource
      <4> QED
        BY <4>1, <4>2, <4>3 DEF Typing
    <3>3. /\ Permits(i) = {claim[i].session} /\ Permits(i)' = {}
          /\ claim'[i].resource \in Resource /\ claim'[i].bytes \in Nat
      BY <2>4, <3>1 DEF Permits, Typing, Idle, Resource
    <3> QED
      BY <2>1, <2>2, <3>1, <3>2, <3>3 DEF Moves, Typing
  <2> QED
    BY <2>1, <2>3, <2>4
<1>5. ASSUME NEW i \in Claims, DropShared(i)
      PROVE  Typing' /\ Moves(i, Shared, -1)
  <2>1. /\ claim[i].at = "shared" /\ claim' = [claim EXCEPT ![i] = Idle]
        /\ claim[i].resource \in Resource /\ claim[i].bytes \in Nat
        /\ Account(Shared, claim[i].resource, claim[i].bytes, -1)
    BY <1>5 DEF DropShared, Typing
  <2>2. Typing'
    <3>1. usage' \in [Budgets -> [Resource -> [count : Int, bytes : Int]]]
      BY <2>1, Accounted
    <3>2. claim' \in [Claims -> [at : {"idle", "local", "refused", "both", "shared"},
                                 session : Budgets, resource : Resource, bytes : Nat]]
      BY <2>1 DEF Typing, Idle, Resource
    <3>3. \A j \in Claims : claim'[j].at \in {"local", "refused", "both"} => claim'[j].session \in Sessions
      BY <2>1 DEF Typing, Idle, Resource
    <3> QED
      BY <3>1, <3>2, <3>3 DEF Typing
  <2>3. /\ Permits(i) = {Shared} /\ Permits(i)' = {}
        /\ claim'[i].resource \in Resource /\ claim'[i].bytes \in Nat
    BY <2>1 DEF Permits, Typing, Idle, Resource
  <2> QED
    BY <2>1, <2>2, <2>3 DEF Moves, Typing
<1>6. CASE UNCHANGED vars
  BY <1>6 DEF vars, Typing, Keeps, Permits
<1>7. ASSUME NEW i \in Claims, NEW s \in Sessions, NEW r \in Resource, NEW n \in Sizes,
             ReserveLocal(i, s, r, n)
      PROVE  Typing' /\ (Keeps \/ \E j \in Claims, b \in Budgets, by \in {1, -1} : Moves(j, b, by))
  BY <1>1, <1>7
<1>8. \A i \in Claims : claim[i].session \in Budgets
  BY DEF Typing
<1> QED
  BY <1>0, <1>2, <1>3, <1>4, <1>5, <1>6, <1>7, <1>8 DEF Next

----------------------------------------------------------------------------
\* The part of UsageIsOwned that counts.
CountsOwned ==
    \A b \in Budgets, r \in Resource : usage[b][r].count = Cardinality(Owners(b, r))

\* The part of UsageIsOwned that adds the bytes.
BytesOwned ==
    \A b \in Budgets, r \in Resource :
        usage[b][r].bytes = IF r \in Metered THEN SumFunctionOnSet(Payload, Owners(b, r)) ELSE 0

\* A new budget (ResourceBudget::new) is unused.
LEMMA InitHolds == Init => Typing /\ WithinLimits /\ CountsOwned /\ BytesOwned
<1> SUFFICES ASSUME Init PROVE Typing /\ WithinLimits /\ CountsOwned /\ BytesOwned
  OBVIOUS
<1> USE BudgetAssumption DEF Budgets
<1>1. Typing
  BY DEF Init, Typing, Idle, Resource
<1>2. limits \in [Budgets -> ResourceLimits]
  BY DEF limits
<1>3. WithinLimits
  BY <1>2 DEF Init, WithinLimits, ResourceLimits
<1>4. ASSUME NEW b \in Budgets, NEW r \in Resource PROVE Owners(b, r) = {}
  BY DEF Init, Owners, Permits, Idle
<1>5. CountsOwned
  BY <1>4, FS_EmptySet DEF Init, CountsOwned
<1>6. BytesOwned
  <2>1. SumFunctionOnSet(Payload, {}) = 0
    BY SumOfNone
  <2> QED
    BY <1>4, <2>1 DEF Init, BytesOwned
<1> QED
  BY <1>1, <1>3, <1>5, <1>6

\* A step adds only what Admits has found room for; a drop only subtracts.
LEMMA LimitsStep == Typing /\ WithinLimits /\ [Next]_vars => WithinLimits'
<1> SUFFICES ASSUME Typing, WithinLimits, [Next]_vars,
                    NEW b \in Budgets, NEW r \in Resource
             PROVE  /\ usage'[b][r].count <= limits[b][r].count
                    /\ usage'[b][r].bytes <= limits[b][r].bytes
  BY DEF WithinLimits, limits, Budgets
<1>1. limits[b][r].count \in Nat /\ limits[b][r].bytes \in Nat
  BY BudgetAssumption DEF limits, ResourceLimits, Budgets
<1>2. /\ usage[b][r].count \in Int /\ usage[b][r].bytes \in Int
      /\ usage[b][r].count <= limits[b][r].count
      /\ usage[b][r].bytes <= limits[b][r].bytes
  BY DEF Typing, WithinLimits
<1>3. CASE Keeps
  BY <1>2, <1>3 DEF Keeps
<1>4. ASSUME NEW i \in Claims, NEW a \in Budgets, NEW by \in {1, -1}, Moves(i, a, by)
      PROVE  /\ usage'[b][r].count <= limits[b][r].count
             /\ usage'[b][r].bytes <= limits[b][r].bytes
  <2>1. PICK q \in Resource, n \in Nat : Account(a, q, n, by) /\ (by = 1 => Admits(a, q, n))
    BY <1>4 DEF Moves
  <2>2. CASE <<a, q>> # <<b, r>>
    BY <1>2, <2>1, <2>2, Accounted
  <2>3. CASE <<a, q>> = <<b, r>>
    <3>1. /\ usage'[b][r].count = usage[b][r].count + by
          /\ usage'[b][r].bytes = usage[b][r].bytes + (IF r \in Metered THEN by * n ELSE 0)
      BY <2>1, <2>3, Accounted
    <3>2. CASE by = 1
      <4>1. /\ usage[b][r].count < limits[b][r].count
            /\ r \in Metered => n <= limits[b][r].bytes - usage[b][r].bytes \/ n = 0
        BY <2>1, <2>3, <3>2 DEF Admits
      <4> QED
        BY <1>1, <1>2, <3>1, <3>2, <4>1
    <3>3. CASE by = -1
      BY <1>1, <1>2, <3>1, <3>3
    <3> QED
      BY <3>2, <3>3
  <2> QED
    BY <2>2, <2>3
<1> QED
  BY <1>3, <1>4, StepMoves

\* A step changes the count of one budget and resource by one, and its owners
\* by the same claim.
LEMMA CountsStep == Typing /\ CountsOwned /\ [Next]_vars => CountsOwned'
<1> SUFFICES ASSUME Typing, CountsOwned, [Next]_vars,
                    NEW b \in Budgets, NEW r \in Resource
             PROVE  usage'[b][r].count = Cardinality(Owners(b, r)')
  BY DEF CountsOwned, Budgets
<1>1. usage[b][r].count = Cardinality(Owners(b, r)) /\ IsFiniteSet(Owners(b, r))
  BY BudgetAssumption, FS_Subset DEF CountsOwned, Owners
<1>2. CASE Keeps
  BY <1>1, <1>2 DEF Keeps, Owners
<1>3. ASSUME NEW i \in Claims, NEW a \in Budgets, NEW by \in {1, -1}, Moves(i, a, by)
      PROVE  usage'[b][r].count = Cardinality(Owners(b, r)')
  <2>1. PICK q \in Resource, n \in Nat :
          /\ Account(a, q, n, by)
          /\ by = 1  => a \notin Permits(i) /\ claim'[i].resource = q
                         /\ Permits(i)' = Permits(i) \cup {a}
          /\ by = -1 => a \in Permits(i) /\ claim[i].resource = q
                         /\ Permits(i)' = Permits(i) \ {a}
    BY <1>3 DEF Moves
  <2>2. \A j \in Claims \ {i} : Permits(j)' = Permits(j) /\ claim'[j].resource = claim[j].resource
    BY <1>3 DEF Moves, Permits
  <2>3. CASE <<a, q>> # <<b, r>>
    <3>1. usage'[b][r] = usage[b][r]
      BY <2>1, <2>3, Accounted
    <3>2. (b \in Permits(i)' /\ claim'[i].resource = r) <=> (b \in Permits(i) /\ claim[i].resource = r)
      BY <1>3, <2>1, <2>3 DEF Moves
    <3>3. Owners(b, r)' = Owners(b, r)
      BY <2>2, <3>2 DEF Owners
    <3> QED
      BY <1>1, <3>1, <3>3
  <2>4. CASE <<a, q>> = <<b, r>>
    <3>1. usage'[b][r].count = usage[b][r].count + by
      BY <2>1, <2>4, Accounted
    <3>2. CASE by = 1
      <4>1. i \notin Owners(b, r) /\ Owners(b, r)' = Owners(b, r) \cup {i}
        BY <2>1, <2>2, <2>4, <3>2 DEF Owners
      <4> QED
        BY <1>1, <3>1, <3>2, <4>1, FS_AddElement
    <3>3. CASE by = -1
      <4>1. i \in Owners(b, r) /\ Owners(b, r)' = Owners(b, r) \ {i}
        BY <2>1, <2>2, <2>4, <3>3 DEF Owners
      <4>2. Cardinality(Owners(b, r)') = Cardinality(Owners(b, r)) - 1
        BY <1>1, <4>1, FS_RemoveElement
      <4> QED
        BY <1>1, <3>1, <3>3, <4>2, FS_CardinalityType
    <3> QED
      BY <3>2, <3>3
  <2> QED
    BY <2>3, <2>4
<1> QED
  BY <1>2, <1>3, StepMoves

\* The sum over the owners is a number, before and after a step.
LEMMA OwnersAreFinite ==
  ASSUME Typing, NEW b, NEW r
  PROVE  /\ IsFiniteSet(Owners(b, r)) /\ Owners(b, r) \subseteq Claims
         /\ \A j \in Owners(b, r) : Payload[j] = claim[j].bytes /\ Payload[j] \in Int
<1>1. Owners(b, r) \subseteq Claims
  BY DEF Owners
<1>2. IsFiniteSet(Owners(b, r))
  BY <1>1, BudgetAssumption, FS_Subset
<1> QED
  BY <1>1, <1>2 DEF Payload, Typing

\* A step adds the bytes of the permit it takes to the same counter as the
\* claim that holds it, and takes off those of the permit it drops.
LEMMA BytesStep == Typing /\ BytesOwned /\ [Next]_vars => BytesOwned'
<1> SUFFICES ASSUME Typing, BytesOwned, [Next]_vars,
                    NEW b \in Budgets, NEW r \in Resource
             PROVE  usage'[b][r].bytes =
                      IF r \in Metered THEN SumFunctionOnSet(Payload', Owners(b, r)') ELSE 0
  BY DEF BytesOwned, Budgets, Metered
<1> DEFINE O == Owners(b, r)
           sum == SumFunctionOnSet(Payload, O)
<1>1. usage[b][r].bytes = (IF r \in Metered THEN sum ELSE 0) /\ usage[b][r].bytes \in Int
  BY DEF BytesOwned, Typing
<1>2. Typing'
  BY StepMoves
<1>3. /\ IsFiniteSet(O) /\ O \subseteq Claims
      /\ \A j \in O : Payload[j] = claim[j].bytes /\ Payload[j] \in Int
  BY OwnersAreFinite
<1>4. /\ IsFiniteSet(O') /\ O' \subseteq Claims
      /\ \A j \in O' : Payload'[j] = claim'[j].bytes /\ Payload'[j] \in Int
  <2>1. IsFiniteSet(Claims)
    BY BudgetAssumption
  <2>2. O' \subseteq Claims
    BY DEF Owners
  <2>3. IsFiniteSet(O')
    BY <2>1, <2>2, FS_Subset
  <2> QED
    BY <1>2, <2>2, <2>3 DEF Payload, Typing
<1>5. sum \in Int
  <2> HIDE DEF O
  <2> QED
    BY <1>3, SumOfSame
<1>6. CASE Keeps
  <2>1. O' = O /\ \A j \in O : Payload[j] = Payload'[j]
    BY <1>3, <1>4, <1>6 DEF Keeps, Owners
  <2> HIDE DEF O
  <2>2. SumFunctionOnSet(Payload, O) = SumFunctionOnSet(Payload', O)
    BY <1>3, <2>1, SumOfSame
  <2> QED
    BY <1>1, <1>6, <2>1, <2>2 DEF Keeps, O
<1>7. ASSUME NEW i \in Claims, NEW a \in Budgets, NEW by \in {1, -1}, Moves(i, a, by)
      PROVE  usage'[b][r].bytes = IF r \in Metered THEN SumFunctionOnSet(Payload', O') ELSE 0
  <2>1. PICK q \in Resource, n \in Nat :
          /\ Account(a, q, n, by)
          /\ by = 1  => a \notin Permits(i) /\ claim'[i].resource = q /\ claim'[i].bytes = n
                         /\ Permits(i)' = Permits(i) \cup {a}
          /\ by = -1 => a \in Permits(i) /\ claim[i].resource = q /\ claim[i].bytes = n
                         /\ Permits(i)' = Permits(i) \ {a}
    BY <1>7 DEF Moves
  <2>2. \A j \in Claims \ {i} :
          Permits(j)' = Permits(j) /\ claim'[j].resource = claim[j].resource /\ claim'[j].bytes = claim[j].bytes
    BY <1>7 DEF Moves, Permits
  <2>3. CASE <<a, q>> # <<b, r>>
    <3>1. usage'[b][r] = usage[b][r]
      BY <2>1, <2>3, Accounted
    <3>2. (b \in Permits(i)' /\ claim'[i].resource = r) <=> (b \in Permits(i) /\ claim[i].resource = r)
      BY <1>7, <2>1, <2>3 DEF Moves
    <3>3. O' = O
      BY <2>2, <3>2 DEF Owners
    <3>4. i \in O => claim'[i].bytes = claim[i].bytes
      BY <1>7, <3>3 DEF Moves, Owners
    <3>5. \A j \in O : Payload[j] = Payload'[j]
      BY <1>3, <1>4, <2>2, <3>3, <3>4
    <3> HIDE DEF O
    <3>6. SumFunctionOnSet(Payload, O) = SumFunctionOnSet(Payload', O)
      BY <1>3, <3>5, SumOfSame
    <3> QED
      BY <1>1, <3>1, <3>3, <3>6
  <2>4. CASE <<a, q>> = <<b, r>>
    <3>1. usage'[b][r].bytes = usage[b][r].bytes + (IF r \in Metered THEN by * n ELSE 0)
      BY <2>1, <2>4, Accounted
    <3>2. CASE by = 1
      <4>1. i \notin O /\ i \in O' /\ O' \ {i} = O
        BY <2>1, <2>2, <2>4, <3>2 DEF Owners
      <4>2. \A j \in O : Payload[j] = Payload'[j]
        BY <1>3, <1>4, <2>2, <4>1
      <4>3. Payload'[i] = n
        BY <1>4, <2>1, <3>2, <4>1
      <4> HIDE DEF O
      <4>4. SumFunctionOnSet(Payload, O) = SumFunctionOnSet(Payload', O)
        BY <1>3, <4>2, SumOfSame
      <4>5. SumFunctionOnSet(Payload', O') = Payload'[i] + SumFunctionOnSet(Payload', O' \ {i})
        BY <1>4, <4>1, SumOfMore
      <4>6. SumFunctionOnSet(Payload', O') = n + sum
        BY <4>1, <4>3, <4>4, <4>5
      <4> HIDE DEF sum
      <4>7. usage'[b][r].bytes = usage[b][r].bytes + (IF r \in Metered THEN n ELSE 0)
        BY <3>1, <3>2
      <4> QED
        BY <1>1, <1>5, <4>6, <4>7
    <3>3. CASE by = -1
      <4>1. i \in O /\ O' = O \ {i}
        BY <2>1, <2>2, <2>4, <3>3 DEF Owners
      <4>2. \A j \in O' : Payload'[j] = Payload[j]
        BY <1>3, <1>4, <2>2, <4>1
      <4>3. Payload[i] = n
        BY <1>3, <2>1, <3>3, <4>1
      <4> HIDE DEF O
      <4>4. SumFunctionOnSet(Payload', O') = SumFunctionOnSet(Payload, O') /\ SumFunctionOnSet(Payload', O') \in Int
        BY <1>4, <4>2, SumOfSame
      <4>5. SumFunctionOnSet(Payload, O) = Payload[i] + SumFunctionOnSet(Payload, O \ {i})
        BY <1>3, <4>1, SumOfMore
      <4> QED
        BY <1>1, <3>1, <3>3, <4>1, <4>3, <4>4, <4>5
    <3> QED
      BY <3>2, <3>3
  <2> QED
    BY <2>3, <2>4
<1> QED
  BY <1>6, <1>7, StepMoves

\* No budget ever admits more than its limits (Inner::limits), whatever the
\* claims, sessions, sizes and limits are.
THEOREM NeverExceeded == Spec => []WithinLimits
<1>1. Init => Typing /\ WithinLimits
  BY InitHolds
<1>2. Typing /\ WithinLimits /\ [Next]_vars => (Typing /\ WithinLimits)'
  BY StepMoves, LimitsStep
<1> QED
  BY <1>1, <1>2, PTL DEF Spec

\* The usage of a budget is that of its live permits, counts and bytes: none
\* leaks when the shared budget refuses (Session::reserve), none is returned
\* twice and what is returned is what was taken (Permit::drop).
THEOREM NothingLeaks == Spec => []UsageIsOwned
<1>1. Init => Typing /\ CountsOwned /\ BytesOwned
  BY InitHolds
<1>2. Typing /\ CountsOwned /\ BytesOwned /\ [Next]_vars => (Typing /\ CountsOwned /\ BytesOwned)'
  BY StepMoves, CountsStep, BytesStep
<1>3. CountsOwned /\ BytesOwned => UsageIsOwned
  BY DEF CountsOwned, BytesOwned, UsageIsOwned
<1> QED
  BY <1>1, <1>2, <1>3, PTL DEF Spec

\* The counters are unsigned: the fields of ResourceSnapshot are usize.
NoUnderflow ==
    \A b \in Budgets, r \in Resource : usage[b][r].count \in Nat /\ usage[b][r].bytes \in Nat

\* No drop takes off more than is there: the unsigned counters of a budget
\* never wrap (Permit::drop subtracts without a check).
THEOREM NeverNegative == Spec => []NoUnderflow
<1>1. Typing /\ UsageIsOwned => NoUnderflow
  <2> SUFFICES ASSUME Typing, UsageIsOwned, NEW b \in Budgets, NEW r \in Resource
               PROVE  usage[b][r].count \in Nat /\ usage[b][r].bytes \in Nat
    BY DEF NoUnderflow
  <2> DEFINE O == Owners(b, r)
  <2>1. IsFiniteSet(O) /\ \A j \in O : Payload[j] \in Nat
    BY OwnersAreFinite DEF Typing
  <2> HIDE DEF O
  <2>2. Cardinality(O) \in Nat /\ SumFunctionOnSet(Payload, O) \in Nat
    BY <2>1, FS_CardinalityType, SumOfNaturals
  <2> QED
    BY <2>2 DEF UsageIsOwned, O
<1>2. Init => Typing
  BY InitHolds
<1>3. Typing /\ [Next]_vars => Typing'
  BY StepMoves
<1> QED
  BY <1>1, <1>2, <1>3, NothingLeaks, PTL DEF Spec
=============================================================================
