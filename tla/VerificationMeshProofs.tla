----------------------- MODULE VerificationMeshProofs -----------------------
(***************************************************************************)
(* Theorems about VerificationMesh, for any tasks, costs, budget and       *)
(* overlap.                                                                *)
(***************************************************************************)
EXTENDS VerificationMesh, TLAPS, FiniteSetTheorems

LEMMA CostNat == Costs \subseteq Nat /\ GroqCost \in Nat
BY MeshAssumption

\* Adding to the base of the session does not exceed the budget.
LEMMA BudgetGrows ==
  ASSUME NEW p \in Nat, NEW b \in Nat, NEW c \in Nat, NEW v \in Nat,
         v * 100 <= p * b
  PROVE  v * 100 <= p * (b + c)
<1>1. p * (b + c) = p * b + p * c
  OBVIOUS
<1>2. p * c \in Nat /\ p * b \in Nat
  OBVIOUS
<1> QED
  BY <1>1, <1>2

\* What a charge does, whatever its price.
LEMMA ChargeEffect ==
  ASSUME TypeOK, NEW t \in Tasks, NEW c \in Nat, Charge(t, c), UNCHANGED sessionCostBase
  PROVE  /\ sessionVerificationCost' \in Nat
         /\ meshEnabled' \in BOOLEAN
         /\ pc' \in [Tasks -> {"idle", "agentA", "agentB", "signatures", "gateLog",
                               "arbiter", "skippedLog", "degradedLog", "breakerLog",
                               "completedLog", "done"} \cup Rejected]
         /\ \A u \in Tasks : pc'[u] = "arbiter" => u # t /\ pc[u] = "arbiter"
         /\ EnabledMeansWithinBudget'
<1>1. sessionVerificationCost' = sessionVerificationCost + c
  BY DEF Charge
<1>2. sessionVerificationCost' \in Nat
  BY <1>1 DEF TypeOK
<1>3. CASE (sessionVerificationCost + c) * 100 > max_extra_cost_pct * sessionCostBase
  <2>1. meshEnabled' = FALSE /\ pc' = [pc EXCEPT ![t] = "breakerLog"]
    BY <1>3 DEF Charge
  <2> QED
    BY <1>2, <2>1 DEF TypeOK, EnabledMeansWithinBudget
<1>4. CASE ~((sessionVerificationCost + c) * 100 > max_extra_cost_pct * sessionCostBase)
  <2>1. meshEnabled' = meshEnabled /\ pc' = [pc EXCEPT ![t] = "completedLog"]
    BY <1>4 DEF Charge
  <2>2. max_extra_cost_pct * sessionCostBase \in Nat
    BY MeshAssumption DEF TypeOK
  <2>3. WithinBudget'
    <3>1. (sessionVerificationCost + c) * 100 <= max_extra_cost_pct * sessionCostBase
      BY <1>4, <2>2 DEF TypeOK
    <3> QED
      BY <1>1, <3>1 DEF WithinBudget
  <2> QED
    BY <1>2, <2>1, <2>3 DEF TypeOK, EnabledMeansWithinBudget
<1> QED
  BY <1>3, <1>4

Inv == TypeOK /\ EnabledMeansWithinBudget /\ ArbiterDense

LEMMA InvInit == Init => Inv
BY MeshAssumption
   DEF Init, Inv, TypeOK, EnabledMeansWithinBudget, WithinBudget, ArbiterDense

\* A critic that compares two candidates with reused signatures is above the
\* threshold, so the gate drops them.
LEMMA GateCloses == useDense("critic", 2, 100, FALSE)
BY DEF useDense, computeJcrRisk, JUDGE_ROLES, DEFAULT_JCR_THRESHOLD

LEMMA InvStep == Inv /\ [Next]_vars => Inv'
<1> SUFFICES ASSUME Inv, [Next]_vars PROVE Inv'
  OBVIOUS
<1>t. TypeOK /\ EnabledMeansWithinBudget /\ ArbiterDense
  BY DEF Inv
<1>1. ASSUME NEW t \in Tasks, execute(t) PROVE Inv'
  <2>1. PICK task \in Inputs : verify' = [verify EXCEPT ![t] = shouldVerify(task)]
    BY <1>1 DEF execute
  <2>2. shouldVerify(task) \in BOOLEAN
    BY DEF shouldVerify
  <2>3. verify' \in [Tasks -> BOOLEAN]
    BY <1>t, <2>1, <2>2 DEF TypeOK
  <2> QED
    BY <1>1, <1>t, <2>3 DEF execute, session, Inv, TypeOK, EnabledMeansWithinBudget,
                           WithinBudget, ArbiterDense
<1>2. ASSUME NEW t \in Tasks, AgentA(t) PROVE Inv'
  <2>1. PICK c \in Costs : sessionCostBase' = sessionCostBase + c
    BY <1>2 DEF AgentA
  <2>2. c \in Nat /\ sessionCostBase' \in Nat
    BY <1>t, <2>1, CostNat DEF TypeOK
  <2>3. TypeOK'
    BY <1>2, <1>t, <2>2 DEF AgentA, TypeOK
  <2>4. EnabledMeansWithinBudget'
    BY <1>2, <1>t, <2>1, <2>2, BudgetGrows, MeshAssumption
       DEF AgentA, TypeOK, EnabledMeansWithinBudget, WithinBudget
  <2>5. ArbiterDense'
    BY <1>2, <1>t DEF AgentA, TypeOK, ArbiterDense
  <2> QED
    BY <2>3, <2>4, <2>5 DEF Inv
<1>3. ASSUME NEW t \in Tasks,
             \/ AgentAThrows(t) \/ AgentBThrows(t) \/ AgentBDegrades(t)
             \/ BreakerLogged(t) \/ Logged(t) \/ LogFails(t)
      PROVE  Inv'
  BY <1>3, <1>t
     DEF AgentAThrows, AgentBThrows, AgentBDegrades, BreakerLogged, Logged, LogFails,
         Reject, Rejected, session, Inv, TypeOK, EnabledMeansWithinBudget, WithinBudget, ArbiterDense
<1>4. ASSUME NEW t \in Tasks, AgentBAgrees(t) PROVE Inv'
  <2>1. PICK c \in Costs : /\ agentBCost' = [agentBCost EXCEPT ![t] = c]
                           /\ Charge(t, c + GroqCost)
    BY <1>4 DEF AgentBAgrees
  <2>2. c \in 0 .. MaxCost /\ c + GroqCost \in Nat
    BY MeshAssumption
  <2>3. UNCHANGED <<sessionCostBase, verify, compressed>>
    BY <1>4 DEF AgentBAgrees
  <2> QED
    BY <1>t, <2>1, <2>2, <2>3, ChargeEffect DEF Inv, TypeOK, ArbiterDense
<1>5. ASSUME NEW t \in Tasks, AgentBDiffers(t) PROVE Inv'
  BY <1>5, <1>t, MeshAssumption
     DEF AgentBDiffers, session, Inv, TypeOK, EnabledMeansWithinBudget, WithinBudget,
         ArbiterDense
<1>6. ASSUME NEW t \in Tasks, Signatures(t) PROVE Inv'
  BY <1>6, <1>t
     DEF Signatures, session, Inv, TypeOK, EnabledMeansWithinBudget, WithinBudget,
         ArbiterDense
<1>7. ASSUME NEW t \in Tasks, Gate(t) PROVE Inv'
  <2>1. compressed' \in [Tasks -> BOOLEAN] /\ ~compressed'[t]
    BY <1>7, <1>t, GateCloses DEF Gate, TypeOK
  <2>2. \A u \in Tasks : u # t => compressed'[u] = compressed[u] /\ pc'[u] = pc[u]
    BY <1>7, <1>t DEF Gate, TypeOK
  <2>3. ArbiterDense'
    BY <1>t, <2>1, <2>2 DEF ArbiterDense
  <2> QED
    BY <1>7, <1>t, <2>1, <2>3
       DEF Gate, session, Inv, TypeOK, EnabledMeansWithinBudget, WithinBudget
<1>8. ASSUME NEW t \in Tasks, Arbiter(t) PROVE Inv'
  <2>1. PICK c \in Costs : Charge(t, agentBCost[t] + c)
    BY <1>8 DEF Arbiter
  <2>2. agentBCost[t] + c \in Nat
    BY <1>t, CostNat, MeshAssumption DEF TypeOK
  <2>3. UNCHANGED <<sessionCostBase, verify, agentBCost, compressed>>
    BY <1>8 DEF Arbiter
  <2> QED
    BY <1>t, <2>1, <2>2, <2>3, ChargeEffect DEF Inv, TypeOK, ArbiterDense
<1>9. CASE UNCHANGED vars
  BY <1>9, <1>t DEF vars, session, Inv, TypeOK, EnabledMeansWithinBudget, WithinBudget,
                    ArbiterDense
<1> QED
  BY <1>1, <1>2, <1>3, <1>4, <1>5, <1>6, <1>7, <1>8, <1>9 DEF Next, Step

\* The counters, costs and flags keep their types.
THEOREM TypeCorrect == Spec => []TypeOK
<1>1. Inv => TypeOK
  BY DEF Inv
<1> QED
  BY InvInit, InvStep, <1>1, PTL DEF Spec

\* As long as the breaker has not fired, verification has stayed within its share
\* of the session's cost, whatever overlaps.
THEOREM BudgetKept == Spec => []EnabledMeansWithinBudget
<1>1. Inv => EnabledMeansWithinBudget
  BY DEF Inv
<1> QED
  BY InvInit, InvStep, <1>1, PTL DEF Spec

\* INV-15: no arbiter is ever called with the compressed context.
THEOREM ArbiterAlwaysDense == Spec => []ArbiterDense
<1>1. Inv => ArbiterDense
  BY DEF Inv
<1> QED
  BY InvInit, InvStep, <1>1, PTL DEF Spec

-----------------------------------------------------------------------------
(***************************************************************************)
(* The overshoot.  Each execute that has yet to charge its verification    *)
(* holds back its share of the allowance.                                  *)
(***************************************************************************)
Uncharged == {"agentA", "agentB", "signatures", "gateLog", "arbiter"}
Pending == {t \in Running : verify[t] /\ pc[t] \in Uncharged}

OvershootInv ==
  /\ IsFiniteSet(Running) /\ Cardinality(Running) <= Parallel
  /\ \A t \in Tasks :
       pc[t] \in {"agentB", "signatures", "gateLog", "arbiter"} => verify[t]
  /\ ~meshEnabled =>
       sessionVerificationCost * 100 <=
         max_extra_cost_pct * sessionCostBase
         + 100 * (Parallel - Cardinality(Pending)) * 2 * MaxCost

\* Fewer members, fewer places.
LEMMA SubsetCard ==
  ASSUME NEW S, IsFiniteSet(S), NEW T, T \subseteq S
  PROVE  IsFiniteSet(T) /\ Cardinality(T) \in Nat /\ Cardinality(S) \in Nat
         /\ Cardinality(T) <= Cardinality(S)
BY FS_Subset, FS_CardinalityType

LEMMA RemoveCard ==
  ASSUME NEW S, IsFiniteSet(S), NEW t \in S, NEW T, T \subseteq S \ {t}
  PROVE  Cardinality(T) + 1 <= Cardinality(S)
<1>1. IsFiniteSet(S \ {t}) /\ Cardinality(S \ {t}) = Cardinality(S) - 1
  BY FS_RemoveElement
<1>2. Cardinality(T) <= Cardinality(S \ {t}) /\ Cardinality(T) \in Nat
  BY <1>1, SubsetCard
<1> QED
  BY <1>1, <1>2, FS_CardinalityType

\* The allowance grows when a pending execute goes and when the base grows.
LEMMA AllowanceGrows ==
  ASSUME NEW p \in Nat, NEW b \in Nat, NEW c \in Nat, NEW P \in Nat, NEW M \in Nat,
         NEW k \in Nat, NEW j \in Nat, j <= k
  PROVE  p * b + 100 * (P - k) * 2 * M <= p * (b + c) + 100 * (P - j) * 2 * M
<1>1. p * (b + c) = p * b + p * c /\ p * c \in Nat /\ p * b \in Nat
  OBVIOUS
<1>2. PICK d \in Nat : k = j + d
  <2>1. k - j \in Nat /\ k = j + (k - j)
    OBVIOUS
  <2> QED
    BY <2>1
<1>3. (P - j) * M = (P - k) * M + d * M
  BY <1>2
<1>4. d * M \in Nat /\ (P - k) * M \in Int /\ (P - j) * M \in Int
  OBVIOUS
<1>5. /\ 100 * (P - k) * 2 * M = 200 * ((P - k) * M)
      /\ 100 * (P - j) * 2 * M = 200 * ((P - j) * M)
  OBVIOUS
<1> QED
  BY <1>1, <1>3, <1>4, <1>5

LEMMA AllowanceCovers ==
  ASSUME NEW B \in Nat, NEW P \in Nat, NEW M \in Nat, NEW k \in Nat, NEW j \in Nat,
         NEW v \in Nat, NEW c \in Nat, c <= 2 * M, j + 1 <= k,
         v * 100 <= B + 100 * (P - k) * 2 * M
  PROVE  (v + c) * 100 <= B + 100 * (P - j) * 2 * M
<1>1. PICK d \in Nat : k = j + 1 + d
  <2>1. k - (j + 1) \in Nat /\ k = j + 1 + (k - (j + 1))
    OBVIOUS
  <2> QED
    BY <2>1
<1>2. (P - j) * M = (P - k) * M + M + d * M
  BY <1>1
<1>3. d * M \in Nat /\ (P - k) * M \in Int /\ (P - j) * M \in Int
  OBVIOUS
<1>4. /\ 100 * (P - k) * 2 * M = 200 * ((P - k) * M)
      /\ 100 * (P - j) * 2 * M = 200 * ((P - j) * M)
  OBVIOUS
<1> QED
  BY <1>2, <1>3, <1>4

\* The numbers involved, and the allowance whether or not the breaker has fired.
LEMMA Allowance ==
  ASSUME TypeOK, EnabledMeansWithinBudget, OvershootInv
  PROVE  /\ IsFiniteSet(Pending) /\ Cardinality(Pending) \in Nat
         /\ Cardinality(Running) \in Nat
         /\ Cardinality(Pending) <= Parallel
         /\ sessionVerificationCost * 100 <=
              max_extra_cost_pct * sessionCostBase
              + 100 * (Parallel - Cardinality(Pending)) * 2 * MaxCost
<1>1. IsFiniteSet(Running) /\ Pending \subseteq Running
  BY DEF OvershootInv, Pending
<1>2. /\ IsFiniteSet(Pending) /\ Cardinality(Pending) \in Nat
      /\ Cardinality(Running) \in Nat /\ Cardinality(Pending) <= Cardinality(Running)
  BY <1>1, SubsetCard
<1>3. Cardinality(Pending) <= Parallel
  BY <1>2, MeshAssumption DEF OvershootInv
<1>4. CASE meshEnabled
  <2>1. sessionVerificationCost * 100 <= max_extra_cost_pct * sessionCostBase
    BY <1>4 DEF EnabledMeansWithinBudget, WithinBudget
  <2>2. (Parallel - Cardinality(Pending)) * MaxCost \in Nat
    BY <1>2, <1>3, MeshAssumption
  <2>3. 100 * (Parallel - Cardinality(Pending)) * 2 * MaxCost
          = 200 * ((Parallel - Cardinality(Pending)) * MaxCost)
    BY <1>2, MeshAssumption
  <2>4. max_extra_cost_pct * sessionCostBase \in Nat
    BY MeshAssumption DEF TypeOK
  <2> QED
    BY <1>2, <1>3, <2>1, <2>2, <2>3, <2>4 DEF TypeOK
<1>5. CASE ~meshEnabled
  BY <1>2, <1>3, <1>5 DEF OvershootInv
<1> QED
  BY <1>4, <1>5 DEF TypeOK

\* A step that neither starts nor charges an execute lets the allowance grow.
LEMMA QuietStep ==
  ASSUME Inv, OvershootInv, NEW c \in Nat, sessionCostBase' = sessionCostBase + c,
         Running' \subseteq Running, Pending' \subseteq Pending,
         UNCHANGED <<sessionVerificationCost, meshEnabled>>,
         \A t \in Tasks :
           pc'[t] \in {"agentB", "signatures", "gateLog", "arbiter"} => verify'[t]
  PROVE  OvershootInv'
<1>t. TypeOK /\ EnabledMeansWithinBudget
  BY DEF Inv
<1>1. IsFiniteSet(Running)' /\ Cardinality(Running)' <= Parallel
  BY SubsetCard, MeshAssumption DEF OvershootInv
<1>2. Cardinality(Pending') \in Nat /\ Cardinality(Pending') <= Cardinality(Pending)
  BY <1>t, Allowance, SubsetCard
<1>3. sessionVerificationCost * 100 <=
        max_extra_cost_pct * (sessionCostBase + c)
        + 100 * (Parallel - Cardinality(Pending')) * 2 * MaxCost
  <2> DEFINE L == max_extra_cost_pct * sessionCostBase
                  + 100 * (Parallel - Cardinality(Pending)) * 2 * MaxCost
             R == max_extra_cost_pct * (sessionCostBase + c)
                  + 100 * (Parallel - Cardinality(Pending')) * 2 * MaxCost
  <2>1. Cardinality(Pending) \in Nat /\ sessionVerificationCost * 100 <= L
    BY <1>t, Allowance
  <2>2. L <= R
    BY <1>t, <1>2, <2>1, AllowanceGrows, MeshAssumption DEF TypeOK
  <2>3. L \in Int /\ R \in Int /\ sessionVerificationCost * 100 \in Int
    BY <1>t, <1>2, <2>1, MeshAssumption DEF TypeOK
  <2> HIDE DEF L, R
  <2>4. sessionVerificationCost * 100 <= R
    BY <2>1, <2>2, <2>3
  <2> QED
    BY <2>4 DEF R
<1> QED
  BY <1>1, <1>3 DEF OvershootInv

\* A charge uses up the share of the execute that makes it.
LEMMA ChargeStep ==
  ASSUME Inv, OvershootInv, NEW t \in Pending, NEW c \in Nat, c <= 2 * MaxCost,
         Charge(t, c), UNCHANGED <<sessionCostBase, verify>>
  PROVE  OvershootInv'
<1>t. TypeOK /\ EnabledMeansWithinBudget /\ t \in Tasks
  BY DEF Inv, Pending, Running
<1>1. sessionVerificationCost' = sessionVerificationCost + c
  BY DEF Charge
<1>2. PICK q \in {"breakerLog", "completedLog"} : pc' = [pc EXCEPT ![t] = q]
  BY DEF Charge
<1>3. Running' \subseteq Running /\ Pending' \subseteq Pending \ {t}
  BY <1>t, <1>2 DEF Running, Pending, Uncharged, TypeOK
<1>4. IsFiniteSet(Running)' /\ Cardinality(Running)' <= Parallel
  BY <1>3, SubsetCard, MeshAssumption DEF OvershootInv
<1>5. IsFiniteSet(Pending) /\ Cardinality(Pending) \in Nat
  BY <1>t, Allowance
<1>6. Cardinality(Pending') + 1 <= Cardinality(Pending) /\ Cardinality(Pending') \in Nat
  <2>1. Cardinality(Pending') + 1 <= Cardinality(Pending)
    BY <1>3, <1>5, RemoveCard
  <2>2. Cardinality(Pending') \in Nat
    BY <1>3, <1>5, SubsetCard
  <2> QED
    BY <2>1, <2>2
<1>7. (sessionVerificationCost + c) * 100 <=
        max_extra_cost_pct * sessionCostBase
        + 100 * (Parallel - Cardinality(Pending')) * 2 * MaxCost
  <2>1. max_extra_cost_pct * sessionCostBase \in Nat
    BY <1>t, MeshAssumption DEF TypeOK
  <2>2. sessionVerificationCost * 100 <=
          max_extra_cost_pct * sessionCostBase
          + 100 * (Parallel - Cardinality(Pending)) * 2 * MaxCost
    BY <1>t, Allowance
  <2> QED
    BY <1>t, <1>5, <1>6, <2>1, <2>2, AllowanceCovers, MeshAssumption DEF TypeOK
<1>8. \A u \in Tasks :
        pc'[u] \in {"agentB", "signatures", "gateLog", "arbiter"} => verify'[u]
  BY <1>t, <1>2 DEF OvershootInv, TypeOK
<1> QED
  BY <1>1, <1>4, <1>7, <1>8 DEF OvershootInv

LEMMA OvershootInit == Init => OvershootInv
<1> SUFFICES ASSUME Init PROVE OvershootInv
  OBVIOUS
<1>1. Running = {}
  BY DEF Init, Running
<1> QED
  BY <1>1, FS_EmptySet, MeshAssumption DEF Init, OvershootInv

LEMMA OvershootStep == Inv /\ OvershootInv /\ [Next]_vars => OvershootInv'
<1> SUFFICES ASSUME Inv, OvershootInv, [Next]_vars PROVE OvershootInv'
  OBVIOUS
<1>t. TypeOK
  BY DEF Inv
<1>0. sessionCostBase + 0 = sessionCostBase
  BY <1>t DEF TypeOK
<1>1. ASSUME NEW t \in Tasks, execute(t) PROVE OvershootInv'
  <2>1. PICK task \in Inputs : verify' = [verify EXCEPT ![t] = shouldVerify(task)]
    BY <1>1 DEF execute
  <2>2. /\ pc' = [pc EXCEPT ![t] = "agentA"] /\ pc[t] = "idle"
        /\ Cardinality(Running) < Parallel /\ UNCHANGED session
    BY <1>1 DEF execute
  <2>3. Running' = Running \cup {t} /\ t \notin Running
    BY <1>t, <2>2 DEF Running, Rejected, TypeOK
  <2>4. /\ IsFiniteSet(Running \cup {t})
        /\ Cardinality(Running \cup {t}) = Cardinality(Running) + 1
        /\ Cardinality(Running) \in Nat
    BY <2>3, FS_AddElement, FS_CardinalityType DEF OvershootInv
  <2>5. IsFiniteSet(Running)' /\ Cardinality(Running)' <= Parallel
    BY <2>2, <2>3, <2>4, MeshAssumption
  <2>6. \A u \in Tasks :
          pc'[u] \in {"agentB", "signatures", "gateLog", "arbiter"} => verify'[u]
    BY <1>t, <2>1, <2>2 DEF OvershootInv, TypeOK
  <2>7. ASSUME ~meshEnabled PROVE Pending' = Pending
    <3>1. ~verify'[t]
      BY <1>t, <2>1, <2>7 DEF shouldVerify, TypeOK
    <3>2. \A u \in Tasks : u # t => verify'[u] = verify[u] /\ pc'[u] = pc[u]
      BY <1>t, <2>1, <2>2 DEF TypeOK
    <3> QED
      BY <2>3, <3>1, <3>2 DEF Pending, Running
  <2> QED
    BY <2>2, <2>5, <2>6, <2>7 DEF OvershootInv, session
<1>2. ASSUME NEW t \in Tasks, AgentA(t) PROVE OvershootInv'
  <2>1. PICK c \in Costs : sessionCostBase' = sessionCostBase + c
    BY <1>2 DEF AgentA
  <2>2. Running' \subseteq Running /\ Pending' \subseteq Pending
    BY <1>2, <1>t DEF AgentA, Running, Rejected, Pending, Uncharged, TypeOK
  <2>3. \A u \in Tasks :
          pc'[u] \in {"agentB", "signatures", "gateLog", "arbiter"} => verify'[u]
    BY <1>2, <1>t DEF AgentA, OvershootInv, TypeOK
  <2> QED
    BY <1>2, <2>1, <2>2, <2>3, CostNat, QuietStep DEF AgentA
<1>3. ASSUME NEW t \in Tasks,
             \/ AgentAThrows(t) \/ AgentBThrows(t) \/ AgentBDegrades(t)
             \/ AgentBDiffers(t) \/ Signatures(t) \/ Gate(t)
             \/ BreakerLogged(t) \/ Logged(t) \/ LogFails(t)
      PROVE  OvershootInv'
  <2> USE DEF AgentAThrows, AgentBThrows, AgentBDegrades, AgentBDiffers, Signatures,
              Gate, BreakerLogged, Logged, LogFails, Reject, Rejected, session
  <2>1. UNCHANGED <<session, verify>>
    BY <1>3
  <2>2. PICK q : pc' = [pc EXCEPT ![t] = q] /\
          (q \in Uncharged \/ q \notin {"idle", "done"} \cup Rejected =>
             t \in Running /\ (pc[t] \in Uncharged \/ q \notin Uncharged)) /\
          (q \in {"agentB", "signatures", "gateLog", "arbiter"} => verify[t])
    BY <1>3, <1>t DEF Running, Uncharged, OvershootInv, TypeOK
  <2> QED
    <3>1. Running' \subseteq Running /\ Pending' \subseteq Pending
      BY <1>t, <2>1, <2>2 DEF Running, Pending, Uncharged, TypeOK
    <3>2. \A u \in Tasks :
            pc'[u] \in {"agentB", "signatures", "gateLog", "arbiter"} => verify'[u]
      BY <1>t, <2>1, <2>2 DEF OvershootInv, TypeOK
    <3> QED
      BY <1>0, <2>1, <3>1, <3>2, QuietStep
<1>4. ASSUME NEW t \in Tasks, AgentBAgrees(t) PROVE OvershootInv'
  <2>1. PICK c \in Costs : Charge(t, c + GroqCost)
    BY <1>4 DEF AgentBAgrees
  <2>2. c + GroqCost \in Nat /\ c + GroqCost <= 2 * MaxCost
    BY MeshAssumption
  <2>3. t \in Pending
    BY <1>4 DEF AgentBAgrees, OvershootInv, Pending, Running, Rejected, Uncharged
  <2> QED
    BY <1>4, <2>1, <2>2, <2>3, ChargeStep DEF AgentBAgrees
<1>5. ASSUME NEW t \in Tasks, Arbiter(t) PROVE OvershootInv'
  <2>1. PICK c \in Costs : Charge(t, agentBCost[t] + c)
    BY <1>5 DEF Arbiter
  <2>2. agentBCost[t] + c \in Nat /\ agentBCost[t] + c <= 2 * MaxCost
    BY <1>t, MeshAssumption DEF TypeOK
  <2>3. t \in Pending
    BY <1>5 DEF Arbiter, OvershootInv, Pending, Running, Rejected, Uncharged
  <2> QED
    BY <1>5, <2>1, <2>2, <2>3, ChargeStep DEF Arbiter
<1>6. CASE UNCHANGED vars
  <2>1. UNCHANGED <<session, pc, verify>>
    BY <1>6 DEF vars
  <2> QED
    BY <2>1 DEF OvershootInv, Running, Pending, session
<1> QED
  BY <1>1, <1>2, <1>3, <1>4, <1>5, <1>6 DEF Next, Step

\* When the breaker fires, the cost of verification exceeds its share by at most
\* one agent B and one arbiter for each execute the caller lets overlap, and it
\* never exceeds it by more afterwards.
THEOREM OvershootLimited == Spec => []OvershootBounded
<1>1. Inv /\ OvershootInv => OvershootBounded
  <2> SUFFICES ASSUME Inv, OvershootInv PROVE OvershootBounded
    OBVIOUS
  <2>t. TypeOK /\ EnabledMeansWithinBudget
    BY DEF Inv
  <2> DEFINE k == Cardinality(Pending)
             L == max_extra_cost_pct * sessionCostBase + 100 * (Parallel - k) * 2 * MaxCost
             R == max_extra_cost_pct * (sessionCostBase + 0)
                  + 100 * (Parallel - 0) * 2 * MaxCost
  <2>1. k \in Nat /\ sessionVerificationCost * 100 <= L
    BY <2>t, Allowance
  <2>2. L <= R
    BY <2>t, <2>1, AllowanceGrows, MeshAssumption DEF TypeOK
  <2>3. R = max_extra_cost_pct * sessionCostBase + 100 * Parallel * 2 * MaxCost
    BY <2>t, MeshAssumption DEF TypeOK
  <2>4. L \in Int /\ R \in Int /\ sessionVerificationCost * 100 \in Int
    BY <2>t, <2>1, MeshAssumption DEF TypeOK
  <2> HIDE DEF L, R
  <2>5. sessionVerificationCost * 100 <= R
    BY <2>1, <2>2, <2>4
  <2> QED
    BY <2>3, <2>5 DEF OvershootBounded
<1>2. Init => Inv /\ OvershootInv
  BY InvInit, OvershootInit
<1>3. Inv /\ OvershootInv /\ [Next]_vars => (Inv /\ OvershootInv)'
  BY InvStep, OvershootStep
<1> QED
  BY <1>1, <1>2, <1>3, PTL DEF Spec
=============================================================================
