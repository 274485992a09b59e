-------------------------- MODULE VerificationMesh --------------------------
(***************************************************************************)
(* VerificationMesh of src/core/verification-mesh.ts: an execute() runs    *)
(* agent A, and for a task that qualifies also agent B against a timeout,  *)
(* and an arbiter that compares the two.  The executes of a session share  *)
(* the cost counters and the circuit breaker.  The arbiter's context goes  *)
(* through the gate of src/core/jcr-safety-gate.ts.                        *)
(*                                                                         *)
(* A step of an execute is what runs between two of its awaits.            *)
(***************************************************************************)
EXTENDS Integers, FiniteSets

CONSTANTS
  Tasks,               \* the calls of execute()
  Inputs,              \* what is asked of them: complexity, files, min_complexity
  Parallel,            \* how many of them the caller lets overlap
  Costs,               \* what estimateCost may return
  GroqCost,            \* estimateCost("groq"), when no arbiter was called
  MaxCost,             \* the largest of the costs
  max_extra_cost_pct,  \* the budget of the circuit breaker
  LogMayFail           \* whether an append to the mesh's ledger may reject

ASSUME MeshAssumption ==
  /\ Inputs \subseteq [complexity : {"low", "medium", "high", "critical"},
                       filesModified : Nat, min_complexity : {"high", "critical"}]
  /\ Parallel \in Nat
  /\ MaxCost \in Nat
  /\ Costs \subseteq 0 .. MaxCost /\ GroqCost \in Costs
  /\ max_extra_cost_pct \in Nat
  /\ LogMayFail \in BOOLEAN

VARIABLES
  sessionCostBase,          \* what the agents A have cost
  sessionVerificationCost,  \* what the agents B and the arbiters have cost
  meshEnabled,              \* FALSE once the breaker has fired
  pc,                       \* where an execute is
  verify,                   \* its shouldVerify, decided before agent A runs
  agentBCost,               \* the cost of its agent B
  compressed                \* whether compressedContext holds file signatures

session == <<sessionCostBase, sessionVerificationCost, meshEnabled>>
vars == <<session, pc, verify, agentBCost, compressed>>

Init ==
  /\ sessionCostBase = 0
  /\ sessionVerificationCost = 0
  /\ meshEnabled = TRUE
  /\ pc = [t \in Tasks |-> "idle"]
  /\ verify = [t \in Tasks |-> FALSE]
  /\ agentBCost = [t \in Tasks |-> 0]
  /\ compressed = [t \in Tasks |-> FALSE]

-----------------------------------------------------------------------------
(***************************************************************************)
(* The gate, its risks in hundredths.                                      *)
(***************************************************************************)
JUDGE_ROLES == {"critic", "judge"}
DEFAULT_JCR_THRESHOLD == 70

computeJcrRisk(role, candidates, reuse, shuffled) ==
  LET risk == (IF role \in JUDGE_ROLES THEN 60 ELSE 10)
              + (IF candidates > 2 THEN 10 * (candidates - 2) ELSE 0)
              + (IF shuffled THEN 20 ELSE 0)
              + (IF reuse > 80 THEN 15 ELSE 0)
  IN  IF risk > 100 THEN 100 ELSE risk

useDense(role, candidates, reuse, shuffled) ==
  /\ role \in JUDGE_ROLES
  /\ computeJcrRisk(role, candidates, reuse, shuffled) > DEFAULT_JCR_THRESHOLD

-----------------------------------------------------------------------------
\* Mutant: the breaker is not consulted.
shouldVerifyAlways(task) ==
  /\ task.complexity \in {"high", "critical"}
  /\ task.filesModified = 0 \/ task.filesModified >= 3

\* filesModified is not compared when it is 0, which is falsy.
shouldVerify(task) ==
  /\ meshEnabled
  /\ task.complexity \in IF task.min_complexity = "critical" THEN {"critical"}
                         ELSE {"high", "critical"}
  /\ task.filesModified = 0 \/ task.filesModified >= 3

Rejected == {"rejectedByA", "rejectedByB", "rejectedByLog"}

Running == {t \in Tasks : pc[t] \notin {"idle", "done"} \cup Rejected}

execute(t) ==
  /\ pc[t] = "idle"
  /\ Cardinality(Running) < Parallel
  /\ \E task \in Inputs : verify' = [verify EXCEPT ![t] = shouldVerify(task)]
  /\ pc' = [pc EXCEPT ![t] = "agentA"]
  /\ UNCHANGED <<session, agentBCost, compressed>>

\* Agent A answers; the race between agent B and its timeout starts at once.
AgentA(t) ==
  /\ pc[t] = "agentA"
  /\ \E c \in Costs : sessionCostBase' = sessionCostBase + c
  /\ pc' = [pc EXCEPT ![t] = IF verify[t] THEN "agentB" ELSE "skippedLog"]
  /\ UNCHANGED <<sessionVerificationCost, meshEnabled, verify, agentBCost, compressed>>

Reject(t, why) ==
  /\ pc' = [pc EXCEPT ![t] = why]
  /\ UNCHANGED <<session, verify, agentBCost, compressed>>

\* routerFn rejects for agent A, or for agent B before its timeout: nothing
\* catches either, and with B's rejection A's answer is gone.
AgentAThrows(t) == pc[t] = "agentA" /\ Reject(t, "rejectedByA")
AgentBThrows(t) == pc[t] = "agentB" /\ Reject(t, "rejectedByB")

\* The timeout wins the race, or agent B answers null: A alone, at no cost.
AgentBDegrades(t) ==
  /\ pc[t] = "agentB"
  /\ pc' = [pc EXCEPT ![t] = "degradedLog"]
  /\ UNCHANGED <<session, verify, agentBCost, compressed>>

\* The verdict is in: add up, and fire the breaker for future tasks.
Charge(t, cost) ==
  /\ sessionVerificationCost' = sessionVerificationCost + cost
  /\ IF (sessionVerificationCost + cost) * 100 > max_extra_cost_pct * sessionCostBase
     THEN meshEnabled' = FALSE /\ pc' = [pc EXCEPT ![t] = "breakerLog"]
     ELSE UNCHANGED meshEnabled /\ pc' = [pc EXCEPT ![t] = "completedLog"]

\* Agent B answers the same as A: no arbiter, the charge is made at once.
AgentBAgrees(t) ==
  /\ pc[t] = "agentB"
  /\ \E c \in Costs : /\ agentBCost' = [agentBCost EXCEPT ![t] = c]
                      /\ Charge(t, c + GroqCost)
  /\ UNCHANGED <<sessionCostBase, verify, compressed>>

\* Agent B answers something else.  The signatures of the modified files are
\* looked up when there are files and an indexer; failures fall back to the full
\* outputs.
AgentBDiffers(t) ==
  /\ pc[t] = "agentB"
  /\ \E c \in Costs : agentBCost' = [agentBCost EXCEPT ![t] = c]
  /\ pc' = [pc EXCEPT ![t] = "signatures"]
  /\ UNCHANGED <<session, verify, compressed>>

Signatures(t) ==
  /\ pc[t] = "signatures"
  /\ \E found \in BOOLEAN : compressed' = [compressed EXCEPT ![t] = found]
  /\ pc' = [pc EXCEPT ![t] = "gateLog"]
  /\ UNCHANGED <<session, verify, agentBCost>>

\* inv15_gate_decision is written; what the gate forbids is dropped.
Gate(t) ==
  /\ pc[t] = "gateLog"
  /\ compressed' = [compressed EXCEPT ![t] =
       @ /\ ~useDense("critic", 2, IF @ THEN 100 ELSE 0, FALSE)]
  /\ pc' = [pc EXCEPT ![t] = "arbiter"]
  /\ UNCHANGED <<session, verify, agentBCost>>

\* Mutant: the arbiter's call is not inside a try.
ArbiterThrows(t) ==
  /\ pc[t] = "arbiter"
  /\ \/ /\ \E c \in Costs : Charge(t, agentBCost[t] + c)
        /\ UNCHANGED <<sessionCostBase, verify, agentBCost, compressed>>
     \/ Reject(t, "rejectedByArbiter")

\* The arbiter answers, or fails and the lengths decide at the price of groq.
Arbiter(t) ==
  /\ pc[t] = "arbiter"
  /\ \E c \in Costs : Charge(t, agentBCost[t] + c)
  /\ UNCHANGED <<sessionCostBase, verify, agentBCost, compressed>>

BreakerLogged(t) ==
  /\ pc[t] = "breakerLog"
  /\ pc' = [pc EXCEPT ![t] = "completedLog"]
  /\ UNCHANGED <<session, verify, agentBCost, compressed>>

Logged(t) ==
  /\ pc[t] \in {"skippedLog", "degradedLog", "completedLog"}
  /\ pc' = [pc EXCEPT ![t] = "done"]
  /\ UNCHANGED <<session, verify, agentBCost, compressed>>

\* A failed append rejects the execute, answers and all.
LogFails(t) ==
  /\ LogMayFail
  /\ pc[t] \in {"skippedLog", "degradedLog", "gateLog", "breakerLog", "completedLog"}
  /\ Reject(t, "rejectedByLog")

Step(t) ==
  \/ AgentA(t) \/ AgentAThrows(t) \/ AgentBThrows(t) \/ AgentBDegrades(t)
  \/ AgentBAgrees(t) \/ AgentBDiffers(t) \/ Signatures(t) \/ Gate(t) \/ Arbiter(t)
  \/ BreakerLogged(t) \/ Logged(t) \/ LogFails(t)

Next == \E t \in Tasks : execute(t) \/ Step(t)

Spec == Init /\ [][Next]_vars

\* Calls of the router settle (ProviderRouter!EveryRequestSettles), as do the
\* indexer's and the ledger's, and agent B has its timeout.
FairSpec == Spec /\ \A t \in Tasks : WF_vars(Step(t))

-----------------------------------------------------------------------------
TypeOK ==
  /\ sessionCostBase \in Nat
  /\ sessionVerificationCost \in Nat
  /\ meshEnabled \in BOOLEAN
  /\ pc \in [Tasks -> {"idle", "agentA", "agentB", "signatures", "gateLog", "arbiter",
                       "skippedLog", "degradedLog", "breakerLog", "completedLog",
                       "done"} \cup Rejected]
  /\ verify \in [Tasks -> BOOLEAN]
  /\ agentBCost \in [Tasks -> 0 .. MaxCost]
  /\ compressed \in [Tasks -> BOOLEAN]

WithinBudget == sessionVerificationCost * 100 <= max_extra_cost_pct * sessionCostBase

\* While the breaker has not fired, verification has cost at most its share of
\* the session, however the executes overlap.
EnabledMeansWithinBudget == meshEnabled => WithinBudget

\* Verification overshoots its share by at most what the executes in flight can
\* still add when the breaker fires: an agent B and an arbiter each.
OvershootBounded ==
  sessionVerificationCost * 100 <=
    max_extra_cost_pct * sessionCostBase + 100 * Parallel * 2 * MaxCost

\* INV-15: the arbiter, a judge, is never given the compressed context.
ArbiterDense == \A t \in Tasks : pc[t] = "arbiter" => ~compressed[t]

\* What agent A answered reaches the caller: the timeout of agent B, its empty
\* answer, a failing indexer, a failing or incoherent arbiter and a breaker that
\* fires meanwhile all end in a result.  Two things still lose the answer: agent
\* B's call rejects, although the header of the file says that a crash of B
\* degrades to A alone, and an append to the ledger fails.
AnswerOfASurvives ==
  \A t \in Tasks : pc[t] = "agentB" ~> pc[t] \in {"done", "rejectedByB", "rejectedByLog"}

=============================================================================
