------------------------ MODULE SubagentManagerProofs ------------------------
(***************************************************************************)
(* Theorems about SubagentManager and, in the second half, about           *)
(* AgentRouter, which routes the tasks it runs: for every plan, every      *)
(* fallback order and every value of the constants.  Each invariant is the *)
(* conjunction of a named strengthening and of the invariants proved       *)
(* before it.                                                              *)
(***************************************************************************)
EXTENDS SubagentManager, AgentRouter, TLAPS, FiniteSetTheorems, SequenceTheorems,
        WellFoundedInduction

-----------------------------------------------------------------------------
(***************************************************************************)
(* Operators.                                                              *)
(***************************************************************************)

\* readyTasks.shift() returns one of the ready tasks: the least of a nonempty
\* set of positions is one of them.
LEMMA LeastIn ==
  ASSUME NEW S \in SUBSET Task, S # {}
  PROVE  Least(S) \in S
<1>1. S \subseteq Nat
  BY ConstantsAssumption DEF Task
<1>2. PICK x \in S : \A y \in S : ~(<<y, x>> \in OpToRel(<, Nat))
  BY <1>1, NatLessThanWellFounded, WFMin
<1>3. \A y \in Nat : y < x => <<y, x>> \in OpToRel(<, Nat)
  BY <1>1 DEF OpToRel
<1>4. \A y \in S : ~(y < x)
  BY <1>1, <1>2, <1>3, Zenon
<1>5. \A y \in S : x <= y
  BY <1>1, <1>4
<1> QED
  BY <1>5 DEF Least

\* What a plan is.
LEMMA PlanShape ==
  ASSUME plan \in Plans
  PROVE  plan.id \in [Task -> Ids] /\ plan.deps \in [Task -> SUBSET Ids]
BY ConstantsAssumption

-----------------------------------------------------------------------------
(***************************************************************************)
(* Types.  The retry counter stays below its bound only because a task     *)
(* backs off only with a retry left, and a result has a status only because*)
(* a promise is fulfilled after the verdict is known.                      *)
(***************************************************************************)
RetryInv ==
  \A i \in Task : /\ agent[i] = "backoff" => attempt[i] < MaxRetries
                  /\ agent[i] = "then" => verdict[i] # "none"

TypeInv == TypeOK /\ RetryInv

MainType ==
  /\ main \in MainPc
  /\ ready \subseteq Task
  /\ current \in Task \cup {None}
  /\ main \in {"dispatch", "launch"} => current \in Task
  /\ racing \subseteq Task
  /\ raced \subseteq Task
  /\ raceWon \in {"none", "ok", "err"}

\* FillOrWait keeps the variables of executeAll well typed.
LEMMA FillOrWaitType ==
  ASSUME TypeInv, NEW rdy \in SUBSET Task, NEW act \in [Ids -> Task \cup {None}],
         FillOrWait(rdy, act)
  PROVE  MainType'
<1>1. CASE rdy # {} /\ Room(act)
  <2>1. Least(rdy) \in rdy
    BY <1>1, LeastIn
  <2> QED
    BY <1>1, <2>1 DEF FillOrWait, AfterFill, TypeInv, TypeOK, MainType, MainPc
<1>2. CASE ~(rdy # {} /\ Room(act))
  <2>1. {act[d] : d \in ActiveIds(act)} \subseteq Task
    BY DEF ActiveIds
  <2> QED
    BY <1>2, <2>1 DEF FillOrWait, AfterFill, TypeInv, TypeOK, MainType, MainPc
<1> QED
  BY <1>1, <1>2

\* So does the head of the outer loop.
LEMMA LoopTopType ==
  ASSUME TypeInv, LoopTop
  PROVE  MainType'
<1>1. getReadyTasks \in SUBSET Task /\ active \in [Ids -> Task \cup {None}]
  BY DEF getReadyTasks, TypeInv, TypeOK
<1>2. CASE pending = {} /\ ActiveIds(active) = {}
  BY <1>2 DEF LoopTop, TypeInv, TypeOK, MainType, MainPc
<1>3. CASE ~(pending = {} /\ ActiveIds(active) = {})
  BY <1>1, <1>3, FillOrWaitType DEF LoopTop
<1> QED
  BY <1>2, <1>3

LEMMA TypeInit == Init => TypeInv
<1> SUFFICES ASSUME Init PROVE TypeInv
  OBVIOUS
<1>1. plan.id \in [Task -> Ids]
  BY PlanShape DEF Init
<1>2. TypeOK
  BY <1>1, ConstantsAssumption DEF Init, TypeOK, MainPc, AgentPc
<1>3. RetryInv
  BY DEF Init, RetryInv
<1> QED
  BY <1>2, <1>3 DEF TypeInv

LEMMA TypeMain ==
  ASSUME TypeInv, MainStep
  PROVE  TypeInv'
<1> USE DEF TypeInv
<1>1. CASE ExecuteAll
  <2>1. MainType'
    BY <1>1, LoopTopType DEF ExecuteAll
  <2> QED
    BY <1>1, <2>1 DEF ExecuteAll, TypeOK, RetryInv, MainType, agentVars,
                      bookVars, poolVars
<1>2. CASE acquire
  <2>1. current \in Task
    BY <1>2 DEF acquire, TypeOK
  <2>2. pool' \in [Slot -> BOOLEAN] /\ held' \in [Task -> Slot \cup {None}]
    <3>1. CASE \A s \in Slot : ~pool[s]
      BY <1>2, <3>1 DEF acquire, TypeOK, poolVars
    <3>2. ASSUME NEW s \in Slot, pool' = [pool EXCEPT ![s] = FALSE],
                 held' = [held EXCEPT ![current] = s]
          PROVE  pool' \in [Slot -> BOOLEAN] /\ held' \in [Task -> Slot \cup {None}]
      BY <2>1, <3>2 DEF TypeOK
    <3> QED
      BY <1>2, <3>1, <3>2 DEF acquire
  <2>3. main' \in MainPc /\ started' \subseteq Task /\ current' \in Task
    BY <1>2, <2>1 DEF acquire, TypeOK, MainPc
  <2>4. UNCHANGED <<plan, ready, current, racing, raced, raceWon, agentVars,
                    completed, pending, active, results>>
    BY <1>2 DEF acquire
  <2> QED
    BY <2>2, <2>3, <2>4 DEF TypeOK, RetryInv, agentVars
<1>3. CASE DispatchThrows
  BY <1>3 DEF DispatchThrows, TypeOK, RetryInv, MainPc, agentVars, bookVars,
              poolVars
<1>4. CASE Launch
  <2>1. current \in Task /\ plan.id[current] \in Ids
    BY <1>4, PlanShape DEF Launch, TypeOK
  <2>2. active' \in [Ids -> Task \cup {None}]
    BY <1>4, <2>1 DEF Launch, TypeOK
  <2>3. MainType'
    BY <1>4, <2>2, FillOrWaitType DEF Launch, TypeOK
  <2>4. agent' \in [Task -> AgentPc] /\ pending' \subseteq Ids
    BY <1>4, <2>1 DEF Launch, TypeOK, AgentPc
  <2>5. TypeOK'
    BY <1>4, <2>2, <2>3, <2>4 DEF Launch, TypeOK, MainType, poolVars
  <2>6. RetryInv'
    BY <1>4, <2>1 DEF Launch, TypeOK, RetryInv
  <2> QED
    BY <2>5, <2>6
<1>5. CASE RaceSettles
  <2>1. MainType'
    <3>1. CASE raceWon = "ok" /\ LoopTop
      BY <3>1, LoopTopType
    <3>2. CASE raceWon = "err" /\ main' = "threw"
               /\ UNCHANGED <<ready, current, racing, raced, raceWon>>
      BY <3>2 DEF TypeOK, MainType, MainPc
    <3> QED
      BY <1>5, <3>1, <3>2 DEF RaceSettles
  <2> QED
    BY <1>5, <2>1 DEF RaceSettles, TypeOK, RetryInv, MainType, agentVars,
                      bookVars, poolVars
<1> QED
  BY <1>1, <1>2, <1>3, <1>4, <1>5 DEF MainStep

LEMMA TypeAgent ==
  ASSUME TypeInv, NEW i \in Task, AgentStep(i) \/ TimerFires(i)
  PROVE  TypeInv'
<1> USE DEF TypeInv, Goto
<1>1. CASE LogAttempt(i)
  BY <1>1 DEF LogAttempt, TypeOK, RetryInv, AgentPc, mainVars, bookVars, poolVars
<1>2. CASE CallProvider(i)
  BY <1>2 DEF CallProvider, MayRetry, TypeOK, RetryInv, AgentPc, mainVars, bookVars, poolVars
<1>3. CASE Backoff(i)
  <2>1. attempt[i] < MaxRetries /\ attempt[i] \in 0 .. MaxRetries
    BY <1>3 DEF Backoff, TypeOK, RetryInv
  <2>2. attempt[i] + 1 \in 0 .. MaxRetries
    BY <2>1, ConstantsAssumption
  <2> QED
    BY <1>3, <2>2 DEF Backoff, TypeOK, RetryInv, AgentPc, mainVars, bookVars,
                      poolVars
<1>4. CASE LogResult(i)
  BY <1>4 DEF LogResult, TypeOK, RetryInv, AgentPc, mainVars, bookVars, poolVars
<1>5. CASE LogFailure(i)
  BY <1>5 DEF LogFailure, TypeOK, RetryInv, AgentPc, mainVars, bookVars, poolVars
<1>6. CASE ThenCallback(i)
  <2>1. results' \in Seq([task : Task, status : {"completed", "failed"}])
    BY <1>6 DEF ThenCallback, TypeOK, RetryInv
  <2>2. completed' \subseteq Ids /\ pending' \subseteq Ids
    BY <1>6, PlanShape DEF ThenCallback, TypeOK
  <2> QED
    BY <1>6, <2>1, <2>2 DEF ThenCallback, TypeOK, RetryInv, AgentPc, mainVars,
                            poolVars
<1>7. CASE release(i)
  BY <1>7 DEF release, TypeOK, RetryInv, mainVars, agentVars, bookVars
<1>8. CASE Settle(i)
  <2>1. active' \in [Ids -> Task \cup {None}]
    BY <1>8, PlanShape DEF Settle, DeleteAndSettle, TypeOK
  <2>2. agent' \in [Task -> AgentPc] /\ raceWon' \in {"none", "ok", "err"}
    BY <1>8 DEF Settle, DeleteAndSettle, TypeOK, AgentPc
  <2>3. main' \in {main, "exited"}
    BY <1>8 DEF Settle, DeleteAndSettle
  <2>4. TypeOK'
    BY <1>8, <2>1, <2>2, <2>3
    DEF Settle, DeleteAndSettle, TypeOK, MainPc, poolVars
  <2>5. RetryInv'
    BY <1>8 DEF Settle, DeleteAndSettle, TypeOK, RetryInv
  <2> QED
    BY <2>4, <2>5
<1>9. CASE TimerFires(i)
  BY <1>9 DEF TimerFires, TypeOK, RetryInv, mainVars, bookVars, poolVars
<1> QED
  BY <1>1, <1>2, <1>3, <1>4, <1>5, <1>6, <1>7, <1>8, <1>9 DEF AgentStep

LEMMA TypeNext == TypeInv /\ [Next]_vars => TypeInv'
<1> SUFFICES ASSUME TypeInv, [Next]_vars PROVE TypeInv'
  OBVIOUS
<1>1. CASE Next
  BY <1>1, TypeMain, TypeAgent DEF Next
<1>2. CASE UNCHANGED vars
  BY <1>2 DEF TypeInv, TypeOK, RetryInv, vars, mainVars, agentVars, bookVars,
              poolVars
<1> QED
  BY <1>1, <1>2

\* The types hold in every state of executeAll and its agents; in particular no
\* task is attempted more than maxRetries + 1 times.
THEOREM TypeCorrect == Spec => []TypeOK
<1>1. TypeInv => TypeOK
  BY DEF TypeInv
<1> QED
  BY <1>1, TypeInit, TypeNext, PTL DEF Spec

-----------------------------------------------------------------------------
(***************************************************************************)
(* Worktrees.  Exclusiveness is inductive as it stands: acquire() only     *)
(* takes a slot on offer, and a slot on offer is held by nobody.           *)
(***************************************************************************)
LEMMA SlotsMain ==
  ASSUME TypeInv, SlotsExclusive, MainStep
  PROVE  SlotsExclusive'
<1>1. CASE acquire
  <2>1. current \in Task
    BY <1>1 DEF acquire, TypeInv, TypeOK
  <2>2. CASE UNCHANGED poolVars
    BY <2>2 DEF SlotsExclusive, poolVars
  <2>3. CASE \E s \in Slot : /\ pool[s]
                            /\ pool' = [pool EXCEPT ![s] = FALSE]
                            /\ held' = [held EXCEPT ![current] = s]
    <3>1. PICK s \in Slot : /\ pool[s]
                            /\ pool' = [pool EXCEPT ![s] = FALSE]
                            /\ held' = [held EXCEPT ![current] = s]
      BY <2>3
    <3>2. \A i \in Task : held[i] # s
      BY <3>1, ConstantsAssumption DEF SlotsExclusive, Slot, None
    <3> QED
      BY <2>1, <3>1, <3>2 DEF SlotsExclusive, TypeInv, TypeOK
  <2> QED
    BY <1>1, <2>2, <2>3 DEF acquire
<1>2. CASE ~acquire
  BY <1>2 DEF MainStep, ExecuteAll, DispatchThrows, Launch, RaceSettles,
              poolVars, SlotsExclusive
<1> QED
  BY <1>1, <1>2

LEMMA SlotsAgent ==
  ASSUME TypeInv, SlotsExclusive, NEW i \in Task, AgentStep(i) \/ TimerFires(i)
  PROVE  SlotsExclusive'
<1>1. CASE release(i)
  BY <1>1 DEF release, SlotsExclusive, TypeInv, TypeOK
<1>2. CASE ~release(i)
  BY <1>2 DEF AgentStep, LogAttempt, CallProvider, Backoff, LogResult, LogFailure,
              ThenCallback, Settle, DeleteAndSettle, TimerFires, poolVars,
              SlotsExclusive
<1> QED
  BY <1>1, <1>2

\* No worktree is ever in the hands of two tasks, nor held and on offer at once,
\* whatever the plan, repeated identifiers included.
THEOREM WorktreesExclusive == Spec => []SlotsExclusive
<1>1. Init => SlotsExclusive
  BY DEF Init, SlotsExclusive
<1>2. TypeInv /\ SlotsExclusive /\ [Next]_vars => SlotsExclusive'
  <2> SUFFICES ASSUME TypeInv, SlotsExclusive, [Next]_vars PROVE SlotsExclusive'
    OBVIOUS
  <2>1. CASE UNCHANGED vars
    BY <2>1 DEF vars, poolVars, SlotsExclusive
  <2>2. CASE Next
    BY <2>2, SlotsMain, SlotsAgent DEF Next
  <2> QED
    BY <2>1, <2>2
<1> QED
  BY <1>1, <1>2, TypeInit, TypeNext, PTL DEF Spec

-----------------------------------------------------------------------------
(***************************************************************************)
(* What the inner loop can do, and the book-keeping of dispatch: startedAt *)
(* is set before the agent exists, and a ready task is not started.        *)
(***************************************************************************)

\* The inner loop dispatches a ready task only below the cap, and leaves
\* executeAll only when no promise is active.
LEMMA FillOrWaitShape ==
  ASSUME NEW rdy \in SUBSET Task, NEW act, FillOrWait(rdy, act)
  PROVE  /\ main' \in {"dispatch", "race", "done"}
         /\ ready' \subseteq rdy
         /\ main' = "dispatch" => /\ current' \in rdy \ ready'
                                  /\ Cardinality(ActiveIds(act)) < MaxConcurrent
         /\ main' = "done" => ActiveIds(act) = {}
BY LeastIn DEF FillOrWait, Room, AfterFill

LEMMA LoopTopShape ==
  ASSUME LoopTop
  PROVE  /\ main' \in {"dispatch", "race", "done"}
         /\ ready' \subseteq getReadyTasks \cup ready
         /\ main' = "dispatch" => /\ current' \in getReadyTasks \ ready'
                                  /\ Cardinality(ActiveIds(active)) < MaxConcurrent
         /\ main' = "done" => ActiveIds(active) = {}
<1>1. getReadyTasks \in SUBSET Task
  BY DEF getReadyTasks
<1> QED
  BY <1>1, FillOrWaitShape DEF LoopTop

StartInv ==
  /\ \A i \in Task : agent[i] # "none" => i \in started
  /\ \A i \in ready : i \notin started
  /\ main = "dispatch" => current \notin started \cup ready
  /\ main = "launch" => /\ current \in started \ ready
                        /\ agent[current] = "none"

LEMMA StartMain ==
  ASSUME TypeInv, StartInv, MainStep
  PROVE  StartInv'
<1> USE DEF TypeInv, TypeOK, StartInv
<1>1. CASE ExecuteAll
  BY <1>1, LoopTopShape DEF ExecuteAll, getReadyTasks, agentVars, bookVars
<1>2. CASE acquire
  BY <1>2 DEF acquire, agentVars
<1>3. CASE DispatchThrows
  BY <1>3 DEF DispatchThrows, agentVars, bookVars
<1>4. CASE Launch
  <2>1. /\ main' \in {"dispatch", "race", "done"}
        /\ ready' \subseteq ready
        /\ main' = "dispatch" => current' \in ready \ ready'
    BY <1>4, FillOrWaitShape DEF Launch
  <2> QED
    BY <1>4, <2>1 DEF Launch
<1>5. CASE RaceSettles
  <2>1. CASE LoopTop
    BY <1>5, <2>1, LoopTopShape DEF RaceSettles, getReadyTasks, agentVars, bookVars
  <2>2. CASE main' = "threw" /\ UNCHANGED <<ready, current, racing, raced, raceWon>>
    BY <1>5, <2>2 DEF RaceSettles, agentVars, bookVars
  <2> QED
    BY <1>5, <2>1, <2>2 DEF RaceSettles
<1> QED
  BY <1>1, <1>2, <1>3, <1>4, <1>5 DEF MainStep

\* An agent step never starts or stops another agent, and never touches the
\* dispatch state of executeAll except to end the process.
LEMMA AgentFrame ==
  ASSUME TypeInv, NEW i \in Task, AgentStep(i) \/ TimerFires(i)
  PROVE  /\ UNCHANGED <<plan, ready, current, started>>
         /\ main' \in {main, "exited"}
         /\ agent[i] \in Working
         /\ \A j \in Task : agent'[j] # agent[j] => j = i
         /\ agent'[i] \in Working \cup {"ok", "err"}
         /\ agent'[i] \in {"ok", "err"} => held[i] = None
<1> USE DEF TypeInv, TypeOK, Goto, Working, mainVars, bookVars, agentVars
<1>1. CASE LogAttempt(i) \/ CallProvider(i) \/ Backoff(i) \/ LogResult(i)
           \/ LogFailure(i) \/ TimerFires(i)
  BY <1>1 DEF LogAttempt, CallProvider, Backoff, LogResult, LogFailure, TimerFires
<1>2. CASE ThenCallback(i) \/ release(i)
  BY <1>2 DEF ThenCallback, release
<1>3. CASE Settle(i)
  BY <1>3 DEF Settle, DeleteAndSettle
<1> QED
  BY <1>1, <1>2, <1>3 DEF AgentStep

LEMMA StartAgent ==
  ASSUME TypeInv, StartInv, NEW i \in Task, AgentStep(i) \/ TimerFires(i)
  PROVE  StartInv'
<1>1. i \in started
  BY AgentFrame DEF StartInv, Working
<1>2. ASSUME main' = "launch"
      PROVE  agent'[current] = agent[current]
  <2>1. main = "launch"
    BY <1>2, AgentFrame
  <2>2. current \in Task /\ agent[current] = "none"
    BY <2>1 DEF StartInv, TypeInv, TypeOK
  <2>3. current # i
    BY <2>2, AgentFrame DEF Working
  <2> QED
    BY <2>2, <2>3, AgentFrame
<1> QED
  BY <1>1, <1>2, AgentFrame DEF StartInv

LEMMA StartNext == TypeInv /\ StartInv /\ [Next]_vars => StartInv'
<1> SUFFICES ASSUME TypeInv, StartInv, [Next]_vars PROVE StartInv'
  OBVIOUS
<1>1. CASE UNCHANGED vars
  BY <1>1 DEF vars, mainVars, agentVars, bookVars, StartInv
<1>2. CASE Next
  BY <1>2, StartMain, StartAgent DEF Next
<1> QED
  BY <1>1, <1>2

LEMMA StartInit == Init => StartInv
BY DEF Init, StartInv

-----------------------------------------------------------------------------
(***************************************************************************)
(* Dependencies.  An identifier enters `completed` with the result of a    *)
(* task of that name, and readyTasks, though computed several awaits       *)
(* earlier, never goes stale: `completed` only grows.                      *)
(***************************************************************************)
DepInv ==
  /\ \A i \in Task : (i \in started \cup ready \/ (main = "dispatch" /\ i = current))
                     => plan.deps[i] \subseteq completed
  /\ \A d \in completed : \E j \in Reported : plan.id[j] = d

LEMMA DepMain ==
  ASSUME TypeInv, DepInv, MainStep
  PROVE  DepInv'
<1>0. Reported' = Reported /\ UNCHANGED <<plan, completed>>
  BY DEF MainStep, ExecuteAll, acquire, DispatchThrows, Launch, RaceSettles,
         bookVars, Reported
<1>1. CASE ExecuteAll
  BY <1>0, <1>1, LoopTopShape
  DEF ExecuteAll, getReadyTasks, bookVars, DepInv, TypeInv, TypeOK
<1>2. CASE acquire
  BY <1>0, <1>2 DEF acquire, DepInv, TypeInv, TypeOK
<1>3. CASE DispatchThrows
  BY <1>0, <1>3 DEF DispatchThrows, bookVars, DepInv
<1>4. CASE Launch
  <2>1. ready' \subseteq ready /\ (main' = "dispatch" => current' \in ready)
    BY <1>4, FillOrWaitShape DEF Launch, TypeInv, TypeOK
  <2> QED
    BY <1>0, <1>4, <2>1 DEF Launch, DepInv
<1>5. CASE RaceSettles
  <2>1. CASE LoopTop
    BY <1>0, <1>5, <2>1, LoopTopShape
    DEF RaceSettles, getReadyTasks, bookVars, DepInv, TypeInv, TypeOK
  <2>2. CASE main' = "threw" /\ UNCHANGED <<ready, current, racing, raced, raceWon>>
    BY <1>0, <1>5, <2>2 DEF RaceSettles, bookVars, DepInv
  <2> QED
    BY <1>5, <2>1, <2>2 DEF RaceSettles
<1> QED
  BY <1>1, <1>2, <1>3, <1>4, <1>5 DEF MainStep

LEMMA DepAgent ==
  ASSUME TypeInv, DepInv, NEW i \in Task, AgentStep(i) \/ TimerFires(i)
  PROVE  DepInv'
<1>0. /\ UNCHANGED <<plan, ready, current, started>>
      /\ main' \in {main, "exited"}
  BY AgentFrame
<1>1. CASE ThenCallback(i)
  <2>1. \A n \in 1 .. Len(results) : results'[n] = results[n]
    BY <1>1 DEF ThenCallback, TypeInv, TypeOK
  <2>2. /\ Len(results') = Len(results) + 1
        /\ results'[Len(results) + 1].task = i
        /\ Len(results) \in Nat
    BY <1>1 DEF ThenCallback, TypeInv, TypeOK
  <2>3. Reported \subseteq Reported' /\ i \in Reported'
    BY <2>1, <2>2 DEF Reported
  <2> QED
    BY <1>0, <1>1, <2>3 DEF ThenCallback, DepInv
<1>2. CASE ~ThenCallback(i)
  <2>1. UNCHANGED <<completed, results>>
    BY <1>2 DEF AgentStep, LogAttempt, CallProvider, Backoff, LogResult,
                LogFailure, release, Settle, DeleteAndSettle, TimerFires, bookVars
  <2> QED
    BY <1>0, <2>1 DEF DepInv, Reported
<1> QED
  BY <1>1, <1>2

\* A task is dispatched only when the results of all its dependencies are in.
THEOREM DependencyOrder == Spec => []DependenciesReported
<1>1. Init => DepInv
  BY DEF Init, DepInv
<1>2. TypeInv /\ DepInv /\ [Next]_vars => DepInv'
  <2> SUFFICES ASSUME TypeInv, DepInv, [Next]_vars PROVE DepInv'
    OBVIOUS
  <2>1. CASE UNCHANGED vars
    BY <2>1 DEF vars, mainVars, bookVars, DepInv, Reported
  <2>2. CASE Next
    BY <2>2, DepMain, DepAgent DEF Next
  <2> QED
    BY <2>1, <2>2
<1>3. TypeInv /\ DepInv => DependenciesReported
  BY DEF TypeInv, TypeOK, DepInv, DependenciesReported
<1> QED
  BY <1>1, <1>2, <1>3, TypeInit, TypeNext, PTL DEF Spec

-----------------------------------------------------------------------------
(***************************************************************************)
(* The concurrency cap.  With distinct identifiers every agent at work is  *)
(* the one its entry of activePromises names, so there are at most as many *)
(* agents as entries; and the size tested before the awaits of a dispatch  *)
(* can only have shrunk when the entry is added after them.                *)
(***************************************************************************)
CapInv ==
  /\ \A i \in Running : active[plan.id[i]] = i
  /\ IsFiniteSet(ActiveIds(active))
  /\ Cardinality(ActiveIds(active)) <= MaxConcurrent
  /\ main \in {"dispatch", "launch"} => Cardinality(ActiveIds(active)) < MaxConcurrent
  /\ main = "done" => ActiveIds(active) = {}

\* A set below the cap has room for one element more, and losing an element
\* does not make a set larger.
LEMMA AddBound ==
  ASSUME NEW S, NEW x, IsFiniteSet(S), Cardinality(S) < MaxConcurrent
  PROVE  IsFiniteSet(S \cup {x}) /\ Cardinality(S \cup {x}) <= MaxConcurrent
<1>1. Cardinality(S) \in Nat
  BY FS_CardinalityType
<1>2. /\ IsFiniteSet(S \cup {x})
      /\ Cardinality(S \cup {x}) = IF x \in S THEN Cardinality(S) ELSE Cardinality(S) + 1
  BY FS_AddElement
<1> QED
  BY <1>1, <1>2, ConstantsAssumption

LEMMA RemoveBound ==
  ASSUME NEW S, NEW x, IsFiniteSet(S)
  PROVE  /\ IsFiniteSet(S \ {x})
         /\ Cardinality(S) \in Nat
         /\ Cardinality(S \ {x}) \in Nat
         /\ Cardinality(S \ {x}) <= Cardinality(S)
<1>1. /\ IsFiniteSet(S \ {x})
      /\ Cardinality(S \ {x}) = IF x \in S THEN Cardinality(S) - 1 ELSE Cardinality(S)
  BY FS_RemoveElement
<1>2. Cardinality(S) \in Nat /\ Cardinality(S \ {x}) \in Nat
  BY <1>1, FS_CardinalityType
<1> QED
  BY <1>1, <1>2

LEMMA CapMain ==
  ASSUME TypeInv, StartInv, UniqueIds, CapInv, MainStep
  PROVE  CapInv'
<1> USE DEF CapInv
<1>1. CASE ExecuteAll
  BY <1>1, LoopTopShape DEF ExecuteAll, agentVars, bookVars, Running, ActiveIds
<1>2. CASE acquire
  BY <1>2 DEF acquire, agentVars, Running, ActiveIds
<1>3. CASE DispatchThrows
  BY <1>3 DEF DispatchThrows, agentVars, bookVars, Running, ActiveIds
<1>4. CASE Launch
  <2>1. current \in Task /\ plan.id[current] \in Ids
    BY <1>4, PlanShape DEF Launch, TypeInv, TypeOK
  <2>2. ActiveIds(active') = ActiveIds(active) \cup {plan.id[current]}
    BY <1>4, <2>1, ConstantsAssumption
    DEF Launch, ActiveIds, TypeInv, TypeOK, Task, None
  <2>3. /\ IsFiniteSet(ActiveIds(active'))
        /\ Cardinality(ActiveIds(active')) <= MaxConcurrent
    <3>1. IsFiniteSet(ActiveIds(active)) /\ Cardinality(ActiveIds(active)) < MaxConcurrent
      BY <1>4 DEF Launch
    <3>2. /\ IsFiniteSet(ActiveIds(active) \cup {plan.id[current]})
          /\ Cardinality(ActiveIds(active) \cup {plan.id[current]}) <= MaxConcurrent
      BY <3>1, AddBound
    <3> QED
      BY <2>2, <3>2
  <2>4. /\ main' \in {"dispatch", "race", "done"}
        /\ main' = "dispatch" => Cardinality(ActiveIds(active')) < MaxConcurrent
        /\ main' = "done" => ActiveIds(active') = {}
    <3>1. ready \in SUBSET Task /\ FillOrWait(ready, active')
      BY <1>4 DEF Launch, TypeInv, TypeOK
    <3> QED
      BY <3>1, FillOrWaitShape, Zenon
  <2>5. \A i \in Running' : active'[plan'.id[i]] = i
    <3>1. TAKE i \in Running'
    <3>2. i \in Task /\ (i = current \/ i \in Running)
      BY <1>4, <3>1 DEF Launch, Running, TypeInv, TypeOK
    <3>3. CASE i = current
      BY <1>4, <2>1, <3>3 DEF Launch, TypeInv, TypeOK
    <3>4. CASE i # current
      <4>1. plan.id[i] # plan.id[current] /\ plan.id[i] \in Ids
        BY <2>1, <3>2, <3>4, PlanShape DEF UniqueIds, TypeInv, TypeOK
      <4> QED
        BY <1>4, <3>2, <3>4, <4>1 DEF Launch, TypeInv, TypeOK
    <3> QED
      BY <3>3, <3>4
  <2> QED
    BY <2>3, <2>4, <2>5 DEF ActiveIds
<1>5. CASE RaceSettles
  <2>1. CASE LoopTop
    BY <1>5, <2>1, LoopTopShape
    DEF RaceSettles, agentVars, bookVars, Running, ActiveIds
  <2>2. CASE main' = "threw"
    BY <1>5, <2>2 DEF RaceSettles, agentVars, bookVars, Running, ActiveIds
  <2> QED
    BY <1>5, <2>1, <2>2 DEF RaceSettles
<1> QED
  BY <1>1, <1>2, <1>3, <1>4, <1>5 DEF MainStep

LEMMA CapAgent ==
  ASSUME TypeInv, UniqueIds, CapInv, NEW i \in Task, AgentStep(i) \/ TimerFires(i)
  PROVE  CapInv'
<1>0. /\ UNCHANGED <<plan, current>> /\ main' \in {main, "exited"}
      /\ Running' \subseteq Running
  BY AgentFrame DEF Running
<1>1. CASE Settle(i)
  <2>1. plan.id[i] \in Ids
    BY PlanShape DEF TypeInv, TypeOK
  <2>2. active' = [active EXCEPT ![plan.id[i]] = None]
    BY <1>1 DEF Settle, DeleteAndSettle
  <2>3. ActiveIds(active') = ActiveIds(active) \ {plan.id[i]}
    BY <2>1, <2>2 DEF ActiveIds, TypeInv, TypeOK
  <2>4. IsFiniteSet(ActiveIds(active))
    BY DEF CapInv
  <2>5. /\ IsFiniteSet(ActiveIds(active'))
        /\ Cardinality(ActiveIds(active)) \in Nat
        /\ Cardinality(ActiveIds(active')) \in Nat
        /\ Cardinality(ActiveIds(active')) <= Cardinality(ActiveIds(active))
    BY <2>3, <2>4, RemoveBound
  <2>6. i \notin Running'
    BY <1>1 DEF Settle, DeleteAndSettle, Goto, Running, Working, TypeInv, TypeOK
  <2>7. \A j \in Running' : active'[plan'.id[j]] = j
    <3>1. TAKE j \in Running'
    <3>2. j \in Task /\ j \in Running /\ j # i
      BY <1>0, <2>6, <3>1 DEF Running
    <3>3. plan.id[j] # plan.id[i] /\ plan.id[j] \in Ids
      BY <3>2, PlanShape DEF UniqueIds, TypeInv, TypeOK
    <3> QED
      BY <1>0, <2>2, <3>2, <3>3 DEF CapInv, TypeInv, TypeOK
  <2>8. ActiveIds(active)' = ActiveIds(active')
    BY DEF ActiveIds
  <2> QED
    BY <1>0, <2>3, <2>4, <2>5, <2>7, <2>8, ConstantsAssumption DEF CapInv
<1>2. CASE ~Settle(i)
  <2>1. UNCHANGED active
    BY <1>2 DEF AgentStep, LogAttempt, CallProvider, Backoff, LogResult,
                LogFailure, ThenCallback, release, TimerFires, bookVars
  <2> QED
    BY <1>0, <2>1 DEF CapInv, ActiveIds
<1> QED
  BY <1>1, <1>2

BoundInv == UniqueIds => CapInv

LEMMA BoundInit == Init => BoundInv
<1> SUFFICES ASSUME Init PROVE CapInv
  BY DEF BoundInv
<1>1. ActiveIds(active) = {}
  BY DEF Init, ActiveIds
<1>2. IsFiniteSet(ActiveIds(active)) /\ Cardinality(ActiveIds(active)) = 0
  BY <1>1, FS_EmptySet
<1>3. Running = {}
  BY DEF Init, Running, Working
<1> QED
  BY <1>2, <1>3, ConstantsAssumption DEF Init, CapInv

LEMMA BoundNext == TypeInv /\ StartInv /\ BoundInv /\ [Next]_vars => BoundInv'
<1> SUFFICES ASSUME TypeInv, StartInv, BoundInv, [Next]_vars, UniqueIds'
             PROVE  CapInv'
  BY DEF BoundInv
<1>1. UNCHANGED plan
  BY AgentFrame DEF vars, Next, MainStep, ExecuteAll, acquire, DispatchThrows,
                    Launch, RaceSettles
<1>2. UniqueIds /\ CapInv
  BY <1>1 DEF UniqueIds, BoundInv
<1>3. CASE UNCHANGED vars
  BY <1>2, <1>3
  DEF vars, mainVars, agentVars, bookVars, CapInv, Running, ActiveIds
<1>4. CASE Next
  BY <1>2, <1>4, CapMain, CapAgent DEF Next
<1> QED
  BY <1>3, <1>4

\* The agents at work never outnumber the entries of activePromises.
LEMMA RunningBound ==
  ASSUME TypeInv, UniqueIds, CapInv
  PROVE  Cardinality(Running) <= MaxConcurrent
<1> DEFINE f == [i \in Running |-> plan.id[i]]
<1>1. \A i \in Running : i \in Task /\ plan.id[i] \in Ids
  BY PlanShape DEF Running, TypeInv, TypeOK
<1>2. \A i \in Running : active[plan.id[i]] # None
  BY <1>1, ConstantsAssumption DEF CapInv, Task, None
<1>3. f \in [Running -> ActiveIds(active)]
  BY <1>1, <1>2 DEF ActiveIds
<1>4. \A i, j \in Running : f[i] = f[j] => i = j
  BY <1>1 DEF UniqueIds
<1>5. f \in Injection(Running, ActiveIds(active))
  BY <1>3, <1>4 DEF Injection, IsInjective
<1>6. /\ IsFiniteSet(Running)
      /\ Cardinality(Running) <= Cardinality(ActiveIds(active))
  BY <1>5, FS_Injection DEF CapInv
<1> QED
  BY <1>6, FS_CardinalityType, ConstantsAssumption DEF CapInv

\* At most maxConcurrent agents are at work, although executeAll decides on a
\* size of activePromises that is three awaits old.
THEOREM ConcurrencyCap == Spec => []CapRespected
<1>1. TypeInv /\ BoundInv => CapRespected
  BY RunningBound DEF BoundInv, CapRespected
<1> QED
  BY <1>1, TypeInit, TypeNext, StartInit, StartNext, BoundInit, BoundNext, PTL
  DEF Spec

\* With activePromises empty, no agent is at work.
LEMMA DoneNoRunning ==
  ASSUME TypeInv, CapInv, main = "done"
  PROVE  Running = {}
<1> SUFFICES ASSUME NEW i \in Running PROVE FALSE
  OBVIOUS
<1>1. i \in Task /\ plan.id[i] \in Ids
  BY PlanShape DEF Running, TypeInv, TypeOK
<1>2. active[plan.id[i]] # None
  BY <1>1, ConstantsAssumption DEF CapInv, Task, None
<1> QED
  BY <1>1, <1>2 DEF CapInv, ActiveIds

\* executeAll never returns while an agent it started is at work.
THEOREM NoOrphanAgents == Spec => []NoOrphans
<1>1. TypeInv /\ BoundInv => NoOrphans
  BY DoneNoRunning DEF NoOrphans, BoundInv
<1> QED
  BY <1>1, TypeInit, TypeNext, StartInit, StartNext, BoundInit, BoundNext, PTL
  DEF Spec

-----------------------------------------------------------------------------
(***************************************************************************)
(* Every agent has a worktree.  A slot that is not on offer is held by an  *)
(* agent at work, so when acquire() runs, fewer than maxConcurrent of the  *)
(* maxConcurrent slots can be taken.                                       *)
(***************************************************************************)
HeldInv ==
  /\ main # "exited" => \A i \in Task :
       held[i] # None => i \in Running \/ (main = "launch" /\ i = current)
  /\ \A s \in Slot : ~pool[s] => \E i \in Task : held[i] = s
  /\ \A i \in Task :
       agent[i] \in Working \ {"finallyOk", "finallyErr"} => held[i] # None
  /\ main = "launch" => held[current] # None

\* acquire() finds a free slot.
LEMMA FreeSlot ==
  ASSUME TypeInv, UniqueIds, CapInv, HeldInv, main = "dispatch"
  PROVE  \E s \in Slot : pool[s]
<1> SUFFICES ASSUME \A s \in Slot : ~pool[s] PROVE FALSE
  OBVIOUS
<1> DEFINE holder(s) == CHOOSE i \in Task : held[i] = s
           g == [s \in Slot |-> plan.id[holder(s)]]
<1>1. \A s \in Slot : holder(s) \in Task /\ held[holder(s)] = s
  BY DEF HeldInv
<1>2. \A s \in Slot : holder(s) \in Running
  BY <1>1, ConstantsAssumption DEF HeldInv, Slot, None
<1> HIDE DEF holder
<1>3. \A s \in Slot : plan.id[holder(s)] \in ActiveIds(active)
  <2>1. TAKE s \in Slot
  <2>2. plan.id[holder(s)] \in Ids
    BY <1>1, PlanShape DEF TypeInv, TypeOK
  <2>3. active[plan.id[holder(s)]] = holder(s)
    BY <1>2 DEF CapInv
  <2>4. holder(s) # None
    BY <1>1, ConstantsAssumption DEF Task, None
  <2> QED
    BY <2>2, <2>3, <2>4 DEF ActiveIds
<1>4. \A s, t \in Slot : g[s] = g[t] => s = t
  <2>1. TAKE s, t \in Slot
  <2>2. HAVE g[s] = g[t]
  <2>3. plan.id[holder(s)] = plan.id[holder(t)]
    BY <2>2
  <2>4. holder(s) = holder(t)
    BY <1>1, <2>3 DEF UniqueIds
  <2> QED
    BY <1>1, <2>4
<1>5. g \in Injection(Slot, ActiveIds(active))
  BY <1>3, <1>4 DEF Injection, IsInjective
<1>6. Cardinality(Slot) <= Cardinality(ActiveIds(active))
  BY <1>5, FS_Injection DEF CapInv
<1>7. Cardinality(Slot) = MaxConcurrent
  <2>1. Cardinality(1 .. MaxConcurrent)
          = IF 1 > MaxConcurrent THEN 0 ELSE MaxConcurrent - 1 + 1
    BY FS_Interval, ConstantsAssumption
  <2> QED
    BY <2>1, ConstantsAssumption DEF Slot
<1>8. Cardinality(ActiveIds(active)) \in Nat
  BY FS_CardinalityType DEF CapInv
<1>9. Cardinality(ActiveIds(active)) < MaxConcurrent
  BY DEF CapInv
<1> QED
  BY <1>6, <1>7, <1>8, <1>9, ConstantsAssumption

LEMMA HeldMain ==
  ASSUME TypeInv, StartInv, UniqueIds, CapInv, HeldInv, MainStep, main # "exited"
  PROVE  HeldInv'
<1>1. CASE ExecuteAll
  BY <1>1, LoopTopShape DEF ExecuteAll, agentVars, poolVars, Running, HeldInv
<1>2. CASE acquire
  <2>1. current \in Task /\ agent[current] = "none"
    BY <1>2 DEF acquire, StartInv, TypeInv, TypeOK
  <2>2. held[current] = None
    BY <1>2, <2>1 DEF acquire, HeldInv, Running, Working
  <2>3. PICK s \in Slot : /\ pool' = [pool EXCEPT ![s] = FALSE]
                          /\ held' = [held EXCEPT ![current] = s]
    BY <1>2, FreeSlot DEF acquire
  <2>4. s # None
    BY ConstantsAssumption DEF Slot, None
  <2>5. /\ main' = "launch" /\ current' = current /\ agent' = agent
        /\ Running' = Running
    BY <1>2 DEF acquire, agentVars, Running
  <2>6. \A i \in Task : held'[i] = IF i = current THEN s ELSE held[i]
    BY <2>1, <2>3 DEF TypeInv, TypeOK
  <2>7. \A t \in Slot : ~pool'[t] => \E i \in Task : held'[i] = t
    <3>1. TAKE t \in Slot
    <3>2. HAVE ~pool'[t]
    <3>3. CASE t = s
      BY <2>1, <2>6, <3>3
    <3>4. CASE t # s
      <4>1. ~pool[t]
        BY <2>3, <3>2, <3>4 DEF TypeInv, TypeOK
      <4>2. PICK i \in Task : held[i] = t
        BY <4>1 DEF HeldInv
      <4>3. i # current
        BY <2>2, <4>2, ConstantsAssumption DEF Slot, None
      <4> QED
        BY <2>6, <4>2, <4>3
    <3> QED
      BY <3>3, <3>4
  <2>8. held'[current'] # None
    BY <2>1, <2>4, <2>5, <2>6
  <2>9. \A i \in Task : held'[i] # None => i \in Running' \/ i = current'
    BY <2>5, <2>6, <1>2 DEF acquire, HeldInv
  <2>10. \A i \in Task :
           agent'[i] \in Working \ {"finallyOk", "finallyErr"} => held'[i] # None
    BY <2>4, <2>5, <2>6 DEF HeldInv
  <2> QED
    BY <2>5, <2>7, <2>8, <2>9, <2>10 DEF HeldInv
<1>3. CASE DispatchThrows
  BY <1>3 DEF DispatchThrows, agentVars, poolVars, Running, HeldInv
<1>4. CASE Launch
  <2>1. main' \in {"dispatch", "race", "done"}
    BY <1>4, FillOrWaitShape DEF Launch, TypeInv, TypeOK
  <2>2. /\ Running' = Running \cup {current}
        /\ \A i \in Task : i # current => agent'[i] = agent[i]
    BY <1>4 DEF Launch, Running, Working, TypeInv, TypeOK
  <2> QED
    BY <1>4, <2>1, <2>2 DEF Launch, poolVars, HeldInv
<1>5. CASE RaceSettles
  <2>1. main' \in {"dispatch", "race", "done", "threw"}
    BY <1>5, LoopTopShape DEF RaceSettles
  <2> QED
    BY <1>5, <2>1 DEF RaceSettles, agentVars, poolVars, Running, HeldInv
<1> QED
  BY <1>1, <1>2, <1>3, <1>4, <1>5 DEF MainStep

LEMMA HeldAgent ==
  ASSUME TypeInv, StartInv, HeldInv, NEW i \in Task,
         AgentStep(i) \/ TimerFires(i), main # "exited"
  PROVE  HeldInv'
<1>0. /\ UNCHANGED current
      /\ main' \in {main, "exited"}
      /\ agent[i] \in Working
      /\ \A j \in Task : agent'[j] # agent[j] => j = i
      /\ agent'[i] \in Working \cup {"ok", "err"}
      /\ agent'[i] \in {"ok", "err"} => held[i] = None
  BY AgentFrame
<1>1. CASE release(i)
  <2>1. /\ pool' = [pool EXCEPT ![held[i]] = TRUE]
        /\ held' = [held EXCEPT ![i] = None]
        /\ UNCHANGED <<agent, main>>
        /\ agent[i] \in {"finallyOk", "finallyErr"}
        /\ held[i] \in Slot
    BY <1>1 DEF release, agentVars, mainVars, TypeInv, TypeOK
  <2>2. \A j \in Task : held'[j] = IF j = i THEN None ELSE held[j]
    BY <2>1 DEF TypeInv, TypeOK
  <2>3. \A t \in Slot : pool'[t] = IF t = held[i] THEN TRUE ELSE pool[t]
    BY <2>1 DEF TypeInv, TypeOK
  <2>4. Running' = Running
    BY <2>1 DEF Running
  <2>5. \A t \in Slot : ~pool'[t] => \E j \in Task : held'[j] = t
    BY <2>2, <2>3 DEF HeldInv
  <2>6. main' = "launch" => held'[current'] # None
    <3>1. SUFFICES ASSUME main = "launch", current = i PROVE FALSE
      BY <1>0, <2>1, <2>2 DEF HeldInv, TypeInv, TypeOK
    <3> QED
      BY <1>0, <3>1 DEF StartInv, Working
  <2> QED
    BY <1>0, <2>1, <2>2, <2>4, <2>5, <2>6 DEF HeldInv
<1>2. CASE ~release(i)
  <2>1. UNCHANGED <<pool, held>>
    BY <1>2 DEF AgentStep, LogAttempt, CallProvider, Backoff, LogResult, LogFailure,
                ThenCallback, Settle, DeleteAndSettle, TimerFires, poolVars
  <2>2. \A j \in Task : held[j] # None /\ j \in Running => j \in Running'
    BY <1>0 DEF Running
  <2>3. \A j \in Task :
          agent'[j] \in Working \ {"finallyOk", "finallyErr"} => held'[j] # None
    <3>1. agent'[i] \in Working \ {"finallyOk", "finallyErr"}
            => agent[i] \in Working \ {"finallyOk", "finallyErr"}
      BY <1>2 DEF AgentStep, LogAttempt, CallProvider, Backoff, LogResult,
                  LogFailure, ThenCallback, Settle, DeleteAndSettle, TimerFires,
                  Goto, Working, TypeInv, TypeOK
    <3> QED
      BY <1>0, <2>1, <3>1 DEF HeldInv
  <2> QED
    BY <1>0, <2>1, <2>2, <2>3 DEF HeldInv
<1> QED
  BY <1>1, <1>2

WorktreeInv == UniqueIds => HeldInv

LEMMA WorktreeNext ==
  TypeInv /\ StartInv /\ BoundInv /\ WorktreeInv /\ [Next]_vars => WorktreeInv'
<1> SUFFICES ASSUME TypeInv, StartInv, BoundInv, WorktreeInv, [Next]_vars, UniqueIds'
             PROVE  HeldInv'
  BY DEF WorktreeInv
<1>1. UNCHANGED plan
  BY AgentFrame DEF vars, Next, MainStep, ExecuteAll, acquire, DispatchThrows,
                    Launch, RaceSettles
<1>2. UniqueIds /\ CapInv /\ HeldInv
  BY <1>1 DEF UniqueIds, BoundInv, WorktreeInv
<1>3. CASE UNCHANGED vars
  BY <1>2, <1>3 DEF vars, mainVars, agentVars, poolVars, HeldInv, Running
<1>4. CASE Next
  BY <1>2, <1>4, HeldMain, HeldAgent DEF Next
<1> QED
  BY <1>3, <1>4

\* No agent ever works without a worktree: acquire() never returns null, because
\* the finally callback releases the worktree before it makes room for a task.
THEOREM EveryAgentHasAWorktree == Spec => []NoAgentWithoutWorktree
<1>1. Init => WorktreeInv
  BY DEF Init, WorktreeInv, HeldInv, Working
<1>2. WorktreeInv => NoAgentWithoutWorktree
  BY DEF WorktreeInv, HeldInv, NoAgentWithoutWorktree
<1> QED
  BY <1>1, <1>2, TypeInit, TypeNext, StartInit, StartNext, BoundInit, BoundNext,
     WorktreeNext, PTL DEF Spec

-----------------------------------------------------------------------------
(***************************************************************************)
(* Results.  The results array has one entry for each agent that passed    *)
(* its then callback, and executeAll stops only when nothing is ready: the *)
(* break out of the outer loop is taken with no promise active, when there *)
(* is room, so the inner loop must have run out of ready tasks.            *)
(***************************************************************************)
Passed == {"finallyOk", "ok"}

ResultInv ==
  /\ \A n \in DOMAIN results : agent[results[n].task] \in Passed
  /\ \A m, n \in DOMAIN results : results[m].task = results[n].task => m = n
  /\ \A j \in Reported : plan.id[j] \in completed
  /\ \A i \in Task : agent[i] \in Passed => i \in Reported

LaunchInv ==
  \A i \in started :
    agent[i] # "none" \/ (main = "launch" /\ i = current) \/ main = "exited"

DoneInv ==
  UniqueIds =>
    /\ \A i \in Task : plan.id[i] \notin pending => i \in started
    /\ main = "done" /\ MaxConcurrent > 0 => getReadyTasks = {}

LEMMA ReportedDomain ==
  ASSUME TypeInv
  PROVE  /\ Reported = {results[n].task : n \in DOMAIN results}
         /\ \A n \in DOMAIN results : results[n].task \in Task
<1>1. DOMAIN results = 1 .. Len(results)
  BY DEF TypeInv, TypeOK
<1>2. \A n \in DOMAIN results : results[n].task \in Task
  <2> DEFINE R == [task : Task, status : {"completed", "failed"}]
  <2>1. results \in Seq(R)
    BY DEF TypeInv, TypeOK
  <2>2. \A e \in R : e.task \in Task
    OBVIOUS
  <2> HIDE DEF R
  <2>3. \A n \in DOMAIN results : results[n] \in R
    BY <1>1, <2>1
  <2> QED
    BY <2>2, <2>3
<1> QED
  BY <1>1, <1>2 DEF Reported

LEMMA ResultMain ==
  ASSUME TypeInv, StartInv, ResultInv, MainStep
  PROVE  ResultInv'
<1>0. Reported' = Reported /\ UNCHANGED <<plan, completed, results>>
  BY DEF MainStep, ExecuteAll, acquire, DispatchThrows, Launch, RaceSettles,
         bookVars, Reported
<1>1. \A i \in Task : agent'[i] \in Passed <=> agent[i] \in Passed
  <2>1. CASE Launch
    BY <2>1 DEF Launch, StartInv, Passed, TypeInv, TypeOK
  <2>2. CASE ~Launch
    BY <2>2 DEF MainStep, ExecuteAll, acquire, DispatchThrows, RaceSettles, agentVars
  <2> QED
    BY <2>1, <2>2
<1>2. \A n \in DOMAIN results : results[n].task \in Task
  BY ReportedDomain
<1> QED
  BY <1>0, <1>1, <1>2 DEF ResultInv

\* A then callback adds its own result, which was not there before.
LEMMA ResultThen ==
  ASSUME TypeInv, ResultInv, NEW i \in Task, ThenCallback(i)
  PROVE  ResultInv'
<1>1. /\ DOMAIN results' = 1 .. Len(results) + 1
      /\ DOMAIN results = 1 .. Len(results)
      /\ Len(results) \in Nat
      /\ \A n \in DOMAIN results : results'[n] = results[n]
      /\ results'[Len(results) + 1].task = i
  BY DEF ThenCallback, TypeInv, TypeOK
<1>2. /\ agent' = [agent EXCEPT ![i] = "finallyOk"]
      /\ completed' = completed \cup {plan.id[i]}
      /\ plan' = plan
      /\ agent[i] = "then"
  BY DEF ThenCallback, Goto
<1>3. \A n \in DOMAIN results : results[n].task \in Task /\ results[n].task # i
  BY <1>2, ReportedDomain DEF ResultInv, Passed
<1>4. \A n \in DOMAIN results' : n \in DOMAIN results \/ n = Len(results) + 1
  BY <1>1
<1>5. \A n \in DOMAIN results' : agent'[results'[n].task] \in Passed
  BY <1>1, <1>2, <1>3, <1>4 DEF ResultInv, Passed, TypeInv, TypeOK
<1>6. \A m, n \in DOMAIN results' : results'[m].task = results'[n].task => m = n
  BY <1>1, <1>3, <1>4 DEF ResultInv
<1>7. \A n \in DOMAIN results' : plan.id[results'[n].task] \in completed'
  <2>1. \A n \in DOMAIN results : plan.id[results[n].task] \in completed
    BY ReportedDomain DEF ResultInv
  <2> QED
    BY <1>1, <1>2, <1>4, <2>1
<1>8. Reported' = {results'[n].task : n \in DOMAIN results'}
  <2>1. Len(results') = Len(results) + 1
    BY DEF ThenCallback, TypeInv, TypeOK
  <2> QED
    BY <1>1, <2>1 DEF Reported
<1>9. \A j \in Task : agent'[j] \in Passed => j \in Reported'
  <2>1. Reported \subseteq Reported' /\ i \in Reported'
    BY <1>1, <1>8, ReportedDomain
  <2>2. \A j \in Task : j # i => agent'[j] = agent[j]
    BY <1>2 DEF TypeInv, TypeOK
  <2> QED
    BY <2>1, <2>2 DEF ResultInv
<1> QED
  BY <1>2, <1>5, <1>6, <1>7, <1>8, <1>9 DEF ResultInv

LEMMA ResultAgent ==
  ASSUME TypeInv, ResultInv, NEW i \in Task, AgentStep(i) \/ TimerFires(i)
  PROVE  ResultInv'
<1>1. CASE ThenCallback(i)
  BY <1>1, ResultThen
<1>2. CASE ~ThenCallback(i)
  <2>1. UNCHANGED <<completed, results, plan>>
    BY <1>2, AgentFrame
    DEF AgentStep, LogAttempt, CallProvider, Backoff, LogResult, LogFailure,
        release, Settle, DeleteAndSettle, TimerFires, bookVars
  <2>2. agent[i] \in Passed <=> agent'[i] \in Passed
    BY <1>2 DEF AgentStep, LogAttempt, CallProvider, Backoff, LogResult, LogFailure,
                release, Settle, DeleteAndSettle, TimerFires, agentVars, Goto, Passed,
                TypeInv, TypeOK
  <2>3. \A j \in Task : j # i => agent'[j] = agent[j]
    BY AgentFrame
  <2>4. \A n \in DOMAIN results : results[n].task \in Task
    BY ReportedDomain
  <2>5. \A n \in DOMAIN results : agent'[results[n].task] \in Passed
    BY <2>2, <2>3, <2>4 DEF ResultInv
  <2> QED
    BY <2>1, <2>2, <2>3, <2>5 DEF ResultInv, Reported
<1> QED
  BY <1>1, <1>2

LEMMA ResultNext == TypeInv /\ StartInv /\ ResultInv /\ [Next]_vars => ResultInv'
<1> SUFFICES ASSUME TypeInv, StartInv, ResultInv, [Next]_vars PROVE ResultInv'
  OBVIOUS
<1>1. CASE UNCHANGED vars
  BY <1>1 DEF vars, agentVars, bookVars, ResultInv, Reported
<1>2. CASE Next
  BY <1>2, ResultMain, ResultAgent DEF Next
<1> QED
  BY <1>1, <1>2

\* Between acquire and Launch nothing can come between a task and its agent but
\* the end of the process.
LEMMA LaunchNext == TypeInv /\ StartInv /\ LaunchInv /\ [Next]_vars => LaunchInv'
<1> SUFFICES ASSUME TypeInv, StartInv, LaunchInv, [Next]_vars PROVE LaunchInv'
  OBVIOUS
<1>1. CASE UNCHANGED vars
  BY <1>1 DEF vars, mainVars, agentVars, bookVars, LaunchInv
<1>2. CASE main # "exited" /\ acquire
  BY <1>2 DEF acquire, agentVars, LaunchInv
<1>3. CASE main # "exited" /\ Launch
  BY <1>3 DEF Launch, LaunchInv, TypeInv, TypeOK
<1>4. CASE main # "exited" /\ (ExecuteAll \/ DispatchThrows \/ RaceSettles)
  BY <1>4 DEF ExecuteAll, DispatchThrows, RaceSettles, agentVars, bookVars, LaunchInv
<1>5. CASE main # "exited" /\ \E i \in Task : AgentStep(i) \/ TimerFires(i)
  <2>1. PICK i \in Task : AgentStep(i) \/ TimerFires(i)
    BY <1>5
  <2>2. /\ UNCHANGED <<current, started>>
        /\ main' \in {main, "exited"}
        /\ \A j \in Task : agent'[j] # agent[j] => j = i
        /\ agent'[i] # "none"
    BY <2>1, AgentFrame DEF Working
  <2> QED
    BY <1>5, <2>2 DEF LaunchInv, TypeInv, TypeOK
<1> QED
  BY <1>1, <1>2, <1>3, <1>4, <1>5 DEF Next, MainStep

\* The loop ends only with nothing ready: an empty activePromises leaves room.
LEMMA LoopTopDone ==
  ASSUME TypeInv, MaxConcurrent > 0, LoopTop, main' = "done",
         \A i \in Task : plan.id[i] \notin pending => i \in started
  PROVE  getReadyTasks = {}
<1>1. CASE pending = {} /\ ActiveIds(active) = {}
  BY <1>1 DEF getReadyTasks
<1>2. CASE ~(pending = {} /\ ActiveIds(active) = {})
  <2>1. FillOrWait(getReadyTasks, active)
    BY <1>2 DEF LoopTop
  <2>2. ActiveIds(active) = {} /\ ~(getReadyTasks # {} /\ Room(active))
    BY <2>1 DEF FillOrWait, AfterFill
  <2>3. Room(active)
    BY <2>2, FS_EmptySet DEF Room
  <2> QED
    BY <2>2, <2>3
<1> QED
  BY <1>1, <1>2

LEMMA DoneNext ==
  TypeInv /\ StartInv /\ BoundInv /\ DoneInv /\ [Next]_vars => DoneInv'
<1> SUFFICES ASSUME TypeInv, StartInv, BoundInv, DoneInv, [Next]_vars, UniqueIds'
             PROVE  /\ \A i \in Task : plan'.id[i] \notin pending' => i \in started'
                    /\ main' = "done" /\ MaxConcurrent > 0 => getReadyTasks' = {}
  BY DEF DoneInv
<1>0. UNCHANGED plan
  BY AgentFrame DEF vars, Next, MainStep, ExecuteAll, acquire, DispatchThrows,
                    Launch, RaceSettles
<1>a. /\ UniqueIds /\ CapInv
      /\ \A i \in Task : plan.id[i] \notin pending => i \in started
      /\ main = "done" /\ MaxConcurrent > 0 => getReadyTasks = {}
  BY <1>0 DEF UniqueIds, BoundInv, DoneInv
<1>1. CASE UNCHANGED vars
  BY <1>1, <1>a DEF vars, mainVars, bookVars, getReadyTasks
<1>2. CASE acquire \/ DispatchThrows
  BY <1>0, <1>2, <1>a DEF acquire, DispatchThrows, bookVars
<1>3. CASE Launch
  <2>1. current \in Task /\ plan.id[current] \in Ids /\ current \in started
    BY <1>3, PlanShape DEF Launch, StartInv, TypeInv, TypeOK
  <2>2. active'[plan.id[current]] # None
    BY <1>3, <2>1, ConstantsAssumption DEF Launch, Task, None, TypeInv, TypeOK
  <2>3. main' # "done"
    BY <1>3, <2>1, <2>2 DEF Launch, FillOrWait, AfterFill, ActiveIds
  <2>4. \A i \in Task : plan.id[i] \notin pending' => i \in started
    BY <1>3, <1>a, <2>1 DEF Launch, UniqueIds
  <2> QED
    BY <1>0, <1>3, <2>3, <2>4 DEF Launch
<1>4. CASE ExecuteAll \/ RaceSettles
  <2>1. UNCHANGED <<pending, started, completed>>
    BY <1>4 DEF ExecuteAll, RaceSettles, bookVars
  <2>2. getReadyTasks' = getReadyTasks
    BY <1>0, <2>1 DEF getReadyTasks
  <2>3. main' = "done" => LoopTop
    BY <1>4 DEF ExecuteAll, RaceSettles
  <2> QED
    BY <1>0, <1>a, <2>1, <2>2, <2>3, LoopTopDone
<1>5. ASSUME NEW i \in Task, AgentStep(i) \/ TimerFires(i)
      PROVE  /\ \A j \in Task : plan'.id[j] \notin pending' => j \in started'
             /\ main' = "done" /\ MaxConcurrent > 0 => getReadyTasks' = {}
  <2>1. /\ UNCHANGED started
        /\ main' \in {main, "exited"}
        /\ i \in Running
    BY <1>5, AgentFrame DEF Running
  <2>2. i \in started
    BY <2>1 DEF StartInv, Running, Working
  <2>3. pending' = pending \/ pending' = pending \ {plan.id[i]}
    BY <1>5 DEF AgentStep, LogAttempt, CallProvider, Backoff, LogResult, LogFailure,
                ThenCallback, release, Settle, DeleteAndSettle, TimerFires, bookVars
  <2>4. main # "done"
    BY <1>a, <2>1, DoneNoRunning
  <2> QED
    BY <1>0, <1>a, <2>1, <2>2, <2>3, <2>4 DEF UniqueIds
<1> QED
  BY <1>1, <1>2, <1>3, <1>4, <1>5 DEF Next, MainStep

\* executeAll reports a task at most once, and reports every task of a plan that
\* passed the decomposer except those whose failure could not be logged and
\* those that wait for an unreported dependency.
THEOREM ReportedOnce == Spec => []EveryTaskReportedOnce
<1>1. Init => ResultInv /\ LaunchInv /\ DoneInv
  <2> SUFFICES ASSUME Init PROVE ResultInv /\ LaunchInv /\ DoneInv
    OBVIOUS
  <2>1. Reported = {} /\ DOMAIN results = {}
    BY DEF Init, Reported
  <2>2. ResultInv
    BY <2>1 DEF Init, ResultInv, Passed
  <2> QED
    BY <2>2 DEF Init, LaunchInv, DoneInv
<1>2. TypeInv /\ BoundInv /\ ResultInv /\ LaunchInv /\ DoneInv => EveryTaskReportedOnce
  <2> SUFFICES ASSUME TypeInv, BoundInv, ResultInv, LaunchInv, DoneInv,
                      main = "done", UniqueIds, WellFormed, MaxConcurrent > 0,
                      NEW i \in Task \ (Reported \cup Lost)
               PROVE  \E j \in Task \ Reported : plan.id[j] \in plan.deps[i]
    BY DEF EveryTaskReportedOnce, ResultInv
  <2>1. i \notin Running
    BY DoneNoRunning DEF BoundInv
  <2>2. agent[i] = "none"
    BY <2>1 DEF ResultInv, Passed, Running, Working, Lost, AgentPc, TypeInv, TypeOK
  <2>3. i \notin started
    BY <2>2 DEF LaunchInv
  <2>4. PICK d \in plan.deps[i] : d \notin completed
    BY <2>3 DEF DoneInv, getReadyTasks
  <2>5. PICK j \in Task : plan.id[j] = d
    BY <2>4 DEF WellFormed
  <2> QED
    BY <2>4, <2>5 DEF ResultInv
<1> QED
  BY <1>1, <1>2, TypeInit, TypeNext, StartInit, StartNext, BoundInit, BoundNext,
     ResultNext, LaunchNext, DoneNext, PTL DEF Spec

-----------------------------------------------------------------------------
(***************************************************************************)
(* AgentRouter: what a call of routeTaskWithFallback has recorded at each  *)
(* point, and how the statistics all calls share keep up with it.          *)
(***************************************************************************)

\* The providers with a token among the first n of an order.
ValidIn(o, n) == {o[i] : i \in {j \in 1 .. n : o[j] \in Valid}}

\* The providers the entries e name.
NamesOf(e) == {e[i][1] : i \in DOMAIN e}

\* What routeTask returns as fallbackProviders.
IsOrder(o) ==
  /\ o \in Seq(Provider) /\ IsInjective(o)
  /\ Len(o) \in 1 .. Len(Order) + 1
  /\ o[1] \in Valid
  /\ ToSet(o) = {o[1]} \cup ToSet(Order)

Unrouted == {"new", "reading", "pick"}
Unlogged == {"log", "call", "fellback", "count", "flush", "entry"}
Logged   == {"fallback", "next", "exhausted"}

\* A call tries the providers of its order in turn.
OrderInv(s, o, n, e) ==
  /\ s \notin Unrouted => IsOrder(o) /\ n \in 1 .. Len(o) /\ o[n] \in Valid
  /\ s \in Unrouted \cup {"log"} => n = 1 /\ e = << >>
  /\ s = "exhausted" => \A i \in n + 1 .. Len(o) : o[i] \notin Valid

\* The entries of a call name the providers before its turn that have a token, each
\* once; only a call that has returned has recorded a success, and last.
EntryInv(s, o, n, e) ==
  /\ \A i, j \in DOMAIN e : e[i][1] = e[j][1] => i = j
  /\ Len(e) <= n
  /\ s # "returned" => \A i \in DOMAIN e : ~e[i][2]
  /\ s \in Unlogged => NamesOf(e) = ValidIn(o, n - 1) /\ Len(e) <= n - 1
  /\ s \in Logged => NamesOf(e) = ValidIn(o, n)
  /\ s = "returned" => /\ Len(e) > 0 /\ e[Len(e)] = <<o[n], TRUE>>
                       /\ \A i \in 1 .. Len(e) - 1 : ~e[i][2]

CallInv == \A c \in Call : /\ OrderInv(pc[c], order[c], idx[c], entries[c])
                           /\ EntryInv(pc[c], order[c], idx[c], entries[c])

\* Until the first read of the statistics file has ended nothing has changed it.
LoadedInv ==
  /\ loaded => Call # {}
  /\ ~loaded =>
       /\ \A c \in Call : pc[c] \in {"new", "reading"}
       /\ \A c \in Call : pc[c] = "reading" => seen[c] = file
       /\ map = NoCounts
       /\ base = IF file = Torn THEN NoCounts ELSE file
       /\ queue = << >>

\* The write queue holds the calls that wait for their flush.
QueueInv ==
  /\ IsInjective(queue)
  /\ \A c \in Call : pc[c] = "flush" <=> c \in ToSet(queue)
  /\ payload # Torn => queue # << >>

FaultInv ==
  faults = 0 => /\ ~poisoned /\ broken = {}
                /\ \A c \in Call : pc[c] \in Done => entries[c] # << >>

\* Calls whose outcome the statistics have counted and the ledger has not.
Counted(p, ok) == {c \in Call : pc[c] \in {"flush", "entry"} /\ Tried(c) = p /\ good[c] = ok}
Value(cnt, ok) == IF ok THEN cnt.s ELSE cnt.f
Known(p, ok) == Value(base[p], ok) + (Recorded(p, ok) + Cardinality(Counted(p, ok)))

SumInv ==
  loaded /\ ~stale =>
    \A p \in Provider, ok \in BOOLEAN :
      /\ Value(map[p], ok) >= Known(p, ok)
      /\ faults = 0 => Value(map[p], ok) = Known(p, ok)

\* Without failing writes the last flush of the queue writes the map.
FileInv ==
  loaded /\ ~stale /\ faults = 0 =>
    /\ Len(queue) = 1 /\ payload # Torn => payload = map
    /\ queue = << >> /\ (\E c \in Call : pc[c] = "entry" \/ entries[c] # << >>) => file = map

\* The least of a nonempty set of positions.
LEMMA MinIn ==
  ASSUME NEW S \in SUBSET Nat, S # {}
  PROVE  Min(S) \in S /\ \A y \in S : Min(S) <= y
<1>1. PICK x \in S : \A y \in S : ~(<<y, x>> \in OpToRel(<, Nat))
  BY NatLessThanWellFounded, WFMin
<1>2. \A y \in Nat : y < x => <<y, x>> \in OpToRel(<, Nat)
  BY DEF OpToRel
<1>3. \A y \in S : ~(y < x)
  BY <1>1, <1>2, Zenon
<1>4. \A y \in S : x <= y
  BY <1>3
<1> QED
  BY <1>4 DEF Min

\* An order without one of its elements keeps the others, and no two places name
\* the same one.
LEMMA WithoutOne ==
  ASSUME NEW p
  PROVE  LET w == Without(Order, p)
         IN  /\ w \in Seq(Provider) /\ IsInjective(w)
             /\ Len(w) <= Len(Order)
             /\ ToSet(w) = ToSet(Order) \ {p}
<1>0. Order \in Seq(Provider) /\ IsInjective(Order) /\ Len(Order) \in Nat /\ DOMAIN Order = 1 .. Len(Order)
  BY AgentRouterAssumption
<1>1. CASE p \in ToSet(Order)
  <2> DEFINE n == CHOOSE i \in DOMAIN Order : Order[i] = p
             w == [i \in 1 .. Len(Order) - 1 |-> IF i < n THEN Order[i] ELSE Order[i + 1]]
  <2>1. n \in 1 .. Len(Order) /\ Order[n] = p
    BY <1>0, <1>1 DEF ToSet
  <2> HIDE DEF n
  <2>2. Without(Order, p) = SubSeq(Order, 1, n - 1) \o SubSeq(Order, n + 1, Len(Order))
    BY <1>1 DEF Without, RemoveAt, n
  <2>3. SubSeq(Order, 1, n - 1) \o SubSeq(Order, n + 1, Len(Order)) = w
    <3> DEFINE a == SubSeq(Order, 1, n - 1)
               b == SubSeq(Order, n + 1, Len(Order))
    <3>0. n \in Int /\ n - 1 \in Int /\ n + 1 \in Int /\ Len(Order) \in Int
      BY <1>0, <2>1
    <3>1. /\ a \in Seq(Provider) /\ Len(a) = n - 1
          /\ \A i \in 1 .. n - 1 : a[i] = Order[i]
      <4>1. \A i \in 1 .. n - 1 : Order[i] \in Provider
        BY <1>0, <2>1
      <4>2. /\ a \in Seq(Provider) /\ Len(a) = IF 1 <= n - 1 THEN n - 1 - 1 + 1 ELSE 0
            /\ \A i \in 1 .. n - 1 - 1 + 1 : a[i] = Order[1 + i - 1]
        BY <3>0, <4>1, SubSeqProperties
      <4> HIDE DEF a
      <4> QED
        BY <2>1, <4>2
    <3>2. /\ b \in Seq(Provider) /\ Len(b) = Len(Order) - n
          /\ \A i \in 1 .. Len(Order) - n : b[i] = Order[n + i]
      <4>1. \A i \in n + 1 .. Len(Order) : Order[i] \in Provider
        BY <1>0, <2>1
      <4>2. /\ b \in Seq(Provider)
            /\ Len(b) = IF n + 1 <= Len(Order) THEN Len(Order) - (n + 1) + 1 ELSE 0
            /\ \A i \in 1 .. Len(Order) - (n + 1) + 1 : b[i] = Order[n + 1 + i - 1]
        BY <3>0, <4>1, SubSeqProperties
      <4> HIDE DEF b
      <4> QED
        BY <2>1, <3>0, <4>2
    <3> HIDE DEF a, b
    <3>3. /\ a \o b \in Seq(Provider) /\ Len(a \o b) = Len(Order) - 1
          /\ \A i \in 1 .. Len(Order) - 1 : (a \o b)[i] = IF i < n THEN a[i] ELSE b[i - (n - 1)]
      <4>1. a \o b \in Seq(Provider) /\ Len(a \o b) = Len(a) + Len(b)
        BY <3>1, <3>2
      <4>2. \A i \in 1 .. Len(a) + Len(b) : (a \o b)[i] = IF i <= Len(a) THEN a[i] ELSE b[i - Len(a)]
        BY <3>1, <3>2
      <4>3. Len(a) + Len(b) = Len(Order) - 1 /\ \A i \in 1 .. Len(Order) - 1 : i <= n - 1 <=> i < n
        BY <1>0, <2>1, <3>1, <3>2
      <4> QED
        BY <3>1, <4>1, <4>2, <4>3
    <3>4. \A i \in 1 .. Len(Order) - 1 : (a \o b)[i] = w[i]
      BY <1>0, <2>1, <3>1, <3>2, <3>3
    <3>5. a \o b = w
      <4>1. a \o b = [i \in 1 .. Len(Order) - 1 |-> (a \o b)[i]]
        <5>1. \A s \in Seq(Provider) : s = [i \in 1 .. Len(s) |-> s[i]]
          OBVIOUS
        <5> QED
          BY <3>3, <5>1
      <4> QED
        BY <3>4, <4>1
    <3> QED
      BY <3>5 DEF a, b
  <2>4. w \in Seq(Provider) /\ Len(w) = Len(Order) - 1 /\ DOMAIN w = 1 .. Len(Order) - 1
    BY <1>0, <2>1
  <2>5. IsInjective(w)
    BY <1>0, <2>1 DEF IsInjective
  <2>6. ToSet(w) = ToSet(Order) \ {p}
    <3>1. \A i \in DOMAIN w : w[i] \in ToSet(Order) \ {p}
      BY <1>0, <2>1 DEF IsInjective, ToSet
    <3>2. ASSUME NEW j \in DOMAIN Order, Order[j] # p
          PROVE  \E i \in DOMAIN w : w[i] = Order[j]
      <4>1. CASE j < n
        BY <1>0, <2>1, <4>1
      <4>2. CASE j > n
        <5>1. j - 1 \in DOMAIN w /\ w[j - 1] = Order[j]
          BY <1>0, <2>1, <4>2
        <5> QED
          BY <5>1
      <4> QED
        BY <1>0, <2>1, <3>2, <4>1, <4>2
    <3> QED
      BY <3>1, <3>2 DEF ToSet
  <2> HIDE DEF w
  <2>7. Without(Order, p) = w /\ Len(w) <= Len(Order)
    <3>1. Without(Order, p) = w
      BY <2>2, <2>3, Zenon
    <3> QED
      BY <1>0, <2>4, <3>1
  <2> QED
    BY <2>4, <2>5, <2>6, <2>7
<1>2. CASE p \notin ToSet(Order)
  BY <1>0, <1>2 DEF Without
<1> QED
  BY <1>1, <1>2

\* The chosen provider in front of the others is an order.
LEMMA OrderOf ==
  ASSUME NEW p \in Valid
  PROVE  IsOrder(<<p>> \o Without(Order, p))
<1> DEFINE w == Without(Order, p)
           o == <<p>> \o w
<1>1. /\ w \in Seq(Provider) /\ IsInjective(w) /\ Len(w) <= Len(Order)
      /\ ToSet(w) = ToSet(Order) \ {p}
  BY WithoutOne
<1>2. p \in Provider /\ Len(Order) \in Nat
  BY AgentRouterAssumption
<1> HIDE DEF w
<1>3. /\ o \in Seq(Provider) /\ Len(o) = Len(w) + 1 /\ DOMAIN o = 1 .. Len(w) + 1 /\ o[1] = p
      /\ \A i \in 1 .. Len(w) : o[i + 1] = w[i]
      /\ \A i \in DOMAIN o : i # 1 => i - 1 \in 1 .. Len(w) /\ o[i] = w[i - 1]
      /\ Len(w) \in Nat /\ DOMAIN w = 1 .. Len(w)
  BY <1>1, <1>2
<1>4. \A i \in DOMAIN w : w[i] \in ToSet(Order) \ {p}
  BY <1>1 DEF ToSet
<1>5. IsInjective(o)
  BY <1>1, <1>3, <1>4 DEF IsInjective
<1>6. ToSet(o) = {p} \cup ToSet(Order)
  <2>1. \A i \in DOMAIN o : o[i] \in {p} \cup ToSet(Order)
    BY <1>3, <1>4
  <2>2. \A x \in ToSet(Order) \ {p} : \E i \in DOMAIN o : o[i] = x
    <3>1. \A x \in ToSet(Order) \ {p} : \E i \in 1 .. Len(w) : w[i] = x
      BY <1>1, <1>3 DEF ToSet
    <3>2. \A i \in 1 .. Len(w) : i + 1 \in DOMAIN o /\ o[i + 1] = w[i]
      BY <1>3
    <3> QED
      BY <3>1, <3>2
  <2>3. 1 \in DOMAIN o
    BY <1>3
  <2> HIDE DEF o
  <2>4. ToSet(o) \subseteq {p} \cup ToSet(Order)
    BY <2>1 DEF ToSet
  <2>5. ToSet(Order) \ {p} \subseteq ToSet(o)
    BY <2>2 DEF ToSet
  <2>6. o[1] = p
    BY <1>3
  <2>7. p \in ToSet(o)
    BY <2>3, <2>6 DEF ToSet
  <2> QED
    BY <2>4, <2>5, <2>7
<1>7. Len(o) \in 1 .. Len(Order) + 1
  BY <1>1, <1>2, <1>3
<1> HIDE DEF o
<1>8. IsOrder(o)
  BY <1>3, <1>5, <1>6, <1>7 DEF IsOrder
<1> QED
  BY <1>8 DEF o, w

LEMMA BestValid == BestProvider \in Valid
<1> DEFINE S == {i \in DOMAIN Manifest : Manifest[i] \in Valid}
<1>1. S \in SUBSET Nat /\ S # {}
  BY AgentRouterAssumption DEF ToSet
<1>2. Min(S) \in S
  BY <1>1, MinIn
<1> QED
  BY <1>2 DEF BestProvider

LEMMA PicksValid == Picks \subseteq Valid
BY BestValid DEF Picks

\* A call that goes on without a new entry.
LEMMA CallGoesOn ==
  ASSUME NEW s, NEW t, NEW o, NEW n, NEW e,
         OrderInv(s, o, n, e), EntryInv(s, o, n, e),
         \/ s \in {"new", "reading"} /\ t \in Unrouted
         \/ s \in Unlogged /\ t \in (Unlogged \ {"log"}) \cup {"thrown"}
         \/ s \in {"fallback", "next"} /\ t \in {"next", "thrown"}
         \/ s = "next" /\ t = "exhausted" /\ \A i \in n + 1 .. Len(o) : o[i] \notin Valid
  PROVE  OrderInv(t, o, n, e) /\ EntryInv(t, o, n, e)
<1> USE DEF Unrouted, Unlogged, Logged
<1>1. OrderInv(t, o, n, e)
  BY DEF OrderInv
<1>2. EntryInv(t, o, n, e)
  BY DEF EntryInv
<1> QED
  BY <1>1, <1>2

\* A call that has been given its order.
LEMMA CallRouted ==
  ASSUME NEW o, NEW n, NEW e, NEW q, OrderInv("pick", o, n, e), IsOrder(q)
  PROVE  OrderInv("log", q, n, e) /\ EntryInv("log", q, n, e)
<1>1. n = 1 /\ e = << >>
  BY DEF OrderInv, Unrouted
<1>2. q \in Seq(Provider) /\ Len(q) \in Nat \ {0} /\ q[1] \in Valid
  BY AgentRouterAssumption DEF IsOrder
<1>3. OrderInv("log", q, 1, << >>)
  BY <1>2 DEF OrderInv, Unrouted
<1>4. NamesOf(<< >>) = {} /\ ValidIn(q, 1 - 1) = {}
  BY DEF NamesOf, ValidIn
<1> DEFINE z == << >>
<1>z. DOMAIN z = {} /\ Len(z) <= 1 /\ Len(z) <= 1 - 1 /\ z = << >>
  OBVIOUS
<1> HIDE DEF z
<1>5. EntryInv("log", q, 1, << >>)
  BY <1>4, <1>z DEF EntryInv, Unlogged, Logged
<1> QED
  BY <1>1, <1>3, <1>5

\* One more provider of an order.
LEMMA ValidNext ==
  ASSUME NEW o, NEW n \in Nat \ {0}, o[n] \in Valid
  PROVE  ValidIn(o, n) = ValidIn(o, n - 1) \cup {o[n]}
<1>1. 1 .. n = (1 .. n - 1) \cup {n}
  OBVIOUS
<1> QED
  BY <1>1 DEF ValidIn

LEMMA ValidSkip ==
  ASSUME NEW o, NEW m \in Nat, NEW n \in Nat, m <= n,
         \A i \in m + 1 .. n : o[i] \notin Valid
  PROVE  ValidIn(o, n) = ValidIn(o, m)
<1>1. {j \in 1 .. n : o[j] \in Valid} = {j \in 1 .. m : o[j] \in Valid}
  <2>1. \A j \in 1 .. n : j \in 1 .. m \/ j \in m + 1 .. n
    OBVIOUS
  <2>2. \A j \in 1 .. m : j \in 1 .. n
    OBVIOUS
  <2> QED
    BY <2>1, <2>2
<1> QED
  BY <1>1 DEF ValidIn

\* A call whose ledger takes the entry of its turn.
LEMMA CallRecords ==
  ASSUME NEW o, NEW n, NEW e \in Seq(Provider \X BOOLEAN), NEW g \in BOOLEAN, NEW t,
         OrderInv("entry", o, n, e), EntryInv("entry", o, n, e),
         IF g THEN t = "returned" ELSE t \in {"next", "fallback", "thrown"}
  PROVE  LET x == Append(e, <<o[n], g>>)
         IN  /\ OrderInv(t, o, n, x) /\ EntryInv(t, o, n, x)
             /\ x \in Seq(Provider \X BOOLEAN) /\ x # << >>
<1> DEFINE x == Append(e, <<o[n], g>>)
<1>1. /\ IsOrder(o) /\ n \in 1 .. Len(o) /\ o[n] \in Valid
      /\ o \in Seq(Provider) /\ o[n] \in Provider /\ n \in Nat \ {0}
  BY DEF OrderInv, Unrouted, IsOrder
<1>2. /\ \A i, j \in DOMAIN e : e[i][1] = e[j][1] => i = j
      /\ \A i \in DOMAIN e : ~e[i][2]
      /\ NamesOf(e) = ValidIn(o, n - 1) /\ Len(e) <= n - 1
  BY DEF EntryInv, Unlogged
<1>3. /\ x \in Seq(Provider \X BOOLEAN) /\ Len(x) = Len(e) + 1 /\ DOMAIN x = 1 .. Len(e) + 1
      /\ x[Len(e) + 1] = <<o[n], g>> /\ \A i \in 1 .. Len(e) : x[i] = e[i]
      /\ Len(e) \in Nat /\ DOMAIN e = 1 .. Len(e) /\ x # << >>
  BY <1>1
<1> HIDE DEF x
<1>4. o[n] \notin NamesOf(e)
  <2>1. \A j \in 1 .. n - 1 : o[j] # o[n]
    BY <1>1 DEF IsOrder, IsInjective
  <2> QED
    BY <1>2, <2>1 DEF ValidIn
<1>5. \A i \in 1 .. Len(e) : x[i][1] \in NamesOf(e) /\ ~x[i][2]
  BY <1>2, <1>3 DEF NamesOf
<1>6. \A i, j \in DOMAIN x : x[i][1] = x[j][1] => i = j
  <2>1. \A i \in DOMAIN x : i \in 1 .. Len(e) \/ i = Len(e) + 1
    BY <1>3
  <2>2. x[Len(e) + 1][1] = o[n]
    BY <1>3
  <2>3. \A i, j \in 1 .. Len(e) : x[i][1] = x[j][1] => i = j
    BY <1>2, <1>3
  <2> QED
    BY <1>4, <1>5, <2>1, <2>2, <2>3
<1>7. NamesOf(x) = ValidIn(o, n)
  <2>1. NamesOf(x) = NamesOf(e) \cup {o[n]}
    <3>1. \A i \in DOMAIN x : x[i][1] \in NamesOf(e) \cup {o[n]}
      BY <1>3, <1>5
    <3>2. \A y \in NamesOf(e) : \E i \in DOMAIN x : x[i][1] = y
      BY <1>3 DEF NamesOf
    <3>3. Len(e) + 1 \in DOMAIN x /\ x[Len(e) + 1][1] = o[n]
      BY <1>3
    <3> QED
      BY <3>1, <3>2, <3>3 DEF NamesOf
  <2> QED
    BY <1>1, <1>2, <2>1, ValidNext
<1>8. OrderInv(t, o, n, x)
  BY <1>1 DEF OrderInv, Unrouted
<1>9. EntryInv(t, o, n, x)
  <2>1. Len(x) <= n /\ Len(x) > 0 /\ Len(x) - 1 = Len(e)
    BY <1>1, <1>2, <1>3
  <2>2. ~g => \A i \in DOMAIN x : ~x[i][2]
    BY <1>3, <1>5
  <2>3. t \notin Unlogged
    BY DEF Unlogged
  <2>4. g => x[Len(x)] = <<o[n], TRUE>>
    BY <1>3
  <2>5. g => t = "returned"
    OBVIOUS
  <2>6. ~g => t # "returned"
    OBVIOUS
  <2>7. "returned" \notin Logged
    BY DEF Logged
  <2> QED
    BY <1>5, <1>6, <1>7, <2>1, <2>2, <2>3, <2>4, <2>5, <2>6, <2>7 DEF EntryInv
<1> QED
  BY <1>3, <1>8, <1>9 DEF x

\* A call that turns to its next provider with a token.
LEMMA CallTurns ==
  ASSUME NEW o, NEW n, NEW e \in Seq(Provider \X BOOLEAN),
         OrderInv("next", o, n, e), EntryInv("next", o, n, e),
         NEW R, R = {i \in n + 1 .. Len(o) : o[i] \in Valid}, R # {}
  PROVE  /\ OrderInv("call", o, Min(R), e) /\ EntryInv("call", o, Min(R), e)
         /\ Min(R) \in 1 .. Len(Order) + 1
<1> DEFINE m == Min(R)
<1>1. IsOrder(o) /\ n \in 1 .. Len(o) /\ Len(o) \in 1 .. Len(Order) + 1 /\ Len(Order) \in Nat
  BY AgentRouterAssumption DEF OrderInv, Unrouted, IsOrder
<1>2. R \in SUBSET Nat
  BY <1>1
<1>3. m \in R /\ \A i \in R : m <= i
  BY <1>2, MinIn
<1> HIDE DEF m
<1>4. /\ m \in n + 1 .. Len(o) /\ m \in 1 .. Len(o) /\ o[m] \in Valid /\ m - 1 \in Nat
      /\ n \in Nat /\ n <= m - 1 /\ m \in 1 .. Len(Order) + 1
  BY <1>1, <1>3
<1>5. \A i \in n + 1 .. m - 1 : o[i] \notin Valid
  BY <1>1, <1>3, <1>4
<1>6. ValidIn(o, m - 1) = ValidIn(o, n)
  BY <1>4, <1>5, ValidSkip
<1>7. /\ \A i, j \in DOMAIN e : e[i][1] = e[j][1] => i = j
      /\ \A i \in DOMAIN e : ~e[i][2]
      /\ NamesOf(e) = ValidIn(o, n) /\ Len(e) <= n /\ Len(e) \in Nat
  BY DEF EntryInv, Logged
<1>8. Len(e) <= m - 1 /\ Len(e) <= m
  BY <1>4, <1>7
<1>9. OrderInv("call", o, m, e)
  BY <1>1, <1>4 DEF OrderInv, Unrouted
<1>10. EntryInv("call", o, m, e)
  BY <1>6, <1>7, <1>8 DEF EntryInv, Unlogged, Logged
<1> QED
  BY <1>4, <1>9, <1>10 DEF m

\* A step of one call is none of another's.
LEMMA OthersWait ==
  ASSUME RouteTypeOK, NEW c \in Call, Step(c), NEW d \in Call, d # c
  PROVE  /\ pc'[d] = pc[d] /\ order'[d] = order[d] /\ idx'[d] = idx[d]
         /\ good'[d] = good[d] /\ entries'[d] = entries[d] /\ seen'[d] = seen[d]
<1> USE DEF RouteTypeOK, callVars, statVars
<1>1. CASE ensureLoaded(c) \/ Loaded(c)
  BY <1>1 DEF ensureLoaded, Loaded
<1>2. CASE routeTask(c) \/ LogSelection(c)
  BY <1>2 DEF routeTask, LogSelection
<1>3. CASE Answered(c) \/ \E r \in BOOLEAN : Failed(c, r)
  BY <1>3 DEF Answered, Failed
<1>4. CASE LogFallbackSucceeded(c)
  BY <1>4 DEF LogFallbackSucceeded, Rejected
<1>5. CASE updateOutcome(c) \/ BeginFlush(c) \/ EndFlush(c)
  BY <1>5 DEF updateOutcome, BeginFlush, EndFlush
<1>6. CASE FlushFails(c)
  BY <1>6 DEF FlushFails, Rejected
<1>7. CASE logProviderOutcome(c)
  BY <1>7 DEF logProviderOutcome, Rejected
<1>8. CASE LogFallback(c) \/ NextProvider(c) \/ Exhausted(c)
  BY <1>8 DEF LogFallback, NextProvider, Exhausted
<1> QED
  BY <1>1, <1>2, <1>3, <1>4, <1>5, <1>6, <1>7, <1>8 DEF Step

\* A rejection goes back to the bookkeeping or ends the call.
LEMMA RejectedMoves ==
  ASSUME RouteTypeOK, NEW c \in Call, Rejected(c)
  PROVE  /\ pc' \in [Call -> States] /\ pc'[c] \in {"count", "thrown"}
         /\ good' \in [Call -> BOOLEAN] /\ retry' \in [Call -> BOOLEAN]
BY DEF Rejected, RouteTypeOK, States

LEMMA LogMoves ==
  ASSUME RouteTypeOK, NEW c \in Call, LogWorks(c) \/ LogFails(c)
  PROVE  faults' \in 0 .. MaxFault /\ broken' \in SUBSET Call
<1>1. MaxFault \in Nat
  BY AgentRouterAssumption
<1> QED
  BY <1>1 DEF LogWorks, LogFails, RouteTypeOK

LEMMA BumpType ==
  ASSUME NEW cnt \in Count, NEW ok \in BOOLEAN
  PROVE  Bump(cnt, ok) \in Count
BY DEF Bump, Count

LEMMA RouteTypeInit ==
  ASSUME RouteInit
  PROVE  RouteTypeOK
<1>1. NoCounts \in [Provider -> Count]
  BY DEF NoCounts, Count
<1>2. [NoCounts EXCEPT ![BestProvider].s = 1] \in [Provider -> Count]
  <2>1. \A p \in Provider : [NoCounts[p] EXCEPT !.s = 1] \in Count
    BY <1>1 DEF Count
  <2> QED
    BY <1>1, <2>1
<1>3. file \in {Torn} \cup [Provider -> Count] /\ base \in [Provider -> Count]
  BY <1>1, <1>2 DEF RouteInit
<1>4. MaxFault \in Nat /\ Len(Order) \in Nat
  BY AgentRouterAssumption
<1>5. 1 \in 1 .. Len(Order) + 1 /\ 0 \in 0 .. MaxFault
  BY <1>4
<1>6. << >> \in Seq(Call) /\ << >> \in Seq(Provider) /\ << >> \in Seq(Provider \X BOOLEAN)
  OBVIOUS
<1>7. /\ order \in [Call -> Seq(Provider)] /\ entries \in [Call -> Seq(Provider \X BOOLEAN)]
      /\ seen \in [Call -> {Torn} \cup [Provider -> Count]] /\ queue \in Seq(Call)
  BY <1>6 DEF RouteInit
<1> QED
  BY <1>1, <1>3, <1>5, <1>7 DEF RouteInit, RouteTypeOK, States

LEMMA RouteTypeStep ==
  ASSUME RouteTypeOK, CallInv, NEW c \in Call, Step(c)
  PROVE  RouteTypeOK'
<1> USE DEF RouteTypeOK, callVars, statVars
<1>0. /\ OrderInv(pc[c], order[c], idx[c], entries[c])
      /\ EntryInv(pc[c], order[c], idx[c], entries[c])
  BY DEF CallInv
<1>1. CASE ensureLoaded(c)
  <2>1. pc' \in [Call -> States]
    BY <1>1 DEF ensureLoaded, States
  <2>2. seen' \in [Call -> {Torn} \cup [Provider -> Count]]
    BY <1>1 DEF ensureLoaded
  <2> QED
    BY <1>1, <2>1, <2>2 DEF ensureLoaded
<1>2. CASE Loaded(c)
  <2>1. map' \in [Provider -> Count]
    BY <1>2 DEF Loaded, Torn
  <2>2. seen' \in [Call -> {Torn} \cup [Provider -> Count]]
    BY <1>2 DEF Loaded
  <2>3. pc' \in [Call -> States] /\ stale' \in BOOLEAN /\ loaded' \in BOOLEAN
    BY <1>2 DEF Loaded, States
  <2> QED
    BY <1>2, <2>1, <2>2, <2>3 DEF Loaded
<1>3. CASE routeTask(c)
  <2>1. PICK p \in Picks : order' = [order EXCEPT ![c] = <<p>> \o Without(Order, p)]
    BY <1>3 DEF routeTask
  <2>2. <<p>> \o Without(Order, p) \in Seq(Provider)
    BY <2>1, PicksValid, OrderOf DEF IsOrder
  <2>3. order' \in [Call -> Seq(Provider)]
    BY <2>1, <2>2
  <2> QED
    BY <1>3, <2>3 DEF routeTask, States
<1>4. CASE LogSelection(c)
  <2>1. faults' \in 0 .. MaxFault
    BY <1>4, AgentRouterAssumption DEF LogSelection
  <2> QED
    BY <1>4, <2>1 DEF LogSelection, States
<1>5. CASE Answered(c)
  BY <1>5 DEF Answered, States
<1>6. ASSUME NEW r \in BOOLEAN, Failed(c, r)
      PROVE  RouteTypeOK'
  BY <1>6 DEF Failed, States
<1>7. CASE LogFallbackSucceeded(c)
  <2>1. faults' \in 0 .. MaxFault /\ broken' \in SUBSET Call
    BY <1>7, LogMoves DEF LogFallbackSucceeded
  <2>2. pc' \in [Call -> States] /\ good' \in [Call -> BOOLEAN] /\ retry' \in [Call -> BOOLEAN]
    BY <1>7, RejectedMoves DEF LogFallbackSucceeded, States
  <2> QED
    BY <1>7, <2>1, <2>2 DEF LogFallbackSucceeded
<1>8. CASE updateOutcome(c)
  <2>1. map' \in [Provider -> Count]
    BY <1>8, BumpType DEF updateOutcome
  <2> QED
    BY <1>8, <2>1 DEF updateOutcome, States
<1>9. CASE BeginFlush(c)
  BY <1>9 DEF BeginFlush
<1>10. CASE EndFlush(c)
  <2>1. queue' \in Seq(Call)
    <3>1. CASE queue = << >>
      BY <1>10, <3>1 DEF EndFlush
    <3>2. CASE queue # << >>
      BY <1>10, <3>2 DEF EndFlush
    <3> QED
      BY <3>1, <3>2
  <2> QED
    BY <1>10, <2>1 DEF EndFlush, States
<1>11. CASE FlushFails(c)
  <2>1. queue' \in Seq(Call) /\ payload' = Torn /\ poisoned' \in BOOLEAN
    <3>1. CASE queue = << >>
      BY <1>11, <3>1 DEF FlushFails
    <3>2. CASE queue # << >>
      BY <1>11, <3>2 DEF FlushFails
    <3> QED
      BY <3>1, <3>2
  <2>2. faults' \in 0 .. MaxFault
    BY <1>11, AgentRouterAssumption DEF FlushFails
  <2>3. pc' \in [Call -> States] /\ good' \in [Call -> BOOLEAN] /\ retry' \in [Call -> BOOLEAN]
    BY <1>11, RejectedMoves DEF FlushFails
  <2> QED
    BY <1>11, <2>1, <2>2, <2>3 DEF FlushFails
<1>12. CASE logProviderOutcome(c)
  <2>1. faults' \in 0 .. MaxFault /\ broken' \in SUBSET Call
    BY <1>12, LogMoves DEF logProviderOutcome
  <2>2. pc' \in [Call -> States] /\ good' \in [Call -> BOOLEAN] /\ retry' \in [Call -> BOOLEAN]
    BY <1>12, RejectedMoves DEF logProviderOutcome, States, Outcome
  <2>3. entries' \in [Call -> Seq(Provider \X BOOLEAN)]
    <3>1. CASE entries' = [entries EXCEPT ![c] = Append(@, <<Tried(c), good[c]>>)]
      <4>1. idx[c] \in 1 .. Len(order[c]) /\ Tried(c) \in Provider
        BY <1>0, <1>12 DEF logProviderOutcome, OrderInv, Unrouted, Tried
      <4>2. Append(entries[c], <<Tried(c), good[c]>>) \in Seq(Provider \X BOOLEAN)
        BY <4>1
      <4> QED
        BY <3>1, <4>2
    <3> QED
      BY <1>12, <3>1 DEF logProviderOutcome
  <2> QED
    BY <1>12, <2>1, <2>2, <2>3 DEF logProviderOutcome
<1>13. CASE LogFallback(c)
  BY <1>13, LogMoves DEF LogFallback, States
<1>14. CASE NextProvider(c)
  <2>1. Min(Rest(c)) \in 1 .. Len(Order) + 1
    <3>1. pc[c] = "next" /\ Rest(c) # {} /\ entries[c] \in Seq(Provider \X BOOLEAN)
      BY <1>14 DEF NextProvider
    <3>2. Rest(c) = {i \in idx[c] + 1 .. Len(order[c]) : order[c][i] \in Valid}
      BY DEF Rest
    <3>3. OrderInv("next", order[c], idx[c], entries[c]) /\ EntryInv("next", order[c], idx[c], entries[c])
      BY <1>0, <3>1
    <3> HIDE DEF RouteTypeOK
    <3> QED
      BY <3>1, <3>2, <3>3, CallTurns
  <2> QED
    BY <1>14, <2>1 DEF NextProvider, States
<1>15. CASE Exhausted(c)
  BY <1>15, LogMoves DEF Exhausted, States
<1> QED
  BY <1>1, <1>2, <1>3, <1>4, <1>5, <1>6, <1>7, <1>8, <1>9, <1>10, <1>11, <1>12, <1>13,
     <1>14, <1>15 DEF Step

\* A step keeps what is known of the call that takes it.
LEMMA OwnStep ==
  ASSUME RouteTypeOK, CallInv, NEW c \in Call, Step(c)
  PROVE  /\ OrderInv(pc'[c], order'[c], idx'[c], entries'[c])
         /\ EntryInv(pc'[c], order'[c], idx'[c], entries'[c])
<1> DEFINE s == pc[c]
           o == order[c]
           n == idx[c]
           e == entries[c]
           Kept == order'[c] = o /\ idx'[c] = n /\ entries'[c] = e
<1>0. OrderInv(s, o, n, e) /\ EntryInv(s, o, n, e) /\ e \in Seq(Provider \X BOOLEAN)
  BY DEF CallInv, RouteTypeOK
<1>1. ASSUME Kept,
             \/ s \in {"new", "reading"} /\ pc'[c] \in Unrouted
             \/ s \in Unlogged /\ pc'[c] \in (Unlogged \ {"log"}) \cup {"thrown"}
             \/ s \in {"fallback", "next"} /\ pc'[c] \in {"next", "thrown"}
             \/ s = "next" /\ pc'[c] = "exhausted" /\ \A i \in n + 1 .. Len(o) : o[i] \notin Valid
      PROVE  /\ OrderInv(pc'[c], order'[c], idx'[c], entries'[c])
             /\ EntryInv(pc'[c], order'[c], idx'[c], entries'[c])
  <2>1. OrderInv(pc'[c], o, n, e) /\ EntryInv(pc'[c], o, n, e)
    BY <1>0, <1>1, CallGoesOn
  <2> QED
    BY <1>1, <2>1
<1> USE DEF RouteTypeOK, callVars, statVars
<1>2. CASE ensureLoaded(c) \/ Loaded(c)
  <2>1. Kept /\ s \in {"new", "reading"} /\ pc'[c] \in Unrouted
    BY <1>2 DEF ensureLoaded, Loaded, Unrouted
  <2> QED
    BY <1>1, <2>1
<1>3. CASE routeTask(c)
  <2>1. PICK p \in Picks : order' = [order EXCEPT ![c] = <<p>> \o Without(Order, p)]
    BY <1>3 DEF routeTask
  <2>2. IsOrder(order'[c])
    BY <2>1, PicksValid, OrderOf
  <2>3. s = "pick" /\ pc'[c] = "log" /\ idx'[c] = n /\ entries'[c] = e
    BY <1>3 DEF routeTask
  <2> QED
    BY <1>0, <2>2, <2>3, CallRouted
<1>4. CASE LogSelection(c) \/ Answered(c)
  <2>1. Kept /\ s \in Unlogged /\ pc'[c] \in (Unlogged \ {"log"}) \cup {"thrown"}
    BY <1>4 DEF LogSelection, Answered, Unlogged
  <2> QED
    BY <1>1, <2>1
<1>5. CASE \E r \in BOOLEAN : Failed(c, r)
  <2>1. Kept /\ s \in Unlogged /\ pc'[c] \in (Unlogged \ {"log"}) \cup {"thrown"}
    BY <1>5 DEF Failed, Unlogged
  <2> QED
    BY <1>1, <2>1
<1>6. CASE LogFallbackSucceeded(c)
  <2>1. Kept /\ s \in Unlogged /\ pc'[c] \in (Unlogged \ {"log"}) \cup {"thrown"}
    BY <1>6, RejectedMoves DEF LogFallbackSucceeded, Unlogged
  <2> QED
    BY <1>1, <2>1
<1>7. CASE updateOutcome(c) \/ BeginFlush(c) \/ EndFlush(c)
  <2>1. Kept /\ s \in Unlogged /\ pc'[c] \in (Unlogged \ {"log"}) \cup {"thrown"}
    BY <1>7 DEF updateOutcome, BeginFlush, EndFlush, Unlogged
  <2> QED
    BY <1>1, <2>1
<1>8. CASE FlushFails(c)
  <2>1. Kept /\ s \in Unlogged /\ pc'[c] \in (Unlogged \ {"log"}) \cup {"thrown"}
    BY <1>8, RejectedMoves DEF FlushFails, Unlogged
  <2> QED
    BY <1>1, <2>1
<1>9. CASE logProviderOutcome(c)
  <2>1. s = "entry" /\ order'[c] = o /\ idx'[c] = n
    BY <1>9 DEF logProviderOutcome
  <2>2. CASE /\ entries' = [entries EXCEPT ![c] = Append(@, <<Tried(c), good[c]>>)]
             /\ pc' = [pc EXCEPT ![c] = Outcome(c)]
    <3>1. entries'[c] = Append(e, <<o[n], good[c]>>) /\ pc'[c] = Outcome(c)
      BY <2>2 DEF Tried
    <3>2. IF good[c] THEN pc'[c] = "returned" ELSE pc'[c] \in {"next", "fallback", "thrown"}
      BY <3>1 DEF Outcome
    <3>3. good[c] \in BOOLEAN
      OBVIOUS
    <3> HIDE DEF RouteTypeOK, callVars, statVars
    <3>4. OrderInv("entry", o, n, e) /\ EntryInv("entry", o, n, e)
      BY <1>0, <2>1
    <3>5. /\ OrderInv(pc'[c], o, n, Append(e, <<o[n], good[c]>>))
          /\ EntryInv(pc'[c], o, n, Append(e, <<o[n], good[c]>>))
      <4> HIDE DEF o, n, e
      <4> QED
        BY <1>0, <3>2, <3>3, <3>4, CallRecords
    <3> QED
      BY <2>1, <3>1, <3>5
  <2>3. CASE Rejected(c) /\ UNCHANGED entries
    <3>1. Kept /\ s \in Unlogged /\ pc'[c] \in (Unlogged \ {"log"}) \cup {"thrown"}
      BY <2>1, <2>3, RejectedMoves DEF Unlogged
    <3> QED
      BY <1>1, <3>1
  <2> QED
    BY <1>9, <2>2, <2>3 DEF logProviderOutcome
<1>10. CASE LogFallback(c)
  <2>1. Kept /\ s \in {"fallback", "next"} /\ pc'[c] \in {"next", "thrown"}
    BY <1>10 DEF LogFallback
  <2> QED
    BY <1>1, <2>1
<1>11. CASE NextProvider(c)
  <2>1. /\ s = "next" /\ pc'[c] = "call" /\ order'[c] = o /\ entries'[c] = e
        /\ idx'[c] = Min(Rest(c)) /\ Rest(c) # {}
    BY <1>11 DEF NextProvider
  <2>2. Rest(c) = {i \in n + 1 .. Len(o) : o[i] \in Valid}
    BY DEF Rest
  <2> HIDE DEF RouteTypeOK, callVars, statVars
  <2>3. OrderInv("next", o, n, e) /\ EntryInv("next", o, n, e)
    BY <1>0, <2>1
  <2>4. OrderInv("call", o, Min(Rest(c)), e) /\ EntryInv("call", o, Min(Rest(c)), e)
    BY <1>0, <2>1, <2>2, <2>3, CallTurns
  <2> QED
    BY <2>1, <2>4
<1>12. CASE Exhausted(c)
  <2>1. Kept /\ s = "next" /\ pc'[c] = "exhausted" /\ Rest(c) = {}
    BY <1>12 DEF Exhausted
  <2>2. \A i \in n + 1 .. Len(o) : o[i] \notin Valid
    BY <2>1 DEF Rest
  <2> QED
    BY <1>1, <2>1, <2>2
<1> QED
  BY <1>2, <1>3, <1>4, <1>5, <1>6, <1>7, <1>8, <1>9, <1>10, <1>11, <1>12 DEF Step

LEMMA CallStep ==
  ASSUME RouteTypeOK, CallInv, NEW c \in Call, Step(c)
  PROVE  CallInv'
<1> SUFFICES ASSUME NEW d \in Call
             PROVE  /\ OrderInv(pc'[d], order'[d], idx'[d], entries'[d])
                    /\ EntryInv(pc'[d], order'[d], idx'[d], entries'[d])
  BY DEF CallInv
<1>1. CASE d = c
  BY <1>1, OwnStep
<1>2. CASE d # c
  <2>1. pc'[d] = pc[d] /\ order'[d] = order[d] /\ idx'[d] = idx[d] /\ entries'[d] = entries[d]
    BY <1>2, OthersWait
  <2>2. OrderInv(pc[d], order[d], idx[d], entries[d]) /\ EntryInv(pc[d], order[d], idx[d], entries[d])
    BY DEF CallInv
  <2> QED
    BY <2>1, <2>2
<1> QED
  BY <1>1, <1>2

LEMMA CallInit ==
  ASSUME RouteInit
  PROVE  CallInv
<1> SUFFICES ASSUME NEW c \in Call
             PROVE  OrderInv("new", << >>, 1, << >>) /\ EntryInv("new", << >>, 1, << >>)
  BY DEF CallInv, RouteInit
<1> DEFINE z == << >>
<1>1. DOMAIN z = {} /\ Len(z) <= 1 /\ z = << >>
  OBVIOUS
<1> HIDE DEF z
<1>2. OrderInv("new", z, 1, z)
  BY <1>1 DEF OrderInv, Unrouted
<1>3. EntryInv("new", z, 1, z)
  BY <1>1 DEF EntryInv, Unlogged, Logged
<1> QED
  BY <1>1, <1>2, <1>3

LEMMA RouteInductive == RouteSpec => [](RouteTypeOK /\ CallInv)
<1>1. RouteTypeOK /\ CallInv /\ [RouteNext]_routeVars => RouteTypeOK' /\ CallInv'
  <2> SUFFICES ASSUME RouteTypeOK, CallInv, [RouteNext]_routeVars
               PROVE  RouteTypeOK' /\ CallInv'
    OBVIOUS
  <2>1. CASE RouteNext
    BY <2>1, RouteTypeStep, CallStep DEF RouteNext
  <2>2. CASE UNCHANGED routeVars
    BY <2>2 DEF routeVars, callVars, statVars, RouteTypeOK, CallInv
  <2> QED
    BY <2>1, <2>2
<1> QED
  BY <1>1, RouteTypeInit, CallInit, PTL DEF RouteSpec

\* Types of routed calls and of the statistics they share, for any providers,
\* fallback order and number of failing writes.
THEOREM RouteTypeCorrect == RouteSpec => []RouteTypeOK
BY RouteInductive, PTL

\* routeTaskWithFallback returns a response exactly when the ledger of the call
\* has a success entry, which is then its last and names the provider whose turn
\* it was.
THEOREM OneSuccess == RouteSpec => []OneSuccessEntry
<1>1. RouteTypeOK /\ CallInv => OneSuccessEntry
  <2> SUFFICES ASSUME RouteTypeOK, CallInv, NEW c \in Call
               PROVE  /\ pc[c] = "returned" <=> \E i \in DOMAIN entries[c] : entries[c][i][2]
                      /\ pc[c] = "returned" =>
                           \A i \in DOMAIN entries[c] :
                             entries[c][i][2] <=> i = Len(entries[c]) /\ entries[c][i][1] = Tried(c)
    BY DEF OneSuccessEntry
  <2> DEFINE e == entries[c]
  <2>1. EntryInv(pc[c], order[c], idx[c], e) /\ e \in Seq(Provider \X BOOLEAN)
    BY DEF CallInv, RouteTypeOK
  <2>2. CASE pc[c] # "returned"
    BY <2>1, <2>2 DEF EntryInv
  <2>3. CASE pc[c] = "returned"
    <3>1. /\ Len(e) > 0 /\ e[Len(e)] = <<Tried(c), TRUE>>
          /\ \A i \in 1 .. Len(e) - 1 : ~e[i][2]
      BY <2>1, <2>3 DEF EntryInv, Tried
    <3>2. Len(e) \in DOMAIN e /\ \A i \in DOMAIN e : i # Len(e) => i \in 1 .. Len(e) - 1
      BY <2>1, <3>1
    <3>3. e[Len(e)][2] /\ e[Len(e)][1] = Tried(c)
      BY <3>1
    <3>4. \A i \in DOMAIN e : e[i][2] => i = Len(e)
      BY <3>1, <3>2
    <3> QED
      BY <2>3, <3>2, <3>3, <3>4, Zenon
  <2> QED
    BY <2>2, <2>3
<1> QED
  BY <1>1, RouteInductive, PTL

\* A call gives up with task_exhausted only after its primary provider and every
\* provider of the role with a token has failed it, each exactly once.
THEOREM ExhaustedLast == RouteSpec => []ExhaustedAfterAll
<1>1. RouteTypeOK /\ CallInv => ExhaustedAfterAll
  <2> SUFFICES ASSUME RouteTypeOK, CallInv, NEW c \in Call, pc[c] = "exhausted"
               PROVE  LET tried == {order[c][1]} \cup (ToSet(Order) \cap Valid)
                      IN  /\ {entries[c][i] : i \in DOMAIN entries[c]} = tried \X {FALSE}
                          /\ Len(entries[c]) = Cardinality(tried)
    BY DEF ExhaustedAfterAll
  <2> DEFINE e == entries[c]
             o == order[c]
             tried == {o[1]} \cup (ToSet(Order) \cap Valid)
  <2>1. /\ IsOrder(o) /\ idx[c] \in 1 .. Len(o) /\ o \in Seq(Provider)
        /\ \A i \in idx[c] + 1 .. Len(o) : o[i] \notin Valid
        /\ e \in Seq(Provider \X BOOLEAN)
    BY DEF CallInv, RouteTypeOK, OrderInv, Unrouted
  <2>2. /\ \A i, j \in DOMAIN e : e[i][1] = e[j][1] => i = j
        /\ \A i \in DOMAIN e : ~e[i][2]
        /\ NamesOf(e) = ValidIn(o, idx[c])
    BY DEF CallInv, EntryInv, Logged
  <2> HIDE DEF e, o
  <2>3. ValidIn(o, idx[c]) = ValidIn(o, Len(o))
    BY <2>1, ValidSkip
  <2>4. ValidIn(o, Len(o)) = ToSet(o) \cap Valid
    BY <2>1 DEF ValidIn, ToSet
  <2>5. NamesOf(e) = tried
    BY <2>1, <2>2, <2>3, <2>4 DEF IsOrder
  <2>6. \A i \in DOMAIN e : e[i] = <<e[i][1], FALSE>>
    <3>1. \A x \in Provider \X BOOLEAN : x = <<x[1], x[2]>> /\ x[2] \in BOOLEAN
      OBVIOUS
    <3>2. \A i \in DOMAIN e : e[i] \in Provider \X BOOLEAN
      BY <2>1
    <3>3. \A x \in Provider \X BOOLEAN : ~x[2] => x = <<x[1], FALSE>>
      <4> SUFFICES ASSUME NEW x \in Provider \X BOOLEAN, ~x[2] PROVE x = <<x[1], FALSE>>
        OBVIOUS
      <4>1. x[2] = FALSE
        BY <3>1
      <4> QED
        BY <3>1, <4>1
    <3> QED
      BY <2>2, <3>2, <3>3
  <2>7. {e[i] : i \in DOMAIN e} = tried \X {FALSE}
    <3>1. \A i \in DOMAIN e : e[i][1] \in tried
      BY <2>5 DEF NamesOf
    <3>2. \A y \in tried : \E i \in DOMAIN e : e[i][1] = y
      BY <2>5 DEF NamesOf
    <3> HIDE DEF tried
    <3>3. \A i \in DOMAIN e : e[i] \in tried \X {FALSE}
      <4>1. \A y \in tried : <<y, FALSE>> \in tried \X {FALSE}
        OBVIOUS
      <4> QED
        BY <2>6, <3>1, <4>1, Zenon
    <3>4. \A y \in tried : \E i \in DOMAIN e : e[i] = <<y, FALSE>>
      BY <2>6, <3>2
    <3>5. ASSUME NEW z \in tried \X {FALSE} PROVE \E y \in tried : z = <<y, FALSE>>
      <4>1. ASSUME NEW A, NEW B, NEW w \in A \X B
            PROVE  w[1] \in A /\ w = <<w[1], w[2]>> /\ w[2] \in B
        OBVIOUS
      <4>2. z[1] \in tried /\ z = <<z[1], z[2]>> /\ z[2] \in {FALSE}
        BY <4>1, Zenon
      <4>3. z[2] = FALSE
        BY <4>2, Zenon
      <4> QED
        BY <4>2, <4>3, Zenon
    <3>6. ASSUME NEW z \in tried \X {FALSE} PROVE z \in {e[i] : i \in DOMAIN e}
      <4>1. PICK y \in tried : z = <<y, FALSE>>
        BY <3>5
      <4>2. PICK i \in DOMAIN e : e[i] = <<y, FALSE>>
        BY <3>4
      <4> QED
        BY <4>1, <4>2, Zenon
    <3> QED
      BY <3>3, <3>6, Zenon
  <2>8. Len(e) = Cardinality(tried)
    <3> DEFINE f == [i \in 1 .. Len(e) |-> e[i][1]]
    <3>1. Len(e) \in Nat /\ DOMAIN e = 1 .. Len(e)
      BY <2>1
    <3>2. f \in Injection(1 .. Len(e), tried)
      BY <2>2, <2>5, <3>1 DEF NamesOf, Injection, IsInjective
    <3>3. f \in Surjection(1 .. Len(e), tried)
      BY <2>5, <3>1 DEF NamesOf, Surjection
    <3>4. ExistsBijection(1 .. Len(e), tried)
      BY <3>2, <3>3 DEF ExistsBijection, Bijection
    <3> HIDE DEF tried, f
    <3> QED
      BY <3>1, <3>4, FS_CountingElements
  <2> QED
    BY <2>7, <2>8 DEF e, o
<1> QED
  BY <1>1, RouteInductive, PTL

-----------------------------------------------------------------------------
(***************************************************************************)
(* The statistics.                                                         *)
(***************************************************************************)

\* Steps that touch neither the statistics nor the entries.
Quiet(c) == /\ UNCHANGED <<statVars, entries>>
            /\ pc[c] \notin {"flush", "entry"} /\ pc'[c] \notin {"flush", "entry"}

LEMMA StepKinds ==
  ASSUME RouteTypeOK, NEW c \in Call, Step(c)
  PROVE  \/ Quiet(c) \/ Loaded(c) \/ updateOutcome(c)
         \/ BeginFlush(c) \/ EndFlush(c) \/ FlushFails(c) \/ logProviderOutcome(c)
<1> USE DEF RouteTypeOK, Quiet, statVars
<1>1. CASE ensureLoaded(c)
  BY <1>1 DEF ensureLoaded
<1>2. CASE routeTask(c)
  BY <1>2 DEF routeTask
<1>3. CASE LogSelection(c)
  BY <1>3 DEF LogSelection
<1>4. CASE Answered(c)
  BY <1>4 DEF Answered
<1>5. CASE \E r \in BOOLEAN : Failed(c, r)
  BY <1>5 DEF Failed
<1>6. CASE LogFallbackSucceeded(c)
  <2>1. pc'[c] \in {"count", "thrown"}
    BY <1>6, RejectedMoves DEF LogFallbackSucceeded
  <2> QED
    BY <1>6, <2>1 DEF LogFallbackSucceeded
<1>7. CASE LogFallback(c)
  BY <1>7 DEF LogFallback
<1>8. CASE NextProvider(c)
  BY <1>8 DEF NextProvider
<1>9. CASE Exhausted(c)
  BY <1>9 DEF Exhausted
<1> QED
  BY <1>1, <1>2, <1>3, <1>4, <1>5, <1>6, <1>7, <1>8, <1>9 DEF Step

\* Failing writes are only counted up; without one nothing is rejected.
LEMMA FaultsGrow ==
  ASSUME RouteTypeOK, NEW c \in Call, Step(c)
  PROVE  faults' >= faults
<1>0. faults \in Int
  BY DEF RouteTypeOK
<1>1. CASE LogWorks(c) \/ LogFails(c)
  BY <1>0, <1>1 DEF LogWorks, LogFails
<1>2. CASE LogSelection(c) \/ FlushFails(c)
  BY <1>0, <1>2 DEF LogSelection, FlushFails
<1>3. CASE UNCHANGED faults
  BY <1>0, <1>3
<1> QED
  BY <1>1, <1>2, <1>3 DEF Step, ensureLoaded, Loaded, routeTask, Answered, Failed,
     LogFallbackSucceeded, updateOutcome, BeginFlush, EndFlush, logProviderOutcome,
     LogFallback, NextProvider, Exhausted

LEMMA Faultless ==
  ASSUME RouteTypeOK, FaultInv, NEW c \in Call, Step(c), faults' = 0
  PROVE  faults = 0 /\ ~LogFails(c) /\ ~FlushFails(c)
<1>1. faults = 0
  BY FaultsGrow DEF RouteTypeOK
<1> QED
  BY <1>1 DEF FaultInv, LogFails, FlushFails

\* Before the first read has ended there are only reads.
LEMMA FirstReads ==
  ASSUME LoadedInv, ~loaded, NEW c \in Call, Step(c)
  PROVE  Loaded(c) \/ (ensureLoaded(c) /\ pc[c] = "new")
<1>1. pc[c] \in {"new", "reading"}
  BY DEF LoadedInv
<1> QED
  BY <1>1 DEF Step, ensureLoaded, routeTask, LogSelection, Answered, Failed, LogFallbackSucceeded,
     updateOutcome, BeginFlush, EndFlush, FlushFails, logProviderOutcome, LogFallback,
     NextProvider, Exhausted

LEMMA LoadedStep ==
  ASSUME RouteTypeOK, LoadedInv, NEW c \in Call, Step(c)
  PROVE  LoadedInv'
<1>1. CASE loaded
  <2>1. loaded'
    <3>1. CASE Loaded(c)
      BY <3>1 DEF Loaded
    <3>2. CASE ~Loaded(c)
      BY <1>1, <3>2, StepKinds DEF Quiet, statVars, updateOutcome, BeginFlush, EndFlush,
         FlushFails, logProviderOutcome
    <3> QED
      BY <3>1, <3>2
  <2> QED
    BY <2>1 DEF LoadedInv
<1>2. CASE ~loaded /\ Loaded(c)
  BY <1>2 DEF LoadedInv, Loaded
<1>3. CASE ~loaded /\ ensureLoaded(c)
  <2>1. /\ UNCHANGED statVars /\ pc' = [pc EXCEPT ![c] = "reading"]
        /\ seen' = [seen EXCEPT ![c] = file]
    BY <1>3 DEF ensureLoaded
  <2>2. /\ \A d \in Call : pc[d] \in {"new", "reading"}
        /\ \A d \in Call : pc[d] = "reading" => seen[d] = file
    BY <1>3 DEF LoadedInv
  <2>3. /\ \A d \in Call : pc'[d] \in {"new", "reading"}
        /\ \A d \in Call : pc'[d] = "reading" => seen'[d] = file'
    BY <2>1, <2>2 DEF RouteTypeOK, statVars
  <2> QED
    BY <1>3, <2>1, <2>3 DEF LoadedInv, statVars
<1> QED
  BY <1>1, <1>2, <1>3, FirstReads

LEMMA LoadedInitInv ==
  ASSUME RouteInit
  PROVE  LoadedInv
BY DEF RouteInit, LoadedInv

\* A call joins the write queue at its end and leaves it at its head.
LEMMA QueueAppend ==
  ASSUME NEW q \in Seq(Call), IsInjective(q), NEW x \in Call, x \notin ToSet(q)
  PROVE  /\ IsInjective(Append(q, x)) /\ ToSet(Append(q, x)) = ToSet(q) \cup {x}
         /\ Append(q, x) # << >>
<1> DEFINE a == Append(q, x)
<1>1. /\ Len(q) \in Nat /\ DOMAIN q = 1 .. Len(q) /\ DOMAIN a = 1 .. Len(q) + 1
      /\ a[Len(q) + 1] = x /\ \A i \in 1 .. Len(q) : a[i] = q[i]
      /\ Append(q, x) # << >>
  OBVIOUS
<1>q. \A i \in DOMAIN q : q[i] # x
  BY DEF ToSet
<1> HIDE DEF a
<1>2. \A i \in DOMAIN a : i \in DOMAIN q \/ i = Len(q) + 1
  BY <1>1
<1>3. IsInjective(a)
  BY <1>1, <1>q, <1>2 DEF IsInjective
<1>4. ToSet(a) = ToSet(q) \cup {x}
  <2>1. Len(q) + 1 \in DOMAIN a /\ \A i \in DOMAIN q : i \in DOMAIN a
    BY <1>1
  <2> QED
    BY <1>1, <1>2, <2>1 DEF ToSet
<1> QED
  BY <1>1, <1>3, <1>4 DEF a

LEMMA QueueTail ==
  ASSUME NEW q \in Seq(Call), IsInjective(q), q # << >>
  PROVE  IsInjective(Tail(q)) /\ ToSet(Tail(q)) = ToSet(q) \ {q[1]}
<1> DEFINE t == Tail(q)
<1>1. /\ Len(q) \in Nat \ {0} /\ DOMAIN q = 1 .. Len(q) /\ DOMAIN t = 1 .. Len(q) - 1
      /\ \A i \in 1 .. Len(q) - 1 : t[i] = q[i + 1]
  OBVIOUS
<1> HIDE DEF t
<1>2. \A i \in DOMAIN t : i + 1 \in DOMAIN q /\ i + 1 # 1 /\ t[i] = q[i + 1]
  BY <1>1
<1>3. IsInjective(t)
  <2>1. \A i, j \in DOMAIN t : t[i] = t[j] => i + 1 = j + 1
    BY <1>2 DEF IsInjective
  <2> QED
    BY <1>1, <2>1 DEF IsInjective
<1>4. ToSet(t) = ToSet(q) \ {q[1]}
  <2>1. 1 \in DOMAIN q /\ \A i \in DOMAIN t : t[i] \in ToSet(q) /\ t[i] # q[1]
    BY <1>1, <1>2 DEF ToSet, IsInjective
  <2>2. \A i \in DOMAIN q : i # 1 => i - 1 \in DOMAIN t /\ t[i - 1] = q[i]
    BY <1>1
  <2> QED
    BY <2>1, <2>2 DEF ToSet
<1> QED
  BY <1>3, <1>4 DEF t

LEMMA QueueStep ==
  ASSUME RouteTypeOK, LoadedInv, QueueInv, NEW c \in Call, Step(c)
  PROVE  QueueInv'
<1>0. /\ IsInjective(queue) /\ queue \in Seq(Call)
      /\ \A d \in Call : pc[d] = "flush" <=> d \in ToSet(queue)
      /\ payload # Torn => queue # << >>
  BY DEF QueueInv, RouteTypeOK
<1>a. \A d \in Call : d # c => pc'[d] = pc[d]
  BY OthersWait
<1>b. ToSet(queue) \subseteq Call
  BY <1>0 DEF ToSet
<1>1. ASSUME UNCHANGED <<queue, payload>>, pc[c] # "flush", pc'[c] # "flush"
      PROVE  QueueInv'
  <2>1. \A d \in Call : pc'[d] = "flush" <=> d \in ToSet(queue)
    BY <1>0, <1>1, <1>a
  <2> QED
    BY <1>0, <1>1, <2>1 DEF QueueInv
<1>2. CASE Quiet(c) \/ Loaded(c) \/ logProviderOutcome(c)
  <2>1. UNCHANGED <<queue, payload>> /\ pc[c] # "flush"
    BY <1>2 DEF Quiet, Loaded, logProviderOutcome, statVars
  <2>2. pc'[c] # "flush"
    <3>1. CASE logProviderOutcome(c)
      BY <3>1, RejectedMoves DEF logProviderOutcome, Outcome, RouteTypeOK
    <3>2. CASE Quiet(c) \/ Loaded(c)
      BY <3>2 DEF Quiet, Loaded, RouteTypeOK
    <3> QED
      BY <1>2, <3>1, <3>2
  <2> QED
    BY <1>1, <2>1, <2>2
<1>3. CASE updateOutcome(c)
  <2>1. pc[c] = "count" /\ pc'[c] = "flush" /\ queue' = Append(queue, c) /\ payload' = payload
    BY <1>3 DEF updateOutcome, RouteTypeOK
  <2>2. c \notin ToSet(queue)
    BY <1>0, <2>1
  <2>3. IsInjective(queue') /\ ToSet(queue') = ToSet(queue) \cup {c} /\ queue' # << >>
    BY <1>0, <2>1, <2>2, QueueAppend
  <2>4. \A d \in Call : pc'[d] = "flush" <=> d \in ToSet(queue')
    BY <1>0, <1>a, <2>1, <2>3
  <2> QED
    BY <2>3, <2>4 DEF QueueInv
<1>4. CASE BeginFlush(c)
  <2>1. pc' = pc /\ queue' = queue /\ pc[c] = "flush"
    BY <1>4 DEF BeginFlush
  <2>2. queue # << >>
    BY <1>0, <2>1 DEF ToSet
  <2> QED
    BY <1>0, <2>1, <2>2 DEF QueueInv
<1>5. CASE EndFlush(c) \/ FlushFails(c)
  <2>1. pc[c] = "flush" /\ queue[1] = c /\ queue' = Tail(queue) /\ payload' = Torn
    BY <1>5 DEF EndFlush, FlushFails
  <2>2. pc'[c] # "flush"
    BY <1>5, RejectedMoves DEF EndFlush, FlushFails, RouteTypeOK
  <2>3. queue # << >>
    BY <1>0, <2>1 DEF ToSet
  <2>4. IsInjective(queue') /\ ToSet(queue') = ToSet(queue) \ {c}
    BY <1>0, <2>1, <2>3, QueueTail
  <2>5. \A d \in Call : pc'[d] = "flush" <=> d \in ToSet(queue')
    BY <1>0, <1>a, <2>2, <2>4
  <2> QED
    BY <2>1, <2>4, <2>5 DEF QueueInv
<1> QED
  BY <1>2, <1>3, <1>4, <1>5, StepKinds

LEMMA QueueInitInv ==
  ASSUME RouteInit
  PROVE  QueueInv
<1>1. IsInjective(<< >>) /\ ToSet(<< >>) = {}
  BY DEF IsInjective, ToSet
<1> QED
  BY <1>1 DEF RouteInit, QueueInv

\* Without failing writes a call that has ended has an entry.
LEMMA FaultStep ==
  ASSUME RouteTypeOK, CallInv, FaultInv, NEW c \in Call, Step(c)
  PROVE  FaultInv'
<1> SUFFICES ASSUME faults' = 0
             PROVE  /\ ~poisoned' /\ broken' = {}
                    /\ \A d \in Call : pc'[d] \in Done => entries'[d] # << >>
  BY DEF FaultInv
<1>0. faults = 0 /\ ~LogFails(c) /\ ~FlushFails(c)
  BY Faultless
<1>1. /\ ~poisoned /\ broken = {}
      /\ \A d \in Call : pc[d] \in Done => entries[d] # << >>
  BY <1>0 DEF FaultInv
<1>2. poisoned' = poisoned
  BY <1>0, StepKinds DEF Quiet, statVars, Loaded, updateOutcome, BeginFlush, EndFlush, logProviderOutcome
<1>3. broken' = broken
  <2>1. CASE LogWorks(c)
    BY <2>1 DEF LogWorks
  <2> QED
    BY <1>0, <2>1 DEF Step, ensureLoaded, Loaded, routeTask, LogSelection, Answered, Failed,
       LogFallbackSucceeded, updateOutcome, BeginFlush, EndFlush, logProviderOutcome,
       LogFallback, NextProvider, Exhausted
<1>4. ASSUME pc'[c] \in Done PROVE entries'[c] # << >>
  <2>1. CASE logProviderOutcome(c)
    <3>1. entries' = [entries EXCEPT ![c] = Append(@, <<Tried(c), good[c]>>)]
      BY <1>0, <2>1 DEF logProviderOutcome
    <3>2. entries'[c] = Append(entries[c], <<Tried(c), good[c]>>) /\ entries[c] \in Seq(Provider \X BOOLEAN)
      BY <3>1 DEF RouteTypeOK
    <3> QED
      BY <3>2
  <2>2. CASE Exhausted(c)
    <3>1. pc[c] = "next" /\ entries'[c] = entries[c] /\ entries[c] \in Seq(Provider \X BOOLEAN)
      BY <2>2 DEF Exhausted, RouteTypeOK
    <3>2. /\ IsOrder(order[c]) /\ idx[c] \in 1 .. Len(order[c])
          /\ NamesOf(entries[c]) = ValidIn(order[c], idx[c])
      BY <3>1 DEF CallInv, OrderInv, EntryInv, Unrouted, Logged
    <3>3. order[c][1] \in ValidIn(order[c], idx[c])
      <4>1. 1 \in 1 .. idx[c] /\ order[c][1] \in Valid
        BY <3>2 DEF IsOrder, RouteTypeOK
      <4> QED
        BY <4>1 DEF ValidIn
    <3>4. \E i \in DOMAIN entries[c] : TRUE
      BY <3>2, <3>3 DEF NamesOf
    <3> QED
      BY <3>1, <3>4
  <2>3. CASE ~logProviderOutcome(c) /\ ~Exhausted(c)
    <3>1. pc'[c] \notin Done
      BY <1>0, <2>3 DEF Step, ensureLoaded, Loaded, routeTask, LogSelection, Answered, Failed,
         LogFallbackSucceeded, updateOutcome, BeginFlush, EndFlush,
         LogFallback, NextProvider, Done, RouteTypeOK
    <3> QED
      BY <1>4, <3>1
  <2> QED
    BY <2>1, <2>2, <2>3
<1> QED
  BY <1>1, <1>2, <1>3, <1>4, OthersWait

LEMMA FaultInitInv ==
  ASSUME RouteInit
  PROVE  FaultInv
BY DEF RouteInit, FaultInv, Done

-----------------------------------------------------------------------------
\* The places of the entries that Recorded counts.
Records(p, ok) ==
  {x \in Call \X (1 .. Len(Order) + 1) :
    x[2] \in DOMAIN entries[x[1]] /\ entries[x[1]][x[2]] = <<p, ok>>}

LEMMA SomeCalls ==
  ASSUME NEW S \in SUBSET Call
  PROVE  IsFiniteSet(S) /\ Cardinality(S) \in Nat
BY AgentRouterAssumption, FS_Subset, FS_CardinalityType

LEMMA SomePlaces ==
  ASSUME NEW S \in SUBSET (Call \X (1 .. Len(Order) + 1))
  PROVE  IsFiniteSet(S) /\ Cardinality(S) \in Nat
<1>1. IsFiniteSet(Call) /\ Len(Order) + 1 \in Int
  BY AgentRouterAssumption
<1>2. IsFiniteSet(1 .. Len(Order) + 1)
  BY <1>1, FS_Interval
<1>3. IsFiniteSet(Call \X (1 .. Len(Order) + 1))
  BY <1>1, <1>2, FS_Product
<1> QED
  BY <1>3, FS_Subset, FS_CardinalityType

LEMMA CountsFinite ==
  ASSUME NEW p, NEW ok
  PROVE  /\ Recorded(p, ok) \in Nat /\ Cardinality(Counted(p, ok)) \in Nat
         /\ Recorded(p, ok)' \in Nat /\ Cardinality(Counted(p, ok)') \in Nat
<1>1. Counted(p, ok) \in SUBSET Call /\ Counted(p, ok)' \in SUBSET Call
  BY DEF Counted
<1>2. /\ Records(p, ok) \in SUBSET (Call \X (1 .. Len(Order) + 1))
      /\ Records(p, ok)' \in SUBSET (Call \X (1 .. Len(Order) + 1))
  BY DEF Records
<1>3. Recorded(p, ok) = Cardinality(Records(p, ok)) /\ Recorded(p, ok)' = Cardinality(Records(p, ok)')
  BY DEF Recorded, Records
<1>4. Cardinality(Counted(p, ok)) \in Nat /\ Cardinality(Counted(p, ok)') \in Nat
  BY <1>1, SomeCalls
<1>5. Cardinality(Records(p, ok)) \in Nat /\ Cardinality(Records(p, ok)') \in Nat
  BY <1>2, SomePlaces
<1> QED
  BY <1>3, <1>4, <1>5

\* A step that adds no entry and counts no outcome keeps what is recorded, and
\* loses from Counted at most its own call.
LEMMA RecordsKept ==
  ASSUME UNCHANGED entries, NEW p, NEW ok
  PROVE  Recorded(p, ok)' = Recorded(p, ok)
BY DEF Recorded

LEMMA CountedOthers ==
  ASSUME RouteTypeOK, NEW c \in Call, Step(c), NEW p, NEW ok
  PROVE  Counted(p, ok)' \ {c} = Counted(p, ok) \ {c}
<1>1. \A d \in Call : d # c => /\ pc'[d] = pc[d] /\ order'[d] = order[d] /\ idx'[d] = idx[d]
                               /\ good'[d] = good[d]
  BY OthersWait
<1> QED
  BY <1>1 DEF Counted, Tried

LEMMA SumSame ==
  ASSUME RouteTypeOK, SumInv, FaultInv, NEW c \in Call, Step(c),
         UNCHANGED <<map, base, loaded, stale>>,
         \A p \in Provider, ok \in BOOLEAN :
           LET m == Recorded(p, ok) + Cardinality(Counted(p, ok))
               n == Recorded(p, ok)' + Cardinality(Counted(p, ok)')
           IN  n <= m /\ (faults' = 0 => n = m)
  PROVE  SumInv'
<1> SUFFICES ASSUME loaded, ~stale, NEW p \in Provider, NEW ok \in BOOLEAN
             PROVE  /\ Value(map[p], ok) >= Known(p, ok)'
                    /\ faults' = 0 => Value(map[p], ok) = Known(p, ok)'
  BY DEF SumInv
<1> DEFINE v == Value(map[p], ok)
           b == Value(base[p], ok)
           m == Recorded(p, ok) + Cardinality(Counted(p, ok))
           n == Recorded(p, ok)' + Cardinality(Counted(p, ok)')
<1>1. v \in Nat /\ b \in Nat
  BY DEF RouteTypeOK, Value, Count
<1>2. m \in Nat
  BY CountsFinite
<1>3. n \in Nat
  BY CountsFinite
<1>4. v >= b + m /\ (faults = 0 => v = b + m)
  BY DEF SumInv, Known
<1>5. n <= m /\ (faults' = 0 => n = m)
  OBVIOUS
<1>6. faults' = 0 => faults = 0
  BY Faultless
<1>7. Known(p, ok)' = b + n
  BY DEF Known
<1> HIDE DEF v, b, m, n
<1>8. v >= b + n /\ (faults' = 0 => v = b + n)
  BY <1>1, <1>2, <1>3, <1>4, <1>5, <1>6
<1> QED
  BY <1>7, <1>8 DEF v

\* Without a change of map the balance can only improve.
LEMMA SumQuiet ==
  ASSUME RouteTypeOK, SumInv, FaultInv, NEW c \in Call, Step(c),
         Quiet(c) \/ BeginFlush(c) \/ EndFlush(c)
  PROVE  SumInv'
<1>1. UNCHANGED <<map, base, loaded, stale, entries>>
  BY DEF Quiet, BeginFlush, EndFlush, statVars
<1>2. ASSUME NEW p \in Provider, NEW ok \in BOOLEAN
      PROVE  Counted(p, ok)' = Counted(p, ok)
  <2>1. c \in Counted(p, ok)' <=> c \in Counted(p, ok)
    <3>1. CASE Quiet(c)
      BY <3>1 DEF Quiet, Counted
    <3>2. CASE BeginFlush(c) \/ EndFlush(c)
      <4>1. /\ pc[c] \in {"flush", "entry"} /\ pc'[c] \in {"flush", "entry"}
            /\ order' = order /\ idx' = idx /\ good' = good
        BY <3>2 DEF BeginFlush, EndFlush, callVars, RouteTypeOK
      <4> QED
        BY <4>1 DEF Counted, Tried
    <3> QED
      BY <3>1, <3>2
  <2>2. Counted(p, ok)' \ {c} = Counted(p, ok) \ {c}
    BY CountedOthers
  <2> QED
    BY <2>1, <2>2
<1>3. ASSUME NEW p \in Provider, NEW ok \in BOOLEAN
      PROVE  LET m == Recorded(p, ok) + Cardinality(Counted(p, ok))
                 n == Recorded(p, ok)' + Cardinality(Counted(p, ok)')
             IN  n <= m /\ (faults' = 0 => n = m)
  BY <1>1, <1>2, RecordsKept, CountsFinite
<1> QED
  BY <1>1, <1>3, SumSame

\* A rejected write takes an outcome from Counted that the map keeps.
LEMMA SumRejected ==
  ASSUME RouteTypeOK, SumInv, FaultInv, NEW c \in Call, Step(c), Rejected(c),
         UNCHANGED <<map, base, loaded, stale, entries>>, faults' # 0
  PROVE  SumInv'
<1>1. ASSUME NEW p \in Provider, NEW ok \in BOOLEAN
      PROVE  Cardinality(Counted(p, ok)') <= Cardinality(Counted(p, ok))
  <2>1. c \notin Counted(p, ok)'
    BY RejectedMoves DEF Counted
  <2>2. Counted(p, ok)' \ {c} = Counted(p, ok) \ {c}
    BY CountedOthers
  <2>3. Counted(p, ok)' \in SUBSET Counted(p, ok)
    BY <2>1, <2>2
  <2>4. IsFiniteSet(Counted(p, ok))
    <3>1. Counted(p, ok) \in SUBSET Call
      BY DEF Counted
    <3> QED
      BY <3>1, SomeCalls
  <2> QED
    BY <2>3, <2>4, FS_Subset
<1>2. ASSUME NEW p \in Provider, NEW ok \in BOOLEAN
      PROVE  LET m == Recorded(p, ok) + Cardinality(Counted(p, ok))
                 n == Recorded(p, ok)' + Cardinality(Counted(p, ok)')
             IN  n <= m /\ (faults' = 0 => n = m)
  BY <1>1, RecordsKept, CountsFinite
<1> QED
  BY <1>2, SumSame

\* The entry of an outcome takes it from Counted to Records.
LEMMA SumEntry ==
  ASSUME RouteTypeOK, CallInv, SumInv, FaultInv, NEW c \in Call, Step(c),
         pc[c] = "entry", pc'[c] \notin {"flush", "entry"},
         entries' = [entries EXCEPT ![c] = Append(@, <<Tried(c), good[c]>>)],
         UNCHANGED <<map, base, loaded, stale>>
  PROVE  SumInv'
<1> DEFINE e == entries[c]
           k == Len(e) + 1
<1>1. /\ e \in Seq(Provider \X BOOLEAN) /\ Len(e) \in Nat /\ DOMAIN e = 1 .. Len(e)
      /\ k \in 1 .. Len(Order) + 1 /\ k \notin DOMAIN e
  <2>1. /\ Len(e) <= idx[c] - 1 /\ idx[c] \in 1 .. Len(order[c])
        /\ Len(order[c]) \in 1 .. Len(Order) + 1 /\ e \in Seq(Provider \X BOOLEAN)
    BY DEF CallInv, OrderInv, EntryInv, Unrouted, Unlogged, IsOrder, RouteTypeOK
  <2>2. Len(Order) \in Nat
    BY AgentRouterAssumption
  <2> QED
    BY <2>1, <2>2
<1>2. /\ entries'[c] = Append(e, <<Tried(c), good[c]>>)
      /\ DOMAIN entries'[c] = 1 .. k /\ entries'[c][k] = <<Tried(c), good[c]>>
      /\ \A i \in DOMAIN e : i \in DOMAIN entries'[c] /\ entries'[c][i] = e[i]
      /\ \A i \in DOMAIN entries'[c] : i \in DOMAIN e \/ i = k
      /\ k \in DOMAIN entries'[c]
  <2>1. entries'[c] = Append(e, <<Tried(c), good[c]>>)
    BY DEF RouteTypeOK
  <2>2. ASSUME NEW s \in Seq(Provider \X BOOLEAN), NEW y
        PROVE  /\ DOMAIN Append(s, y) = 1 .. Len(s) + 1 /\ Append(s, y)[Len(s) + 1] = y
               /\ \A i \in 1 .. Len(s) : Append(s, y)[i] = s[i]
    OBVIOUS
  <2>3. /\ DOMAIN entries'[c] = 1 .. k /\ entries'[c][k] = <<Tried(c), good[c]>>
        /\ \A i \in 1 .. Len(e) : entries'[c][i] = e[i]
    BY <1>1, <2>1, <2>2
  <2> QED
    BY <1>1, <2>1, <2>3
<1>3. \A d \in Call : d # c => entries'[d] = entries[d]
  BY DEF RouteTypeOK
<1> HIDE DEF e, k
<1>4. ASSUME NEW p \in Provider, NEW ok \in BOOLEAN
      PROVE  Recorded(p, ok)' + Cardinality(Counted(p, ok)')
               = Recorded(p, ok) + Cardinality(Counted(p, ok))
  <2> DEFINE R == Records(p, ok)
             C == Counted(p, ok)
  <2>1. R \in SUBSET (Call \X (1 .. Len(Order) + 1)) /\ C \in SUBSET Call
    BY DEF Records, Counted
  <2>2. /\ IsFiniteSet(R) /\ Cardinality(R) \in Nat /\ IsFiniteSet(C) /\ Cardinality(C) \in Nat
        /\ Recorded(p, ok) = Cardinality(R) /\ Recorded(p, ok)' = Cardinality(R')
    BY <2>1, SomeCalls, SomePlaces DEF Recorded, Records
  <2>3. C' = C \ {c}
    <3>1. c \notin C'
      BY DEF Counted
    <3>2. C' \ {c} = C \ {c}
      BY CountedOthers
    <3> QED
      BY <3>1, <3>2
  <2>4. <<c, k>> \notin R
    BY <1>1 DEF Records, e
  <2>5. CASE Tried(c) = p /\ good[c] = ok
    <3>1. R' = R \cup {<<c, k>>}
      <4>1. <<c, k>> \in R'
        BY <1>1, <1>2, <2>5 DEF Records
      <4>2. ASSUME NEW d \in Call, NEW i \in 1 .. Len(Order) + 1, <<d, i>> # <<c, k>>
            PROVE  <<d, i>> \in R' <=> <<d, i>> \in R
        <5>1. CASE d = c
          BY <1>2, <4>2, <5>1 DEF Records, e
        <5>2. CASE d # c
          BY <1>3, <5>2 DEF Records
        <5> QED
          BY <5>1, <5>2
      <4>3. R' \in SUBSET (Call \X (1 .. Len(Order) + 1))
        BY DEF Records
      <4> QED
        BY <1>1, <2>1, <4>1, <4>2, <4>3
    <3>2. c \in C
      BY <2>5 DEF Counted
    <3>3. Cardinality(R') = Cardinality(R) + 1 /\ Cardinality(C') = Cardinality(C) - 1
      <4>1. Cardinality(R \cup {<<c, k>>}) = Cardinality(R) + 1
        BY <2>2, <2>4, FS_AddElement
      <4>2. Cardinality(C \ {c}) = Cardinality(C) - 1
        BY <2>2, <3>2, FS_RemoveElement
      <4> QED
        BY <2>3, <3>1, <4>1, <4>2
    <3> QED
      BY <2>2, <3>3
  <2>6. CASE ~(Tried(c) = p /\ good[c] = ok)
    <3>1. R' = R
      <4>1. <<c, k>> \notin R'
        BY <1>2, <2>6 DEF Records
      <4>2. ASSUME NEW d \in Call, NEW i \in 1 .. Len(Order) + 1, <<d, i>> # <<c, k>>
            PROVE  <<d, i>> \in R' <=> <<d, i>> \in R
        <5>1. CASE d = c
          BY <1>2, <4>2, <5>1 DEF Records, e
        <5>2. CASE d # c
          BY <1>3, <5>2 DEF Records
        <5> QED
          BY <5>1, <5>2
      <4>3. R' \in SUBSET (Call \X (1 .. Len(Order) + 1))
        BY DEF Records
      <4> QED
        <5>1. ASSUME NEW x \in Call \X (1 .. Len(Order) + 1) PROVE x \in R' <=> x \in R
          <6>1. x = <<x[1], x[2]>> /\ x[1] \in Call /\ x[2] \in 1 .. Len(Order) + 1
            OBVIOUS
          <6> HIDE DEF R
          <6> QED
            BY <2>4, <4>1, <4>2, <6>1
        <5> HIDE DEF R
        <5> QED
          BY <2>1, <4>3, <5>1
    <3>2. c \notin C
      BY <2>6 DEF Counted
    <3>3. C' = C
      BY <2>3, <3>2
    <3> QED
      BY <2>2, <3>1, <3>3
  <2> QED
    BY <2>5, <2>6
<1>5. ASSUME NEW p \in Provider, NEW ok \in BOOLEAN
      PROVE  LET m == Recorded(p, ok) + Cardinality(Counted(p, ok))
                 n == Recorded(p, ok)' + Cardinality(Counted(p, ok)')
             IN  n <= m /\ (faults' = 0 => n = m)
  BY <1>4, CountsFinite
<1> QED
  BY <1>5, SumSame

\* An outcome that is counted raises the map and Counted together.
LEMMA SumCount ==
  ASSUME RouteTypeOK, CallInv, LoadedInv, SumInv, FaultInv, NEW c \in Call, Step(c), updateOutcome(c)
  PROVE  SumInv'
<1>1. /\ pc[c] = "count" /\ pc'[c] = "flush" /\ order' = order /\ idx' = idx /\ good' = good
      /\ map' = [map EXCEPT ![Tried(c)] = Bump(@, good[c])]
      /\ UNCHANGED <<base, loaded, stale, entries, faults>> /\ good[c] \in BOOLEAN
  BY DEF updateOutcome, callVars, RouteTypeOK
<1> SUFFICES ASSUME loaded, ~stale, NEW p \in Provider, NEW ok \in BOOLEAN
             PROVE  /\ Value(map'[p], ok) >= Known(p, ok)'
                    /\ faults = 0 => Value(map'[p], ok) = Known(p, ok)'
  BY <1>1 DEF SumInv
<1> DEFINE C == Counted(p, ok)
           r == Recorded(p, ok)
           b == Value(base[p], ok)
           v == Value(map[p], ok)
<1>2. /\ v >= b + (r + Cardinality(C)) /\ (faults = 0 => v = b + (r + Cardinality(C)))
      /\ v \in Nat /\ b \in Nat /\ r \in Nat /\ Cardinality(C) \in Nat
  BY CountsFinite DEF SumInv, Known, RouteTypeOK, Value, Count
<1>3. Known(p, ok)' = b + (r + Cardinality(C'))
  <2>1. Recorded(p, ok)' = r
    BY <1>1, RecordsKept
  <2> QED
    BY <1>1, <2>1 DEF Known
<1>4. c \notin C /\ C' \ {c} = C \ {c} /\ C \in SUBSET Call
  BY <1>1, CountedOthers DEF Counted
<1>5. c \in C' <=> Tried(c) = p /\ good[c] = ok
  BY <1>1 DEF Counted, Tried
<1>6. CASE Tried(c) = p /\ good[c] = ok
  <2>1. C' = C \cup {c}
    BY <1>4, <1>5, <1>6
  <2>2. Cardinality(C \cup {c}) = Cardinality(C) + 1
    BY <1>4, SomeCalls, FS_AddElement
  <2>3. Value(map'[p], ok) = v + 1
    <3>1. map'[p] = Bump(map[p], ok) /\ map[p] \in Count
      BY <1>1, <1>6 DEF RouteTypeOK
    <3> QED
      BY <3>1 DEF Bump, Value, Count
  <2> HIDE DEF C, r, b, v
  <2> QED
    BY <1>2, <1>3, <2>1, <2>2, <2>3
<1>7. CASE ~(Tried(c) = p /\ good[c] = ok)
  <2>1. C' = C
    BY <1>4, <1>5, <1>7
  <2>2. Value(map'[p], ok) = v
    <3>1. CASE Tried(c) # p
      BY <1>1, <3>1 DEF RouteTypeOK
    <3>2. CASE Tried(c) = p
      <4>1. map'[p] = Bump(map[p], good[c]) /\ map[p] \in Count /\ good[c] # ok
        BY <1>1, <1>7, <3>2 DEF RouteTypeOK
      <4> QED
        BY <1>1, <4>1 DEF Bump, Value, Count
    <3> QED
      BY <3>1, <3>2
  <2> HIDE DEF C, r, b, v
  <2> QED
    BY <1>2, <1>3, <2>1, <2>2
<1> QED
  BY <1>6, <1>7

\* The first read makes the map what the file held; a later one changes nothing or
\* makes the map stale.
LEMMA SumLoaded ==
  ASSUME RouteTypeOK, CallInv, LoadedInv, SumInv, FaultInv, NEW c \in Call, Step(c), Loaded(c)
  PROVE  SumInv'
<1>1. /\ pc[c] = "reading" /\ pc'[c] = "pick" /\ order' = order /\ idx' = idx /\ good' = good
      /\ UNCHANGED <<base, entries, faults, queue, payload, file>>
      /\ loaded' = TRUE /\ stale' = (stale \/ (loaded /\ map' # map))
  BY DEF Loaded, callVars, RouteTypeOK
<1>2. CASE loaded
  <2>1. ~stale' => ~stale /\ map' = map
    BY <1>1, <1>2
  <2>2. ASSUME NEW p \in Provider, NEW ok \in BOOLEAN
        PROVE  Counted(p, ok)' = Counted(p, ok)
    <3>1. c \notin Counted(p, ok) /\ c \notin Counted(p, ok)'
      BY <1>1 DEF Counted
    <3> QED
      BY <3>1, CountedOthers
  <2>3. CASE stale'
    BY <2>3 DEF SumInv
  <2>4. CASE ~stale'
    <3>1. UNCHANGED <<map, base, loaded, stale>>
      BY <1>1, <1>2, <2>1, <2>4 DEF RouteTypeOK
    <3>2. ASSUME NEW p \in Provider, NEW ok \in BOOLEAN
          PROVE  LET m == Recorded(p, ok) + Cardinality(Counted(p, ok))
                     n == Recorded(p, ok)' + Cardinality(Counted(p, ok)')
                 IN  n <= m /\ (faults' = 0 => n = m)
      BY <1>1, <2>2, RecordsKept, CountsFinite
    <3> QED
      BY <3>1, <3>2, SumSame
  <2> QED
    BY <2>3, <2>4
<1>3. CASE ~loaded
  <2>1. /\ \A d \in Call : pc[d] \in {"new", "reading"} /\ entries[d] = << >>
        /\ seen[c] = file /\ map = NoCounts /\ base = IF file = Torn THEN NoCounts ELSE file
    BY <1>1, <1>3 DEF LoadedInv, CallInv, OrderInv, Unrouted
  <2>2. map' = base
    <3>1. map' = [p \in Provider |->
                    IF seen[c] # Torn /\ seen[c][p] # [s |-> 0, f |-> 0] THEN seen[c][p] ELSE map[p]]
      BY DEF Loaded
    <3>2. CASE file = Torn
      BY <2>1, <3>1, <3>2 DEF NoCounts
    <3>3. CASE file # Torn
      <4>1. file \in [Provider -> Count]
        BY <3>3 DEF RouteTypeOK
      <4>2. \A p \in Provider : map[p] = [s |-> 0, f |-> 0]
        BY <2>1 DEF NoCounts
      <4>3. map' = [p \in Provider |-> file[p]]
        BY <2>1, <3>1, <3>3, <4>2
      <4> QED
        BY <2>1, <3>3, <4>1, <4>3
    <3> QED
      BY <3>2, <3>3
  <2>3. ASSUME NEW p \in Provider, NEW ok \in BOOLEAN
        PROVE  Known(p, ok)' = Value(base[p], ok)
    <3>1. Records(p, ok)' = {}
      BY <1>1, <2>1 DEF Records
    <3>2. Counted(p, ok)' = {}
      <4>1. Counted(p, ok) = {}
        BY <2>1 DEF Counted
      <4>2. c \notin Counted(p, ok)'
        BY <1>1 DEF Counted
      <4> QED
        BY <4>1, <4>2, CountedOthers
    <3>3. Recorded(p, ok)' = 0 /\ Cardinality(Counted(p, ok)') = 0
      <4>1. Recorded(p, ok)' = Cardinality(Records(p, ok)')
        BY DEF Recorded, Records
      <4> QED
        BY <3>1, <3>2, <4>1, FS_EmptySet
    <3>4. Value(base[p], ok) \in Nat /\ base' = base
      BY <1>1 DEF RouteTypeOK, Value, Count
    <3> QED
      BY <3>3, <3>4 DEF Known
  <2>4. \A p \in Provider, ok \in BOOLEAN : Value(base[p], ok) \in Nat
    BY DEF RouteTypeOK, Value, Count
  <2> QED
    BY <1>1, <2>2, <2>3, <2>4 DEF SumInv
<1> QED
  BY <1>2, <1>3

LEMMA SumStep ==
  ASSUME RouteTypeOK, CallInv, LoadedInv, SumInv, FaultInv, NEW c \in Call, Step(c)
  PROVE  SumInv'
<1>1. CASE FlushFails(c)
  <2>1. faults' # 0
    BY <1>1, Faultless
  <2>2. Rejected(c) /\ UNCHANGED <<map, base, loaded, stale, entries>>
    BY <1>1 DEF FlushFails
  <2> QED
    BY <2>1, <2>2, SumRejected
<1>2. CASE logProviderOutcome(c)
  <2>1. pc[c] = "entry" /\ UNCHANGED <<map, base, loaded, stale>>
    BY <1>2 DEF logProviderOutcome, statVars
  <2>2. CASE LogFails(c) /\ Rejected(c) /\ UNCHANGED entries
    <3>1. faults' # 0
      BY <2>2, Faultless
    <3> QED
      BY <2>1, <2>2, <3>1, SumRejected
  <2>3. CASE /\ entries' = [entries EXCEPT ![c] = Append(@, <<Tried(c), good[c]>>)]
             /\ pc' = [pc EXCEPT ![c] = Outcome(c)]
    <3>1. pc'[c] \notin {"flush", "entry"}
      BY <2>3 DEF Outcome, RouteTypeOK
    <3> QED
      BY <2>1, <2>3, <3>1, SumEntry
  <2> QED
    BY <1>2, <2>2, <2>3 DEF logProviderOutcome
<1> QED
  BY <1>1, <1>2, StepKinds, SumQuiet, SumCount, SumLoaded

LEMMA SumInitInv ==
  ASSUME RouteInit
  PROVE  SumInv
BY DEF RouteInit, SumInv

\* A queue of one call was empty before, or is empty behind it.
LEMMA LastOfQueue ==
  ASSUME NEW q \in Seq(Call)
  PROVE  /\ \A x \in Call : Len(Append(q, x)) = 1 => q = << >>
         /\ q # << >> /\ Tail(q) = << >> => Len(q) = 1
<1>1. ASSUME NEW x \in Call, Len(Append(q, x)) = 1
      PROVE  q = << >>
  <2>1. Len(q) + 1 = 1 /\ Len(q) \in Nat
    BY <1>1
  <2>2. ~(Len(q) \in Nat \ {0})
    BY <2>1
  <2> QED
    BY <2>2, EmptySeq
<1>2. ASSUME q # << >>, Tail(q) = << >>
      PROVE  Len(q) = 1
  <2>1. Len(q) \in Nat \ {0} /\ Len(Tail(q)) = Len(q) - 1
    BY <1>2
  <2>2. Len(Tail(q)) = 0
    BY <1>2, EmptySeq, Zenon
  <2>3. \A m \in Nat \ {0} : m - 1 = 0 => m = 1
    OBVIOUS
  <2>4. Len(q) - 1 = 0
    BY <2>1, <2>2, Zenon
  <2> QED
    BY <2>1, <2>3, <2>4, Zenon
<1> QED
  BY <1>1, <1>2

\* The flush that leaves the queue empty has written the map.
LEMMA FileStep ==
  ASSUME RouteTypeOK, CallInv, LoadedInv, QueueInv, FaultInv, FileInv, NEW c \in Call, Step(c)
  PROVE  FileInv'
<1> DEFINE Outcomes == \E d \in Call : pc[d] = "entry" \/ entries[d] # << >>
<1>1. SUFFICES ASSUME loaded', ~stale', faults' = 0
               PROVE  /\ Len(queue') = 1 /\ payload' # Torn => payload' = map'
                      /\ queue' = << >> /\ Outcomes' => file' = map'
  BY DEF FileInv
<1>2. faults = 0 /\ ~FlushFails(c)
  BY <1>1, Faultless
<1>3. loaded /\ ~stale => /\ Len(queue) = 1 /\ payload # Torn => payload = map
                          /\ queue = << >> /\ Outcomes => file = map
  BY <1>2 DEF FileInv
<1>4. queue \in Seq(Call) /\ (payload # Torn => queue # << >>)
  BY DEF RouteTypeOK, QueueInv
<1>5. pc[c] = "flush" => queue # << >>
  BY DEF QueueInv, ToSet
<1>6. \A d \in Call : d # c => pc'[d] = pc[d]
  BY OthersWait
<1>7. ASSUME UNCHANGED <<map, queue, payload, file, loaded, stale>>, Outcomes' => Outcomes
      PROVE  /\ Len(queue') = 1 /\ payload' # Torn => payload' = map'
             /\ queue' = << >> /\ Outcomes' => file' = map'
  BY <1>1, <1>3, <1>7
<1>8. CASE Quiet(c)
  <2>1. UNCHANGED <<map, queue, payload, file, loaded, stale>>
    BY <1>8 DEF Quiet, statVars
  <2>2. Outcomes' => Outcomes
    BY <1>6, <1>8 DEF Quiet
  <2> QED
    BY <1>7, <2>1, <2>2
<1>9. CASE Loaded(c)
  <2>1. /\ UNCHANGED <<queue, payload, file, entries>> /\ pc' = [pc EXCEPT ![c] = "pick"]
        /\ stale' = (stale \/ (loaded /\ map' # map)) /\ loaded'
    BY <1>9 DEF Loaded
  <2>2. pc'[c] = "pick"
    BY <2>1 DEF RouteTypeOK
  <2>3. CASE loaded
    <3>1. map' = map /\ stale' = stale /\ loaded' = loaded
      BY <1>1, <2>1, <2>3 DEF RouteTypeOK
    <3>2. Outcomes' => Outcomes
      BY <1>6, <2>1, <2>2
    <3> QED
      BY <1>7, <2>1, <3>1, <3>2
  <2>4. CASE ~loaded
    <3>1. queue = << >> /\ \A d \in Call : pc[d] \in {"new", "reading"}
      BY <2>4 DEF LoadedInv
    <3>2. \A d \in Call : entries[d] = << >>
      BY <3>1 DEF CallInv, OrderInv, Unrouted
    <3>3. \A d \in Call : pc'[d] # "entry" /\ entries'[d] = << >>
      BY <1>6, <2>1, <2>2, <3>1, <3>2
    <3> QED
      BY <1>4, <2>1, <3>1, <3>3
  <2> QED
    BY <2>3, <2>4
<1>10. CASE updateOutcome(c)
  <2>1. queue' = Append(queue, c) /\ payload' = payload
    BY <1>10 DEF updateOutcome
  <2>2. queue' # << >> /\ Len(queue') = Len(queue) + 1 /\ Len(queue) \in Nat
    BY <1>4, <2>1
  <2>3. Len(queue') = 1 => queue = << >>
    BY <1>4, <2>1, LastOfQueue
  <2> QED
    BY <1>4, <2>1, <2>2, <2>3
<1>11. CASE BeginFlush(c)
  BY <1>5, <1>11 DEF BeginFlush
<1>12. CASE EndFlush(c)
  <2>1. /\ pc[c] = "flush" /\ payload # Torn /\ file' = payload /\ payload' = Torn
        /\ queue' = Tail(queue) /\ UNCHANGED <<map, loaded, stale>>
    BY <1>12 DEF EndFlush
  <2>2. queue' = << >> => Len(queue) = 1
    BY <1>4, <1>5, <2>1, LastOfQueue
  <2> QED
    BY <1>1, <1>3, <2>1, <2>2
<1>13. CASE logProviderOutcome(c)
  <2>1. pc[c] = "entry" /\ UNCHANGED <<map, queue, payload, file, loaded, stale>>
    BY <1>13 DEF logProviderOutcome, statVars
  <2> QED
    BY <1>7, <2>1
<1> QED
  BY <1>2, <1>8, <1>9, <1>10, <1>11, <1>12, <1>13, StepKinds

\* The statistics over all steps.
StatsInv == LoadedInv /\ QueueInv /\ FaultInv /\ SumInv /\ FileInv

LEMMA StatsInductive == RouteSpec => []StatsInv
<1>1. RouteInit => StatsInv
  <2> SUFFICES ASSUME RouteInit PROVE StatsInv
    OBVIOUS
  <2>1. FileInv
    BY DEF RouteInit, FileInv
  <2> QED
    BY <2>1, LoadedInitInv, QueueInitInv, FaultInitInv, SumInitInv DEF StatsInv
<1>2. RouteTypeOK /\ CallInv /\ StatsInv /\ [RouteNext]_routeVars => StatsInv'
  <2> SUFFICES ASSUME RouteTypeOK, CallInv, StatsInv, [RouteNext]_routeVars
               PROVE  StatsInv'
    OBVIOUS
  <2> USE DEF StatsInv
  <2>1. CASE RouteNext
    <3>1. PICK c \in Call : Step(c)
      BY <2>1 DEF RouteNext
    <3>2. LoadedInv' /\ QueueInv'
      BY <3>1, LoadedStep, QueueStep
    <3>3. FaultInv' /\ SumInv'
      BY <3>1, FaultStep, SumStep
    <3>4. FileInv'
      BY <3>1, FileStep
    <3> QED
      BY <3>2, <3>3, <3>4
  <2>2. CASE UNCHANGED routeVars
    <3>1. /\ UNCHANGED <<pc, order, idx, good, seen, map, loaded, queue, payload, poisoned>>
          /\ UNCHANGED <<file, base, stale, broken, entries, faults>>
      BY <2>2 DEF routeVars, callVars, statVars
    <3>2. LoadedInv' /\ QueueInv'
      BY <3>1 DEF LoadedInv, QueueInv
    <3>3. FaultInv' /\ FileInv'
      BY <3>1 DEF FaultInv, FileInv
    <3>4. SumInv'
      <4>1. \A p \in Provider, ok \in BOOLEAN : Known(p, ok)' = Known(p, ok)
        BY <3>1 DEF Known, Recorded, Counted, Tried
      <4> QED
        BY <3>1, <4>1 DEF SumInv
    <3> QED
      BY <3>2, <3>3, <3>4
  <2> QED
    BY <2>1, <2>2
<1> QED
  BY <1>1, <1>2, RouteInductive, PTL DEF RouteSpec

\* The statistics never know less than the ledgers of all calls together, and
\* exactly as much, in memory and on disk, once every call has ended and no write
\* has failed; only a read that ends after an update can lose counts.
THEOREM StatsAgree == RouteSpec => []StatsAgreeWithLedgers
<1>1. RouteTypeOK /\ CallInv /\ StatsInv => StatsAgreeWithLedgers
  <2> SUFFICES ASSUME RouteTypeOK, CallInv, StatsInv, loaded, ~stale
               PROVE  /\ \A p \in Provider : /\ map[p].s >= base[p].s + Recorded(p, TRUE)
                                             /\ map[p].f >= base[p].f + Recorded(p, FALSE)
                      /\ faults = 0 /\ (\A c \in Call : pc[c] \in Done) =>
                           /\ \A p \in Provider : /\ map[p].s = base[p].s + Recorded(p, TRUE)
                                                  /\ map[p].f = base[p].f + Recorded(p, FALSE)
                           /\ file = map
    BY DEF StatsAgreeWithLedgers
  <2>1. ASSUME NEW p \in Provider, NEW ok \in BOOLEAN
        PROVE  /\ Value(map[p], ok) >= Value(base[p], ok) + Recorded(p, ok)
               /\ faults = 0 /\ (\A c \in Call : pc[c] \in Done) =>
                    Value(map[p], ok) = Value(base[p], ok) + Recorded(p, ok)
    <3> DEFINE m == Value(map[p], ok)
               b == Value(base[p], ok)
               r == Recorded(p, ok)
               k == Cardinality(Counted(p, ok))
    <3>1. /\ m >= b + (r + k) /\ (faults = 0 => m = b + (r + k))
          /\ m \in Nat /\ b \in Nat /\ r \in Nat /\ k \in Nat
      BY CountsFinite DEF StatsInv, SumInv, Known, RouteTypeOK, Value, Count
    <3>2. (\A c \in Call : pc[c] \in Done) => k = 0
      <4> SUFFICES ASSUME \A c \in Call : pc[c] \in Done PROVE k = 0
        OBVIOUS
      <4>1. Counted(p, ok) = {}
        BY DEF Counted, Done
      <4> QED
        BY <4>1, FS_EmptySet
    <3> HIDE DEF m, b, r, k
    <3>3. m >= b + r /\ (faults = 0 /\ k = 0 => m = b + r)
      BY <3>1
    <3> QED
      BY <3>2, <3>3 DEF m, b, r
  <2>2. ASSUME NEW p \in Provider
        PROVE  /\ map[p].s >= base[p].s + Recorded(p, TRUE)
               /\ map[p].f >= base[p].f + Recorded(p, FALSE)
               /\ faults = 0 /\ (\A c \in Call : pc[c] \in Done) =>
                    /\ map[p].s = base[p].s + Recorded(p, TRUE)
                    /\ map[p].f = base[p].f + Recorded(p, FALSE)
    <3>1. \A x : Value(x, TRUE) = x.s /\ Value(x, FALSE) = x.f
      BY DEF Value
    <3>2. TRUE \in BOOLEAN /\ FALSE \in BOOLEAN
      OBVIOUS
    <3>3. /\ map[p].s >= base[p].s + Recorded(p, TRUE)
          /\ faults = 0 /\ (\A c \in Call : pc[c] \in Done) =>
               map[p].s = base[p].s + Recorded(p, TRUE)
      BY <2>1, <3>1, <3>2, Zenon
    <3>4. /\ map[p].f >= base[p].f + Recorded(p, FALSE)
          /\ faults = 0 /\ (\A c \in Call : pc[c] \in Done) =>
               map[p].f = base[p].f + Recorded(p, FALSE)
      BY <2>1, <3>1, <3>2, Zenon
    <3> QED
      BY <3>3, <3>4
  <2>3. ASSUME faults = 0, \A c \in Call : pc[c] \in Done
        PROVE  file = map
    <3>1. PICK c \in Call : TRUE
      BY DEF StatsInv, LoadedInv
    <3>2. entries[c] # << >>
      BY <2>3 DEF StatsInv, FaultInv
    <3>3. queue = << >>
      <4>1. queue \in Seq(Call) /\ \A d \in Call : d \notin ToSet(queue)
        BY <2>3 DEF StatsInv, QueueInv, RouteTypeOK, Done
      <4>2. queue # << >> => queue[1] \in Call /\ queue[1] \in ToSet(queue)
        BY <4>1 DEF ToSet
      <4> QED
        BY <4>1, <4>2
    <3> QED
      BY <2>3, <3>2, <3>3 DEF StatsInv, FileInv
  <2> QED
    BY <2>2, <2>3
<1> QED
  BY <1>1, RouteInductive, StatsInductive, PTL

=============================================================================
