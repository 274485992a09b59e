--------------------------- MODULE SubagentManager ---------------------------
(***************************************************************************)
(* The parallel execution engine of src/core/subagent-manager.ts: one call *)
(* of SubagentManager.executeAll over a plan of tasks, the executeTask     *)
(* coroutine it starts for every task, and the in-process worktree pool of *)
(* src/core/worktree-manager.ts that the two share.                        *)
(*                                                                         *)
(* The program is single threaded: code between two awaits is one action,  *)
(* and control may pass to another coroutine only at an await.             *)
(***************************************************************************)
EXTENDS Naturals, Sequences, FiniteSets

CONSTANTS
  NTasks,        \* length of the array given to executeAll
  Ids,           \* the task identifiers the planner LLM may write
  Plans,         \* the plans executeAll may be called with
  MaxConcurrent, \* config.maxConcurrent, also the size of the pool
  MaxRetries,    \* config.maxRetries
  LogMayFail     \* whether appendFile in logEvent may reject

Task  == 1 .. NTasks
Slot  == 1 .. MaxConcurrent
None  == 0

ASSUME ConstantsAssumption ==
  /\ NTasks \in Nat
  /\ MaxConcurrent \in Nat
  /\ MaxRetries \in Nat
  /\ LogMayFail \in BOOLEAN
  /\ \A p \in Plans : /\ DOMAIN p = {"id", "deps"}
                      /\ p.id \in [Task -> Ids]
                      /\ p.deps \in [Task -> SUBSET Ids]

VARIABLES
  plan,      \* the tasks argument: identifier and dependencies by position
  main,      \* where the executeAll coroutine is
  ready,     \* readyTasks; the array is in input order, so shift() is the minimum
  current,   \* the task being dispatched
  started,   \* tasks with startedAt set
  completed, \* the set `completed` of identifiers
  pending,   \* the set `pending` of identifiers
  active,    \* activePromises: identifier -> task whose promise it holds
  results,   \* the results array
  racing,    \* promises given to the Promise.race being awaited
  raced,     \* promises that some Promise.race has attached a handler to
  raceWon,   \* how the race being awaited was settled
  agent,     \* where the executeTask coroutine of each task is
  attempt,   \* its retry counter
  verdict,   \* the status it resolved with
  aborted,   \* whether its AbortController fired
  pool,      \* WorktreeManager.pool: slot -> available
  held       \* the worktree a task acquired

mainVars  == <<main, ready, current, racing, raced, raceWon>>
agentVars == <<agent, attempt, verdict, aborted>>
bookVars  == <<started, completed, pending, active, results>>
poolVars  == <<pool, held>>
vars == <<plan, mainVars, agentVars, bookVars, poolVars>>

MainPc  == {"idle", "dispatch", "launch", "race", "done", "threw", "exited"}
\* log: writing the start/retry event; call: awaiting the provider; logok and
\* failing: writing the result or the failure event; then: the executeTask
\* promise is fulfilled; finallyOk, finallyErr: inside the finally callback;
\* ok, err: the promise kept in activePromises is settled.
AgentPc == {"none", "log", "call", "backoff", "logok", "failing", "then",
            "finallyOk", "finallyErr", "ok", "err"}
Working == {"log", "call", "backoff", "logok", "failing", "then",
            "finallyOk", "finallyErr"}

Running  == {i \in Task : agent[i] \in Working}
Reported == {results[n].task : n \in 1 .. Len(results)}
ActiveIds(act) == {d \in Ids : act[d] # None}
Least(S) == CHOOSE i \in S : \A j \in S : i <= j

Init ==
  /\ plan \in Plans
  /\ main = "idle"
  /\ ready = {}
  /\ current = None
  /\ started = {}
  /\ completed = {}
  /\ pending = {plan.id[i] : i \in Task}
  /\ active = [d \in Ids |-> None]
  /\ results = << >>
  /\ racing = {}
  /\ raced = {}
  /\ raceWon = "none"
  /\ agent = [i \in Task |-> "none"]
  /\ attempt = [i \in Task |-> 0]
  /\ verdict = [i \in Task |-> "none"]
  /\ aborted = [i \in Task |-> FALSE]
  /\ pool = [s \in Slot |-> TRUE]
  /\ held = [i \in Task |-> None]

-----------------------------------------------------------------------------
(***************************************************************************)
(* executeAll.                                                             *)
(***************************************************************************)

\* Mutant: dependencies are tested against `pending`, which loses a task as soon
\* as it is launched.
getReadyTasksByPending ==
  {i \in Task : i \notin started /\ plan.deps[i] \cap pending = {}}

\* Not dispatched yet, and every dependency in the completed set.  A result
\* implies startedAt, so the test of task.result adds nothing.
getReadyTasks ==
  {i \in Task : i \notin started /\ plan.deps[i] \subseteq completed}

\* Mutant: the comparison with maxConcurrent is off by one.
RoomAtCap(act) == Cardinality(ActiveIds(act)) <= MaxConcurrent
Room(act)      == Cardinality(ActiveIds(act)) < MaxConcurrent

\* Mutant: the break for tasks that can never become ready is missing.
AfterFillNoBreak(act) == IF ActiveIds(act) # {} \/ pending # {} THEN "race" ELSE "done"
AfterFill(act)        == IF ActiveIds(act) # {} THEN "race" ELSE "done"

\* The code from the head of the inner while to the next await.
FillOrWait(rdy, act) ==
  IF rdy # {} /\ Room(act)
  THEN /\ main' = "dispatch"
       /\ current' = Least(rdy)
       /\ ready' = rdy \ {Least(rdy)}
       /\ UNCHANGED <<racing, raced, raceWon>>
  ELSE /\ main' = AfterFill(act)
       /\ racing' = {act[d] : d \in ActiveIds(act)}
       /\ raced' = raced \cup racing'
       /\ raceWon' = "none"
       /\ ready' = {}
       /\ current' = None

\* Mutant: the outer loop only waits for `pending` to drain.
LoopTopPendingOnly ==
  IF pending = {}
  THEN /\ main' = "done"
       /\ UNCHANGED <<ready, current, racing, raced, raceWon>>
  ELSE FillOrWait(getReadyTasks, active)

\* The head of the outer while.
LoopTop ==
  IF pending = {} /\ ActiveIds(active) = {}
  THEN /\ main' = "done"
       /\ UNCHANGED <<ready, current, racing, raced, raceWon>>
  ELSE FillOrWait(getReadyTasks, active)

ExecuteAll ==
  /\ main = "idle"
  /\ LoopTop
  /\ UNCHANGED <<plan, agentVars, bookVars, poolVars>>

\* After the awaited dispatch events and routeTask: startedAt is set and
\* acquire() takes the first available slot, or returns null.
acquire ==
  /\ main = "dispatch"
  /\ started' = started \cup {current}
  /\ main' = "launch"
  /\ \/ \E s \in Slot :
          /\ pool[s]
          /\ \A t \in Slot : t < s => ~pool[t]
          /\ pool' = [pool EXCEPT ![s] = FALSE]
          /\ held' = [held EXCEPT ![current] = s]
     \/ /\ \A s \in Slot : ~pool[s]
        /\ UNCHANGED poolVars
  /\ UNCHANGED <<plan, ready, current, racing, raced, raceWon, agentVars,
                 completed, pending, active, results>>

\* One of the two dispatch events cannot be written: executeAll rejects.
DispatchThrows ==
  /\ LogMayFail
  /\ main = "dispatch"
  /\ main' = "threw"
  /\ UNCHANGED <<plan, ready, current, racing, raced, raceWon, agentVars,
                 bookVars, poolVars>>

\* acquire() has resolved: start executeTask, register its promise, and go on
\* with the inner loop without another await.
Launch ==
  /\ main = "launch"
  /\ agent' = [agent EXCEPT ![current] = "log"]
  /\ active' = [active EXCEPT ![plan.id[current]] = current]
  /\ pending' = pending \ {plan.id[current]}
  /\ FillOrWait(ready, active')
  /\ UNCHANGED <<plan, attempt, verdict, aborted, started, completed, results,
                 poolVars>>

\* The race is settled: back to the head of the loop, or out by rejection.
RaceSettles ==
  /\ main = "race"
  /\ \/ raceWon = "ok" /\ LoopTop
     \/ /\ raceWon = "err"
        /\ main' = "threw"
        /\ UNCHANGED <<ready, current, racing, raced, raceWon>>
  /\ UNCHANGED <<plan, agentVars, bookVars, poolVars>>

-----------------------------------------------------------------------------
(***************************************************************************)
(* executeTask, and the then and finally callbacks attached to it.         *)
(***************************************************************************)

Goto(i, pc) == agent' = [agent EXCEPT ![i] = pc]

\* A write of logEvent either succeeds or, when the disk fails, rejects with
\* an error that isRetryableError does not recognise.
LogAttempt(i) ==
  /\ agent[i] = "log"
  /\ \/ Goto(i, "call")
     \/ LogMayFail /\ Goto(i, "failing")
  /\ UNCHANGED <<plan, mainVars, bookVars, poolVars, attempt, verdict, aborted>>

MayRetry(i) == attempt[i] < MaxRetries

\* providerRouter.completion: it takes no notice of the abort signal.
CallProvider(i) ==
  /\ agent[i] = "call"
  /\ \/ Goto(i, "logok")
     \/ Goto(i, IF MayRetry(i) THEN "backoff" ELSE "failing")
     \/ Goto(i, "failing")
  /\ UNCHANGED <<plan, mainVars, bookVars, poolVars, attempt, verdict, aborted>>

Backoff(i) ==
  /\ agent[i] = "backoff"
  /\ attempt' = [attempt EXCEPT ![i] = @ + 1]
  /\ Goto(i, "log")
  /\ UNCHANGED <<plan, mainVars, bookVars, poolVars, verdict, aborted>>

LogResult(i) ==
  /\ agent[i] = "logok"
  /\ \/ Goto(i, "then") /\ verdict' = [verdict EXCEPT ![i] = "completed"]
     \/ LogMayFail /\ Goto(i, "failing") /\ UNCHANGED verdict
  /\ UNCHANGED <<plan, mainVars, bookVars, poolVars, attempt, aborted>>

LogFailure(i) ==
  /\ agent[i] = "failing"
  /\ \/ Goto(i, "then") /\ verdict' = [verdict EXCEPT ![i] = "failed"]
     \/ LogMayFail /\ Goto(i, "finallyErr") /\ UNCHANGED verdict
  /\ UNCHANGED <<plan, mainVars, bookVars, poolVars, attempt, aborted>>

\* setTimeout(() => controller.abort(), timeoutMs); cleared before the result
\* or the failure is logged.
TimerFires(i) ==
  /\ agent[i] \in {"log", "call", "backoff"}
  /\ ~aborted[i]
  /\ aborted' = [aborted EXCEPT ![i] = TRUE]
  /\ UNCHANGED <<plan, mainVars, bookVars, poolVars, agent, attempt, verdict>>

\* The then callback.  A failed task is added to `completed` as well.
ThenCallback(i) ==
  /\ agent[i] = "then"
  /\ results' = Append(results, [task |-> i, status |-> verdict[i]])
  /\ completed' = completed \cup {plan.id[i]}
  /\ pending' = pending \ {plan.id[i]}
  /\ Goto(i, "finallyOk")
  /\ UNCHANGED <<plan, mainVars, started, active, poolVars, attempt, verdict,
                 aborted>>

\* The finally callback up to its await: give the worktree back.
release(i) ==
  /\ agent[i] \in {"finallyOk", "finallyErr"}
  /\ held[i] # None
  /\ pool' = [pool EXCEPT ![held[i]] = TRUE]
  /\ held' = [held EXCEPT ![i] = None]
  /\ UNCHANGED <<plan, mainVars, agentVars, bookVars>>

\* The rest of it: activePromises.delete, by identifier, after which the
\* promise settles.  It may settle the race; a rejection no race ever listened
\* to is an unhandled rejection, which ends the process.
DeleteAndSettle(i) ==
  /\ active' = [active EXCEPT ![plan.id[i]] = None]
  /\ LET how == IF agent[i] = "finallyOk" THEN "ok" ELSE "err" IN
       /\ Goto(i, how)
       /\ IF main = "race" /\ i \in racing /\ raceWon = "none"
          THEN raceWon' = how /\ UNCHANGED main
          ELSE /\ main' = IF how = "err" /\ i \notin raced THEN "exited" ELSE main
               /\ UNCHANGED raceWon
  /\ UNCHANGED <<plan, ready, current, racing, raced, started, completed,
                 pending, results, poolVars, attempt, verdict, aborted>>

\* Mutants: the promise settles without waiting for the release; and the
\* release is skipped when executeTask rejected.
SettleEarly(i) ==
  /\ agent[i] \in {"finallyOk", "finallyErr"}
  /\ DeleteAndSettle(i)
SettleNoFinally(i) ==
  /\ \/ agent[i] = "finallyOk" /\ held[i] = None
     \/ agent[i] = "finallyErr"
  /\ DeleteAndSettle(i)

Settle(i) ==
  /\ agent[i] \in {"finallyOk", "finallyErr"}
  /\ held[i] = None
  /\ DeleteAndSettle(i)

AgentStep(i) ==
  \/ LogAttempt(i)
  \/ CallProvider(i)
  \/ Backoff(i)
  \/ LogResult(i)
  \/ LogFailure(i)
  \/ ThenCallback(i)
  \/ release(i)
  \/ Settle(i)

MainStep == ExecuteAll \/ acquire \/ DispatchThrows \/ Launch \/ RaceSettles

Next ==
  /\ main # "exited"
  /\ \/ MainStep
     \/ \E i \in Task : AgentStep(i) \/ TimerFires(i)

Spec == Init /\ [][Next]_vars

\* Every await ends: file writes and timers do, and every provider call carries
\* its own AbortSignal.timeout.  The abort timer itself need not fire.
Fairness == WF_vars(main # "exited" /\ MainStep)
            /\ \A i \in Task : WF_vars(main # "exited" /\ AgentStep(i))

FairSpec == Spec /\ Fairness

-----------------------------------------------------------------------------
UniqueIds == \A i, j \in Task : plan.id[i] = plan.id[j] => i = j

\* What TaskDecomposer.decompose guarantees of a plan: dependencies exist and
\* there is an order of the tasks in which every dependency comes first.
WellFormed ==
  \E rank \in [Task -> Task] :
    \A i \in Task : \A d \in plan.deps[i] :
      \E j \in Task : plan.id[j] = d /\ rank[j] < rank[i]

TypeOK ==
  /\ plan \in Plans
  /\ main \in MainPc
  /\ ready \subseteq Task
  /\ current \in Task \cup {None}
  /\ main \in {"dispatch", "launch"} => current \in Task
  /\ started \subseteq Task
  /\ completed \subseteq Ids
  /\ pending \subseteq Ids
  /\ active \in [Ids -> Task \cup {None}]
  /\ results \in Seq([task : Task, status : {"completed", "failed"}])
  /\ racing \subseteq Task
  /\ raced \subseteq Task
  /\ raceWon \in {"none", "ok", "err"}
  /\ agent \in [Task -> AgentPc]
  /\ attempt \in [Task -> 0 .. MaxRetries]
  /\ verdict \in [Task -> {"none", "completed", "failed"}]
  /\ aborted \in [Task -> BOOLEAN]
  /\ pool \in [Slot -> BOOLEAN]
  /\ held \in [Task -> Slot \cup {None}]

\* No worktree is ever in the hands of two tasks, or held and on offer at once,
\* whatever the plan: acquire() and release() of the pool interleave safely.
SlotsExclusive ==
  /\ \A i, j \in Task : held[i] = held[j] /\ held[i] # None => i = j
  /\ \A i \in Task : held[i] # None => ~pool[held[i]]

\* executeAll keeps to config.maxConcurrent although it tests the size of
\* activePromises before three awaits and acts on the answer after them.
CapRespected == UniqueIds => Cardinality(Running) <= MaxConcurrent

\* acquire() never returns null, so no agent works outside a worktree: the
\* finally callback gives the slot back before it makes room for another task.
NoAgentWithoutWorktree ==
  UniqueIds => \A i \in Task :
    agent[i] \in Working \ {"finallyOk", "finallyErr"} => held[i] # None

\* A task is dispatched only after the results of all its dependencies are in.
DependenciesReported ==
  UniqueIds => \A i \in started : \A d \in plan.deps[i] :
    \E j \in Reported : plan.id[j] = d

\* When executeAll returns, no agent it started is still at work.
NoOrphans == UniqueIds /\ main = "done" => Running = {}

\* executeAll returns at most one result for a task, and one for every task of a
\* plan that passed the decomposer, however completions interleave with the
\* dispatch of the next tasks.  Only a task whose failure could not be logged is
\* missing: the rejection of its promise goes unnoticed when the race it was in
\* had been won already; the tasks that depend on it are missing as well.
Lost == {i \in Task : agent[i] = "err"}
EveryTaskReportedOnce ==
  main = "done" /\ UniqueIds /\ WellFormed /\ MaxConcurrent > 0
    => /\ \A m, n \in DOMAIN results : results[m].task = results[n].task => m = n
       /\ \A i \in Task \ (Reported \cup Lost) :
            \E j \in Task \ Reported : plan.id[j] \in plan.deps[i]

\* executeAll always comes back, even from a plan that cannot be finished.
Terminates == <>(main \in {"done", "threw", "exited"})

\* Every worktree is given back, also when executeTask rejects or executeAll
\* itself has already thrown: the pool ends full unless the process is gone.
SlotsReturned == <>[](main = "exited" \/ \A s \in Slot : pool[s])
=============================================================================
