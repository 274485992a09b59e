-------------------------- MODULE ParallelScheduler --------------------------
(***************************************************************************)
(* ParallelScheduler of src/core/scheduler.ts with the git worktree lanes  *)
(* it gets from src/core/isolation.ts and the isolation-engine binary: the *)
(* pool is created with retries, executeAll hands tasks to lanes in the    *)
(* order of the plan, and whoever runs a task reports it with completeTask *)
(* while executeAll is waiting.                                            *)
(*                                                                         *)
(* The program is single threaded: control passes between executeAll and   *)
(* the completeTask calls only at their awaits.  Saving the state and      *)
(* writing the ledger may reject there; the ledger entries of initialize   *)
(* and shutdown are taken to succeed.  One caller makes the calls of       *)
(* initialize, executeAll and shutdown, awaiting each; it may call         *)
(* executeAll again, with tasks the state machine already knows.           *)
(***************************************************************************)
EXTENDS Naturals, Sequences, FiniteSets

CONSTANTS
  Task,       \* task identifiers
  Plans,      \* plans: the order of the tasks and their dependencies
  NLanes,     \* config.worktreePoolSize
  MaxRetry,   \* retries after a failed call of the binary
  MaxInit,    \* bound on the calls of initialize
  MayReject   \* whether saving the state or writing the ledger may reject

Lane   == 0 .. NLanes - 1
NoTask == "none"

ASSUME SchedulerAssumption ==
  /\ NLanes \in Nat
  /\ MaxRetry \in Nat
  /\ MaxInit \in Nat
  /\ MayReject \in BOOLEAN
  /\ NoTask \notin Task
  /\ \A p \in Plans : p.order \in Seq(Task) /\ p.deps \in [Task -> SUBSET Task]

VARIABLES
  plan,      \* the tasks argument of executeAll
  main,      \* where the caller of initialize, executeAll and shutdown is
  pending,   \* pendingTasks
  cur,       \* the lane of the scheduleTask call under way
  worktrees, \* the map `worktrees`: lanes that were created
  active,    \* activeTasks: lane -> task
  needs,     \* activeTasks: the dependencies of the task in a lane
  status,    \* status of each task in the state machine
  run,       \* status of the run in the state machine
  comp,      \* where the completeTask call of a lane is
  tries,     \* attempts of executeWithRetry for a lane, or MaxRetry + 2 when over
  disk,      \* worktrees that exist on disk
  branches,  \* branches of the repository named after a lane
  unseen,    \* lanes git has created while the answer was lost
  inits,
  again      \* history: the tasks that were scheduled when they already existed

laneVars == <<worktrees, tries, disk, branches, unseen, inits>>
bookVars == <<active, needs, status, run, comp, again>>
vars == <<plan, main, pending, cur, laneVars, bookVars>>

Over   == MaxRetry + 2
Active == {l \in Lane : active[l] # NoTask}
TaskStatus == {"absent", "in_progress", "completed", "failed"}

TypeOK ==
  /\ plan \in Plans
  /\ main \in {"start", "creating", "ready", "loop", "sleep", "update", "persist",
               "returned", "rejected", "down"}
  /\ pending \in Seq(Task)
  /\ cur \in Lane \cup {0}
  /\ worktrees \in SUBSET Lane
  /\ active \in [Lane -> Task \cup {NoTask}]
  /\ needs \in [Lane -> SUBSET Task]
  /\ status \in [Task -> TaskStatus]
  /\ run \in {"idle", "running"}
  /\ comp \in [Lane -> {"none", "persist", "lost"}]
  /\ tries \in [Lane -> 0 .. Over]
  /\ disk \in SUBSET Lane
  /\ branches \in SUBSET Lane
  /\ unseen \in SUBSET Lane
  /\ inits \in 0 .. MaxInit
  /\ again \in SUBSET Task

\* A repository may still have the branches of an earlier run, and worktrees
\* that run did not destroy.
Init ==
  /\ plan \in Plans
  /\ main = "start"
  /\ pending = << >>
  /\ cur = 0
  /\ worktrees = {}
  /\ active = [l \in Lane |-> NoTask]
  /\ needs = [l \in Lane |-> {}]
  /\ status = [t \in Task |-> "absent"]
  /\ run = "idle"
  /\ comp = [l \in Lane |-> "none"]
  /\ tries = [l \in Lane |-> Over]
  /\ branches \in SUBSET Lane
  /\ disk \in SUBSET branches
  /\ unseen = {}
  /\ inits = 0
  /\ again = {}

-----------------------------------------------------------------------------
(***************************************************************************)
(* The pool.                                                               *)
(***************************************************************************)

\* initialize starts the creation of every lane at once.
initialize ==
  /\ main \in {"start", "down"} /\ inits < MaxInit
  /\ main' = "creating"
  /\ inits' = inits + 1
  /\ tries' = [l \in Lane |-> 0]
  /\ unseen' = {}
  /\ UNCHANGED <<plan, pending, cur, worktrees, disk, branches, bookVars>>

\* `git worktree add -b`: fails when the branch or the directory is there.
GitAdds(l) == l \notin branches /\ l \notin disk

\* Mutant: a lane is registered whatever the answer was.
CreateLaneAnyway(l) ==
  /\ main = "creating" /\ tries[l] <= MaxRetry
  /\ \/ /\ GitAdds(l)
        /\ disk' = disk \cup {l} /\ branches' = branches \cup {l}
     \/ UNCHANGED <<disk, branches>>
  /\ worktrees' = worktrees \cup {l}
  /\ tries' = [tries EXCEPT ![l] = Over]
  /\ UNCHANGED <<plan, main, pending, cur, unseen, inits, bookVars>>

\* One attempt to create a lane.  An answer of the binary, success or error,
\* ends the retries; a call that gives none is repeated, whether or not git
\* had done its work.
CreateLane(l) ==
  /\ main = "creating" /\ tries[l] <= MaxRetry
  /\ \/ /\ GitAdds(l)
        /\ disk' = disk \cup {l} /\ branches' = branches \cup {l}
        /\ \/ /\ worktrees' = worktrees \cup {l}
              /\ tries' = [tries EXCEPT ![l] = Over]
              /\ UNCHANGED unseen
           \/ /\ unseen' = unseen \cup {l}
              /\ tries' = [tries EXCEPT ![l] = @ + 1]
              /\ UNCHANGED worktrees
     \/ /\ tries' = [tries EXCEPT ![l] = Over]
        /\ UNCHANGED <<disk, branches, worktrees, unseen>>
     \/ /\ tries' = [tries EXCEPT ![l] = @ + 1]
        /\ UNCHANGED <<disk, branches, worktrees, unseen>>
  /\ UNCHANGED <<plan, main, pending, cur, inits, bookVars>>

\* All lanes are settled, some of them without a worktree.
Initialized ==
  /\ main = "creating" /\ \A l \in Lane : tries[l] > MaxRetry
  /\ main' = "ready"
  /\ UNCHANGED <<plan, pending, cur, laneVars, bookVars>>

\* shutdown, called once the completions under way are awaited: each destroy may
\* fail; the maps are cleared in any case, tasks in progress included.  The branch
\* of a lane is never deleted.
shutdown ==
  /\ main \in {"ready", "returned", "rejected"}
  /\ \A l \in Lane : comp[l] # "persist"
  /\ \E gone \in SUBSET worktrees : disk' = disk \ gone
  /\ worktrees' = {}
  /\ active' = [l \in Lane |-> NoTask]
  /\ comp' = [l \in Lane |-> "none"]
  /\ main' = "down"
  /\ UNCHANGED <<plan, pending, cur, tries, branches, unseen, inits, needs, status, run,
                 again>>

-----------------------------------------------------------------------------
(***************************************************************************)
(* executeAll and scheduleTask.                                            *)
(***************************************************************************)

\* executeAll may be called at any time, initialized or not, and any number of
\* times: the tasks may be new, ended, or still in progress after a rejection.
executeAll ==
  /\ main \in {"start", "ready", "returned", "rejected", "down"}
  /\ plan' \in Plans
  /\ pending' = plan'.order
  /\ main' = "loop"
  /\ UNCHANGED <<cur, laneVars, bookVars>>

\* Mutant: a dependency that failed counts as done.
DepsEnded(t) == \A d \in plan.deps[t] : status[d] \in {"completed", "failed"}

checkDependencies(t) == \A d \in plan.deps[t] : status[d] = "completed"

\* findAvailableWorktree takes the first of these in the order of the map, which
\* is the order in which the lanes happened to be created: any of them.
FreeLanes == worktrees \ Active

\* The synchronous part of scheduleTask for the head of the list.  A task that
\* cannot be scheduled goes back to the head and ends this round.
scheduleTask ==
  /\ main = "loop" /\ pending # << >>
  /\ \/ /\ checkDependencies(Head(pending))
        /\ \E l \in FreeLanes :
             /\ cur' = l
             /\ active' = [active EXCEPT ![l] = Head(pending)]
             /\ needs' = [needs EXCEPT ![l] = plan.deps[Head(pending)]]
        /\ again' = IF status[Head(pending)] = "absent" THEN again
                    ELSE again \cup {Head(pending)}
        /\ main' = "update"
     \/ /\ ~checkDependencies(Head(pending)) \/ FreeLanes = {}
        /\ main' = "sleep"
        /\ UNCHANGED <<cur, active, needs, again>>
  /\ UNCHANGED <<plan, pending, status, run, comp, laneVars>>

\* The updater: a new task is added and the run is "running"; a task that already
\* exists is in progress again, and the status of the run is left as it is.
UpdateScheduled ==
  /\ main = "update"
  /\ status' = [status EXCEPT ![Head(pending)] = "in_progress"]
  /\ run' = IF status[Head(pending)] = "absent" THEN "running" ELSE run
  /\ main' = "persist"
  /\ UNCHANGED <<plan, pending, cur, active, needs, comp, again, laneVars>>

\* The state is saved and the ledger entry written; a rejection is executeAll's.
PersistScheduled ==
  /\ main = "persist"
  /\ \/ pending' = Tail(pending) /\ main' = "loop"
     \/ MayReject /\ main' = "rejected" /\ UNCHANGED pending
  /\ UNCHANGED <<plan, cur, laneVars, bookVars>>

\* The head of the waiting loop, and the sleep of 100 ms.
LoopEnds ==
  /\ main = "loop" /\ pending = << >>
  /\ main' = IF Active = {} THEN "returned" ELSE "sleep"
  /\ UNCHANGED <<plan, pending, cur, laneVars, bookVars>>

WakeUp ==
  /\ main = "sleep"
  /\ main' = "loop"
  /\ UNCHANGED <<plan, pending, cur, laneVars, bookVars>>

-----------------------------------------------------------------------------
(***************************************************************************)
(* completeTask, called for a task once it has run.                        *)
(***************************************************************************)

Running(l) == /\ active[l] # NoTask /\ comp[l] = "none"
              /\ ~(main \in {"update", "persist"} /\ cur = l)

\* Mutant: the lane of the task is left out of the count, and the bound kept.
completeTaskMiscounted(l, result) ==
  /\ Running(l)
  /\ status' = [status EXCEPT ![active[l]] = result]
  /\ run' = IF Cardinality(Active \ {l}) <= 1 THEN "idle" ELSE "running"
  /\ comp' = [comp EXCEPT ![l] = "persist"]
  /\ UNCHANGED <<plan, main, pending, cur, active, needs, again, laneVars>>

\* executeTaskWithFallback gives the output or, once the providers are
\* exhausted, the error; the updater records it and looks at how many lanes
\* are busy, its own included.
completeTask(l, result) ==
  /\ Running(l)
  /\ status' = [status EXCEPT ![active[l]] = result]
  /\ run' = IF Cardinality(Active) <= 1 THEN "idle" ELSE "running"
  /\ comp' = [comp EXCEPT ![l] = "persist"]
  /\ UNCHANGED <<plan, main, pending, cur, active, needs, again, laneVars>>

\* Mutant: the lane is not given back.
PersistCompletedKept(l) ==
  /\ comp[l] = "persist"
  /\ comp' = [comp EXCEPT ![l] = "none"]
  /\ UNCHANGED <<plan, main, pending, cur, active, needs, again, status, run, laneVars>>

\* Save and ledger entry, then the lane is free; a rejection keeps it taken.
PersistCompleted(l) ==
  /\ comp[l] = "persist"
  /\ \/ /\ active' = [active EXCEPT ![l] = NoTask]
        /\ comp' = [comp EXCEPT ![l] = "none"]
     \/ /\ MayReject
        /\ comp' = [comp EXCEPT ![l] = "lost"]
        /\ UNCHANGED active
  /\ UNCHANGED <<plan, main, pending, cur, needs, again, status, run, laneVars>>

Call == initialize \/ executeAll \/ shutdown

Step ==
  \/ Initialized \/ scheduleTask \/ UpdateScheduled \/ PersistScheduled
  \/ LoopEnds \/ WakeUp

LaneStep(l) ==
  \/ CreateLane(l) \/ PersistCompleted(l)
  \/ \E result \in {"completed", "failed"} : completeTask(l, result)

Next == Call \/ Step \/ \E l \in Lane : LaneStep(l)

\* Timers fire, promises settle, and every task that was started is reported.
Fairness == WF_vars(Step) /\ \A l \in Lane : WF_vars(LaneStep(l))

Spec == Init /\ [][Next]_vars /\ Fairness

-----------------------------------------------------------------------------
(***************************************************************************)
(* Properties.                                                             *)
(***************************************************************************)

\* A task holds a lane only while every task it depends on has succeeded, whatever
\* completes or fails in the meantime.  The exception is a dependency that was
\* scheduled once more: it is in progress again, or fails, under the tasks that
\* were started on its first success.
DependenciesFirst ==
  \A l \in Active : \A d \in needs[l] : status[d] = "completed" \/ d \in again

\* The run is never recorded as idle while a task holds a lane and is recorded as
\* in progress: a task takes its lane before the first await of scheduleTask, so
\* that the completion of another task counts it.  The exception is a task that
\* already existed when it was scheduled, because the branch for such a task does
\* not set the run to running.
IdleMeansNothingInProgress ==
  run = "idle" => \A l \in Active : status[active[l]] = "in_progress" => active[l] \in again

\* Every lane that tasks are given exists on disk and has its branch, and a lane
\* whose creation was not answered is never among them: the repeated call fails
\* because the branch exists, so its worktree stays on disk unused and
\* unregistered, where shutdown does not find it.
LanesMatchDisk ==
  /\ worktrees \subseteq disk \cap branches
  /\ unseen \subseteq disk \ worktrees

\* What keeps executeAll from ever returning: no lane was created; the task at
\* the head of the list waits for one that has not completed and that no lane is
\* running (it failed, stands behind it, or was in progress at a shutdown); or a
\* rejected completion keeps a lane.
Stuck ==
  \/ pending # << >> /\ worktrees = {}
  \/ pending # << >> /\ \E d \in plan.deps[Head(pending)] :
       status[d] # "completed" /\ \A l \in Active : active[l] # d
  \/ \E l \in Lane : comp[l] = "lost"

\* executeAll returns or rejects unless it is stuck in one of these ways: all
\* the other tasks are scheduled and every lane comes back.
ExecuteAllEnds ==
  (main = "loop") ~> (main \in {"returned", "rejected"} \/ Stuck)

=============================================================================
