----------------------- MODULE ParallelSchedulerProofs -----------------------
(***************************************************************************)
(* Theorems about ParallelScheduler, for any plans (a plan may repeat a    *)
(* task), lanes and retries, and any sequence of calls of executeAll.      *)
(***************************************************************************)
EXTENDS ParallelScheduler, TLAPS, FiniteSetTheorems

LEMMA PlanType == ASSUME TypeOK PROVE plan.order \in Seq(Task) /\ plan.deps \in [Task -> SUBSET Task]
BY SchedulerAssumption DEF TypeOK

LEMMA PendingType ==
  ASSUME TypeOK, pending # << >>
  PROVE  Head(pending) \in Task /\ Tail(pending) \in Seq(Task)
<1>1. pending \in Seq(Task)
  BY DEF TypeOK
<1> QED
  BY <1>1

LEMMA TypeInit == Init => TypeOK
<1> SUFFICES ASSUME Init PROVE TypeOK
  OBVIOUS
<1>1. tries \in [Lane -> 0 .. Over] /\ inits \in 0 .. MaxInit
  BY SchedulerAssumption DEF Init, Over
<1>2. pending \in Seq(Task)
  BY DEF Init
<1> QED
  BY <1>1, <1>2 DEF Init, TypeOK, TaskStatus

\* While a task is being scheduled it is the head of the list.
HasHead == main \in {"update", "persist"} => pending # << >> /\ cur \in Lane

LEMMA TypeStep == TypeOK /\ HasHead /\ [Next]_vars => TypeOK' /\ HasHead'
<1> SUFFICES ASSUME TypeOK, HasHead, [Next]_vars PROVE TypeOK' /\ HasHead'
  OBVIOUS
<1> USE DEF laneVars, bookVars
<1>1. CASE initialize
  <2>1. tries' \in [Lane -> 0 .. Over] /\ inits' \in 0 .. MaxInit
    BY <1>1, SchedulerAssumption DEF initialize, TypeOK, Over
  <2> QED
    BY <1>1, <2>1 DEF initialize, TypeOK, HasHead
<1>2. ASSUME NEW l \in Lane, CreateLane(l) PROVE TypeOK' /\ HasHead'
  <2>1. tries[l] + 1 \in 0 .. Over /\ Over \in 0 .. Over
    BY <1>2, SchedulerAssumption DEF CreateLane, TypeOK, Over
  <2>2. tries' \in [Lane -> 0 .. Over]
    BY <1>2, <2>1 DEF CreateLane, TypeOK
  <2> QED
    BY <1>2, <2>2 DEF CreateLane, TypeOK, HasHead
<1>3. CASE Initialized
  BY <1>3 DEF Initialized, TypeOK, HasHead
<1>4. CASE shutdown
  <2>1. main' = "down" /\ active' = [l \in Lane |-> NoTask] /\ comp' = [l \in Lane |-> "none"]
        /\ worktrees' = {} /\ disk' \subseteq disk
    BY <1>4 DEF shutdown
  <2> QED
    BY <1>4, <2>1 DEF shutdown, TypeOK, HasHead
<1>5. CASE executeAll
  <2>1. plan' \in Plans /\ pending' \in Seq(Task)
    BY <1>5, SchedulerAssumption DEF executeAll
  <2> QED
    BY <1>5, <2>1 DEF executeAll, TypeOK, HasHead
<1>6. CASE scheduleTask
  <2>1. Head(pending) \in Task
    BY <1>6, PendingType DEF scheduleTask
  <2>2. ASSUME NEW l \in FreeLanes, cur' = l, main' = "update",
               active' = [active EXCEPT ![l] = Head(pending)],
               needs' = [needs EXCEPT ![l] = plan.deps[Head(pending)]],
               again' = IF status[Head(pending)] = "absent" THEN again
                        ELSE again \cup {Head(pending)}
        PROVE  TypeOK' /\ HasHead'
    <3>1. l \in Lane
      BY DEF TypeOK, FreeLanes
    <3>2. active' \in [Lane -> Task \cup {NoTask}]
      BY <2>1, <2>2, <3>1 DEF TypeOK
    <3>3. needs' \in [Lane -> SUBSET Task]
      BY <2>1, <2>2, <3>1, PlanType DEF TypeOK
    <3>4. again' \in SUBSET Task
      BY <2>1, <2>2 DEF TypeOK
    <3> QED
      BY <1>6, <2>2, <3>1, <3>2, <3>3, <3>4 DEF scheduleTask, TypeOK, HasHead
  <2>3. CASE main' = "sleep" /\ UNCHANGED <<cur, active, needs, again>>
    BY <1>6, <2>3 DEF scheduleTask, TypeOK, HasHead
  <2> QED
    BY <1>6, <2>2, <2>3 DEF scheduleTask
<1>7. CASE UpdateScheduled
  <2>1. status' \in [Task -> TaskStatus]
    BY <1>7 DEF UpdateScheduled, TypeOK, TaskStatus
  <2> QED
    BY <1>7, <2>1 DEF UpdateScheduled, TypeOK, HasHead
<1>8. CASE PersistScheduled
  BY <1>8, PendingType DEF PersistScheduled, TypeOK, HasHead
<1>9. CASE LoopEnds \/ WakeUp
  BY <1>9 DEF LoopEnds, WakeUp, TypeOK, HasHead
<1>10. ASSUME NEW l \in Lane, NEW r \in {"completed", "failed"}, completeTask(l, r)
       PROVE  TypeOK' /\ HasHead'
  <2>1. status' \in [Task -> TaskStatus]
    BY <1>10 DEF completeTask, TypeOK, TaskStatus
  <2> QED
    BY <1>10, <2>1 DEF completeTask, TypeOK, HasHead
<1>11. ASSUME NEW l \in Lane, PersistCompleted(l) PROVE TypeOK' /\ HasHead'
  BY <1>11 DEF PersistCompleted, TypeOK, HasHead
<1>12. CASE UNCHANGED vars
  BY <1>12 DEF vars, TypeOK, HasHead
<1> QED
  BY <1>1, <1>2, <1>3, <1>4, <1>5, <1>6, <1>7, <1>8, <1>9, <1>10, <1>11, <1>12
     DEF Next, Call, Step, LaneStep

\* Every variable of the scheduler keeps its type.
THEOREM TypeCorrect == Spec => []TypeOK
<1>1. Init => TypeOK /\ HasHead
  BY TypeInit DEF Init, HasHead
<1> QED
  BY <1>1, TypeStep, PTL DEF Spec
-----------------------------------------------------------------------------
(***************************************************************************)
(* The inductive invariant.  A task in a lane is known to the state        *)
(* machine, except the one just taken by scheduleTask; a task that is in   *)
(* two lanes, or in a lane that has yet to report it although it has       *)
(* ended, was scheduled again.                                             *)
(***************************************************************************)

Taken(l) == main = "update" /\ cur = l

Known ==
  /\ main = "update" => /\ active[cur] = Head(pending)
                        /\ status[Head(pending)] = "absent" \/ Head(pending) \in again
  /\ \A l \in Active : status[active[l]] # "absent" \/ Taken(l)

Unique ==
  \A k, l \in Active : active[k] = active[l] => k = l \/ active[k] \in again

Reported ==
  \A l \in Active : comp[l] = "none" =>
    \/ status[active[l]] = "in_progress"
    \/ active[l] \in again
    \/ Taken(l)

\* Only a task in a lane is being reported, and not the one just taken.
Fresh ==
  /\ \A l \in Lane : comp[l] # "none" => l \in Active
  /\ main = "update" => comp[cur] = "none"

IInv == /\ TypeOK /\ HasHead /\ Known /\ Unique /\ Reported /\ Fresh
        /\ DependenciesFirst /\ IdleMeansNothingInProgress

LEMMA IInvInit == Init => IInv
<1> SUFFICES ASSUME Init PROVE IInv
  OBVIOUS
<1>1. TypeOK
  BY TypeInit
<1>2. Active = {} /\ main = "start" /\ \A l \in Lane : comp[l] = "none"
  BY DEF Init, Active
<1> QED
  BY <1>1, <1>2
     DEF IInv, Fresh, HasHead, Known, Unique, Reported, DependenciesFirst, IdleMeansNothingInProgress

LEMMA ActiveType == ASSUME TypeOK, NEW l \in Active PROVE l \in Lane /\ active[l] \in Task
BY DEF TypeOK, Active

\* A step that only moves the caller on, and does not begin or end the taking of a
\* lane.
LEMMA CallerMoves ==
  ASSUME IInv, TypeOK', HasHead', UNCHANGED bookVars, main # "update", main' # "update"
  PROVE  IInv'
BY DEF IInv, bookVars, Known, Unique, Fresh, Reported, DependenciesFirst, IdleMeansNothingInProgress,
       Active, Taken

LEMMA ScheduleStep ==
  ASSUME IInv, TypeOK', HasHead', NEW l \in FreeLanes, main = "loop", pending # << >>,
         checkDependencies(Head(pending)), cur' = l, main' = "update",
         active' = [active EXCEPT ![l] = Head(pending)],
         needs' = [needs EXCEPT ![l] = plan.deps[Head(pending)]],
         again' = IF status[Head(pending)] = "absent" THEN again
                  ELSE again \cup {Head(pending)},
         UNCHANGED <<plan, pending, status, run, comp>>
  PROVE  IInv'
<1> DEFINE h == Head(pending)
<1>1. h \in Task
  BY PendingType DEF IInv
<1>2. l \in Lane /\ l \notin Active
  BY DEF IInv, TypeOK, FreeLanes
<1>3. /\ active'[l] = h /\ needs'[l] = plan.deps[h]
      /\ \A k \in Lane \ {l} : active'[k] = active[k] /\ needs'[k] = needs[k]
  BY <1>2 DEF IInv, TypeOK
<1>4. Active' = Active \cup {l} /\ \A k \in Active : k \in Lane \ {l}
  BY <1>1, <1>2, <1>3, SchedulerAssumption DEF Active
<1>5. again \subseteq again' /\ (status[h] # "absent" => h \in again') /\ status' = status
  OBVIOUS
<1>6. checkDependencies(h)
  OBVIOUS
<1>7. pending' = pending /\ run' = run /\ comp' = comp /\ cur' = l /\ main' = "update"
      /\ main = "loop"
  OBVIOUS
<1> HIDE DEF h
<1>8. Known'
  <2>1. active'[cur'] = Head(pending') /\ (status'[Head(pending')] = "absent" \/ Head(pending') \in again')
    BY <1>3, <1>5, <1>7 DEF h
  <2>2. \A k \in Active' : status'[active'[k]] # "absent" \/ (main' = "update" /\ cur' = k)
    BY <1>3, <1>4, <1>5, <1>7 DEF IInv, Known, Taken
  <2> QED
    BY <2>1, <2>2 DEF Known, Taken
<1>9. Unique'
  <2>1. \A k \in Active : active[k] = h => h \in again'
    BY <1>5, <1>7 DEF IInv, Known, Taken
  <2> QED
    BY <1>3, <1>4, <1>5, <2>1 DEF IInv, Unique
<1>10. Reported'
  BY <1>3, <1>4, <1>5, <1>7 DEF IInv, Reported, Taken
<1>11. DependenciesFirst'
  BY <1>3, <1>4, <1>5, <1>6 DEF IInv, DependenciesFirst, checkDependencies
<1>12. IdleMeansNothingInProgress'
  <2>1. status[h] = "in_progress" => h \in again'
    BY <1>5
  <2> QED
    BY <1>3, <1>4, <1>5, <1>7, <2>1 DEF IInv, IdleMeansNothingInProgress
<1>13. Fresh'
  BY <1>2, <1>4, <1>7 DEF IInv, Fresh
<1> QED
  BY <1>8, <1>9, <1>10, <1>11, <1>12, <1>13 DEF IInv

LEMMA UpdateStep ==
  ASSUME IInv, TypeOK', HasHead', UpdateScheduled
  PROVE  IInv'
<1> DEFINE h == Head(pending)
<1>1. /\ main = "update" /\ main' = "persist"
      /\ status' = [status EXCEPT ![h] = "in_progress"]
      /\ run' = IF status[h] = "absent" THEN "running" ELSE run
      /\ UNCHANGED <<plan, pending, cur, active, needs, comp, again>>
  BY DEF UpdateScheduled
<1>2. h \in Task /\ active[cur] = h /\ (status[h] = "absent" \/ h \in again)
  BY <1>1, PendingType DEF IInv, HasHead, Known
<1> HIDE DEF h
<1>3. status'[h] = "in_progress" /\ \A t \in Task \ {h} : status'[t] = status[t]
  BY <1>1, <1>2 DEF IInv, TypeOK
<1>4. Active' = Active
  BY <1>1 DEF Active
<1>5. \A k \in Active : k \in Lane /\ active[k] \in Task
  BY ActiveType DEF IInv
<1>6. \A k \in Active : needs[k] \subseteq Task
  BY <1>5 DEF IInv, TypeOK
<1>7. Known'
  BY <1>1, <1>2, <1>3, <1>4, <1>5 DEF IInv, Known, Taken
<1>8. Unique'
  BY <1>1, <1>4 DEF IInv, Unique
<1>9. Reported'
  BY <1>1, <1>2, <1>3, <1>4, <1>5 DEF IInv, Reported, Taken
<1>10. DependenciesFirst'
  BY <1>1, <1>2, <1>3, <1>4, <1>6 DEF IInv, DependenciesFirst
<1>11. IdleMeansNothingInProgress'
  <2>1. CASE status[h] = "absent"
    BY <1>1, <2>1 DEF IdleMeansNothingInProgress
  <2>2. CASE status[h] # "absent"
    BY <1>1, <1>2, <1>3, <1>4, <1>5, <2>2 DEF IInv, IdleMeansNothingInProgress
  <2> QED
    BY <2>1, <2>2
<1>12. Fresh'
  BY <1>1, <1>4 DEF IInv, Fresh
<1> QED
  BY <1>7, <1>8, <1>9, <1>10, <1>11, <1>12 DEF IInv

\* Two busy lanes are counted.
LEMMA TwoBusy ==
  ASSUME NEW k \in Active, NEW l \in Active, k # l
  PROVE  ~(Cardinality(Active) <= 1)
<1>1. IsFiniteSet(Active)
  <2>1. IsFiniteSet(Lane)
    BY FS_Interval, SchedulerAssumption DEF Lane
  <2> QED
    BY <2>1, FS_Subset DEF Active
<1>2. Cardinality({k, l}) = 2
  <2>1. IsFiniteSet({l}) /\ Cardinality({l}) = 1
    BY FS_Singleton
  <2>2. k \notin {l} /\ {k, l} = {l} \cup {k}
    OBVIOUS
  <2>3. Cardinality({l} \cup {k}) = Cardinality({l}) + 1
    BY <2>1, <2>2, FS_AddElement
  <2> QED
    BY <2>1, <2>2, <2>3
<1>3. Cardinality({k, l}) <= Cardinality(Active)
  BY <1>1, FS_Subset
<1>4. Cardinality(Active) \in Nat
  BY <1>1, FS_CardinalityType
<1> QED
  BY <1>2, <1>3, <1>4

LEMMA CompleteStep ==
  ASSUME IInv, TypeOK', HasHead', NEW l \in Lane, NEW r \in {"completed", "failed"},
         completeTask(l, r)
  PROVE  IInv'
<1> DEFINE t == active[l]
<1>1. /\ t # NoTask /\ comp[l] = "none" /\ ~(main \in {"update", "persist"} /\ cur = l)
      /\ status' = [status EXCEPT ![t] = r]
      /\ run' = IF Cardinality(Active) <= 1 THEN "idle" ELSE "running"
      /\ comp' = [comp EXCEPT ![l] = "persist"]
      /\ UNCHANGED <<plan, main, pending, cur, active, needs, again>>
  BY DEF completeTask, Running
<1>2. t \in Task /\ l \in Active
  BY <1>1 DEF IInv, TypeOK, Active
<1>3. active[l] = t
  OBVIOUS
<1> HIDE DEF t
<1>4. status'[t] = r /\ r # "absent" /\ r # "in_progress"
      /\ \A u \in Task \ {t} : status'[u] = status[u]
  BY <1>1, <1>2 DEF IInv, TypeOK
<1>5. comp'[l] = "persist" /\ \A k \in Lane \ {l} : comp'[k] = comp[k]
  BY <1>1 DEF IInv, TypeOK
<1>6. Active' = Active
  BY <1>1 DEF Active
<1>7. \A k \in Active : k \in Lane /\ active[k] \in Task
  BY ActiveType DEF IInv
<1>8. \A k \in Active : needs[k] \subseteq Task
  BY <1>7 DEF IInv, TypeOK
\* A task that ends for the second time was scheduled again.
<1>9. status[t] = "in_progress" \/ t \in again
  BY <1>1, <1>2, <1>3 DEF IInv, Reported, Taken
<1>10. Known'
  <2>1. main = "update" => status[Head(pending)] = status'[Head(pending)] \/ Head(pending) \in again
    <3>1. SUFFICES ASSUME main = "update", Head(pending) \notin again
                   PROVE  status[Head(pending)] = status'[Head(pending)]
      OBVIOUS
    <3>2. Head(pending) \in Task /\ status[Head(pending)] = "absent"
      BY <3>1, PendingType DEF IInv, HasHead, Known
    <3> QED
      BY <1>4, <1>9, <3>1, <3>2
  <2>2. \A k \in Active : status'[active[k]] # "absent" \/ Taken(k)
    BY <1>4, <1>7 DEF IInv, Known
  <2> QED
    BY <1>1, <1>6, <2>1, <2>2 DEF IInv, Known, Taken
<1>11. Unique'
  BY <1>1, <1>6 DEF IInv, Unique
<1>12. Reported'
  <2>1. ASSUME NEW k \in Active, comp'[k] = "none"
        PROVE  status'[active[k]] = "in_progress" \/ active[k] \in again \/ Taken(k)
    <3>1. k # l /\ comp[k] = "none" /\ k \in Lane
      BY <1>5, <1>7, <2>1
    <3>2. active[k] = t => t \in again
      BY <1>2, <1>3, <3>1 DEF IInv, Unique
    <3> QED
      BY <1>4, <1>7, <3>1, <3>2 DEF IInv, Reported
  <2> QED
    BY <1>1, <1>6, <2>1 DEF Reported, Taken
<1>13. DependenciesFirst'
  BY <1>1, <1>4, <1>6, <1>8, <1>9 DEF IInv, DependenciesFirst
<1>14. IdleMeansNothingInProgress'
  <2>1. SUFFICES ASSUME Cardinality(Active) <= 1, NEW k \in Active,
                        status'[active[k]] = "in_progress"
                 PROVE  FALSE
    BY <1>1, <1>6 DEF IdleMeansNothingInProgress
  <2>2. k # l
    BY <1>3, <1>4, <2>1
  <2> QED
    BY <1>2, <2>1, <2>2, TwoBusy
<1>15. Fresh'
  BY <1>1, <1>2, <1>5, <1>6 DEF IInv, Fresh, HasHead
<1> QED
  BY <1>10, <1>11, <1>12, <1>13, <1>14, <1>15 DEF IInv

LEMMA IInvStep == IInv /\ [Next]_vars => IInv'
<1> SUFFICES ASSUME IInv, [Next]_vars PROVE IInv'
  OBVIOUS
<1>t. TypeOK' /\ HasHead'
  BY TypeStep DEF IInv
<1> USE DEF laneVars
<1>1. CASE initialize \/ Initialized \/ executeAll \/ PersistScheduled \/ LoopEnds \/ WakeUp
  <2>1. UNCHANGED bookVars /\ main # "update" /\ main' # "update"
    BY <1>1 DEF initialize, Initialized, executeAll, PersistScheduled, LoopEnds, WakeUp
  <2> QED
    BY <1>t, <2>1, CallerMoves
<1>2. ASSUME NEW l \in Lane, CreateLane(l) PROVE IInv'
  <2>1. UNCHANGED bookVars /\ main # "update" /\ main' # "update"
    BY <1>2 DEF CreateLane
  <2> QED
    BY <1>t, <2>1, CallerMoves
<1>3. CASE shutdown
  <2>1. /\ main # "update" /\ main' = "down" /\ active' = [l \in Lane |-> NoTask]
        /\ UNCHANGED <<needs, status, run, again>>
    BY <1>3 DEF shutdown
  <2>2. Active' = {} /\ \A l \in Lane : comp'[l] = "none"
    BY <1>3, <2>1 DEF shutdown, Active
  <2> QED
    BY <1>t, <2>1, <2>2 DEF IInv, Known, Unique, Reported, Fresh, DependenciesFirst,
                            IdleMeansNothingInProgress
<1>4. CASE scheduleTask
  <2>1. CASE main' = "sleep" /\ UNCHANGED <<cur, active, needs, again>>
    <3>1. UNCHANGED bookVars /\ main # "update" /\ main' # "update"
      BY <1>4, <2>1 DEF scheduleTask, bookVars
    <3> QED
      BY <1>t, <3>1, CallerMoves
  <2>2. CASE main' # "sleep"
    <3>1. PICK l \in FreeLanes :
            /\ cur' = l
            /\ active' = [active EXCEPT ![l] = Head(pending)]
            /\ needs' = [needs EXCEPT ![l] = plan.deps[Head(pending)]]
      BY <1>4, <2>2 DEF scheduleTask
    <3>2. /\ main = "loop" /\ pending # << >> /\ checkDependencies(Head(pending))
          /\ again' = IF status[Head(pending)] = "absent" THEN again
                      ELSE again \cup {Head(pending)}
          /\ main' = "update" /\ UNCHANGED <<plan, pending, status, run, comp>>
      BY <1>4, <2>2 DEF scheduleTask
    <3> QED
      BY <1>t, <3>1, <3>2, ScheduleStep
  <2> QED
    BY <1>4, <2>1, <2>2 DEF scheduleTask
<1>5. CASE UpdateScheduled
  BY <1>5, <1>t, UpdateStep
<1>6. ASSUME NEW l \in Lane, NEW r \in {"completed", "failed"}, completeTask(l, r)
      PROVE  IInv'
  BY <1>6, <1>t, CompleteStep
<1>7. ASSUME NEW l \in Lane, PersistCompleted(l) PROVE IInv'
  <2>1. comp[l] = "persist" /\ UNCHANGED <<plan, main, pending, cur, needs, again, status, run>>
    BY <1>7 DEF PersistCompleted
  <2>2. CASE active' = [active EXCEPT ![l] = NoTask] /\ comp' = [comp EXCEPT ![l] = "none"]
    <3>1. active'[l] = NoTask
          /\ \A k \in Lane \ {l} : active'[k] = active[k] /\ comp'[k] = comp[k]
      BY <2>2 DEF IInv, TypeOK
    <3>2. Active' = Active \ {l}
      BY <3>1 DEF Active
    <3>3. \A k \in Active' : k \in Active /\ active'[k] = active[k] /\ comp'[k] = comp[k]
      BY <3>1, <3>2 DEF Active
    <3>4. Known'
      <4>1. main = "update" => active'[cur] = active[cur]
        <5>1. SUFFICES ASSUME main = "update" PROVE cur # l /\ cur \in Lane
          BY <3>1
        <5> QED
          BY <2>1, <5>1 DEF IInv, HasHead, Fresh
      <4> QED
        BY <2>1, <3>3, <4>1 DEF IInv, Known, Taken
    <3>5. Unique' /\ Reported'
      BY <2>1, <3>3 DEF IInv, Unique, Reported, Taken
    <3>6. DependenciesFirst' /\ IdleMeansNothingInProgress'
      BY <2>1, <3>3 DEF IInv, DependenciesFirst, IdleMeansNothingInProgress
    <3>7. Fresh'
      <4>1. comp'[l] = "none" /\ (main = "update" => cur \in Lane)
        BY <2>2 DEF IInv, TypeOK, HasHead
      <4> QED
        BY <2>1, <3>1, <3>2, <4>1 DEF IInv, Fresh
    <3> QED
      BY <1>t, <3>4, <3>5, <3>6, <3>7 DEF IInv
  <2>3. CASE comp' = [comp EXCEPT ![l] = "lost"] /\ UNCHANGED active
    <3>1. \A k \in Lane : comp'[k] = "none" => comp[k] = "none"
      BY <2>3 DEF IInv, TypeOK
    <3>2. Active' = Active /\ \A k \in Active : k \in Lane
      BY <2>3 DEF Active
    <3>3. Known' /\ Unique'
      BY <2>1, <2>3, <3>2 DEF IInv, Known, Unique, Taken
    <3>4. Reported'
      BY <2>1, <2>3, <3>1, <3>2 DEF IInv, Reported, Taken
    <3>5. DependenciesFirst' /\ IdleMeansNothingInProgress'
      BY <2>1, <2>3, <3>2 DEF IInv, DependenciesFirst, IdleMeansNothingInProgress
    <3>6. Fresh'
      <4>1. l \in Active /\ (main = "update" => cur # l /\ cur \in Lane)
        BY <2>1 DEF IInv, Fresh, HasHead
      <4>2. \A k \in Lane \ {l} : comp'[k] = comp[k]
        BY <2>3 DEF IInv, TypeOK
      <4> QED
        BY <2>1, <3>2, <4>1, <4>2 DEF IInv, Fresh
    <3> QED
      BY <1>t, <3>3, <3>4, <3>5, <3>6 DEF IInv
  <2> QED
    BY <1>7, <2>2, <2>3 DEF PersistCompleted
<1>8. CASE UNCHANGED vars
  <2>1. UNCHANGED <<main, pending, cur, active, needs, status, run, comp, again>>
    BY <1>8 DEF vars, bookVars
  <2>2. Active' = Active
    BY <2>1 DEF Active
  <2> QED
    BY <1>t, <2>1, <2>2 DEF IInv, Known, Unique, Reported, Fresh, DependenciesFirst,
                            IdleMeansNothingInProgress, Taken
<1> QED
  BY <1>1, <1>2, <1>3, <1>4, <1>5, <1>6, <1>7, <1>8 DEF Next, Call, Step, LaneStep

\* No task holds a lane before everything it depends on has succeeded, and that
\* never changes while it runs unless a dependency is scheduled once more:
\* scheduleTask looks at the dependencies before its awaits, and what completeTask
\* has recorded is final for a task that is scheduled once.
THEOREM DependencyOrder == Spec => []DependenciesFirst
<1>1. IInv => DependenciesFirst
  BY DEF IInv
<1> QED
  BY <1>1, IInvInit, IInvStep, PTL DEF Spec

\* The run is recorded as idle only when no lane holds a task in progress that is
\* scheduled for the first time, for any number of lanes, any order of completions
\* and any calls of executeAll, rejected ones included.
THEOREM IdleIsIdle == Spec => []IdleMeansNothingInProgress
<1>1. IInv => IdleMeansNothingInProgress
  BY DEF IInv
<1> QED
  BY <1>1, IInvInit, IInvStep, PTL DEF Spec

-----------------------------------------------------------------------------
(***************************************************************************)
(* The lanes.                                                              *)
(***************************************************************************)

\* The lanes that tasks are given are on disk with their branches, and a lane
\* whose creation was not answered is never among them: git refuses to add it a
\* second time, however often executeWithRetry asks.
THEOREM LanesOnDisk == Spec => []LanesMatchDisk
<1>1. Init => LanesMatchDisk
  BY DEF Init, LanesMatchDisk
<1>2. LanesMatchDisk /\ [Next]_vars => LanesMatchDisk'
  <2> SUFFICES ASSUME LanesMatchDisk, [Next]_vars PROVE LanesMatchDisk'
    OBVIOUS
  <2> USE DEF LanesMatchDisk
  <2>1. CASE initialize
    BY <2>1 DEF initialize
  <2>2. ASSUME NEW l \in Lane, CreateLane(l) PROVE LanesMatchDisk'
    <3>1. CASE GitAdds(l) /\ disk' = disk \cup {l} /\ branches' = branches \cup {l}
      <4>1. l \notin unseen /\ l \notin worktrees
        BY <3>1 DEF GitAdds
      <4>2. CASE worktrees' = worktrees \cup {l} /\ UNCHANGED unseen
        BY <3>1, <4>1, <4>2
      <4>3. CASE unseen' = unseen \cup {l} /\ UNCHANGED worktrees
        BY <3>1, <4>1, <4>3
      <4>4. CASE UNCHANGED <<disk, branches, worktrees, unseen>>
        BY <4>4
      <4> QED
        BY <2>2, <4>2, <4>3, <4>4 DEF CreateLane
    <3>2. CASE UNCHANGED <<disk, branches, worktrees, unseen>>
      BY <3>2
    <3> QED
      BY <2>2, <3>1, <3>2 DEF CreateLane
  <2>3. CASE shutdown
    <3>1. PICK gone \in SUBSET worktrees : disk' = disk \ gone
      BY <2>3 DEF shutdown
    <3>2. worktrees' = {} /\ UNCHANGED <<branches, unseen>>
      BY <2>3 DEF shutdown
    <3> QED
      BY <3>1, <3>2
  <2>4. CASE UNCHANGED laneVars
    BY <2>4 DEF laneVars
  <2>5. initialize \/ (\E l \in Lane : CreateLane(l)) \/ shutdown \/ UNCHANGED laneVars
    BY DEF Next, Call, Step, LaneStep, Initialized, executeAll, scheduleTask,
           UpdateScheduled, PersistScheduled, LoopEnds, WakeUp, completeTask,
           PersistCompleted, vars
  <2> QED
    BY <2>1, <2>2, <2>3, <2>4, <2>5
<1> QED
  BY <1>1, <1>2, PTL DEF Spec
=============================================================================
