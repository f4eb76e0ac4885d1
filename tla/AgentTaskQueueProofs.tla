------------------------ MODULE AgentTaskQueueProofs ------------------------
(***************************************************************************)
(* Proofs about AgentTaskQueue for every set of tasks, workers and         *)
(* operators and every bound.                                              *)
(***************************************************************************)
EXTENDS AgentTaskQueue, FiniteSetTheorems, TLAPS

USE DEF Statuses, Locations, Settled

(* Every worker scans at least one queue.                                  *)
LEMMA QueueLengths == \A w \in Workers : Len(WorkerQueues[w]) \in Nat \ {0}
<1> SUFFICES ASSUME NEW w \in Workers PROVE Len(WorkerQueues[w]) \in Nat \ {0}
  OBVIOUS
<1>1. WorkerQueues[w] \in Seq(Queues) /\ WorkerQueues[w] # <<>>
  BY QueueAssumption
<1>2. QED
  BY <1>1

(* The queue's state has its types, whatever overruns and races happen.    *)
THEOREM TypeCorrect == Spec => []TypeOK
<1>1. Init => TypeOK
  BY QueueAssumption DEF Init, TypeOK, Busy
<1>2. TypeOK /\ [Next]_vars => TypeOK'
  <2> SUFFICES ASSUME TypeOK, [Next]_vars PROVE TypeOK'
    OBVIOUS
  <2> USE QueueAssumption DEF TypeOK, Busy, taskVars, workerVars, boundVars
  <2>1. ASSUME NEW S \in SUBSET Tasks, EnqueueAgentTask(S) PROVE TypeOK'
    BY <2>1 DEF EnqueueAgentTask
  <2>2. ASSUME NEW w \in Workers, TryRepairLock(w) PROVE TypeOK'
    BY <2>2 DEF TryRepairLock
  <2>3. ASSUME NEW w \in Workers, RequeueExpiredTasks(w) PROVE TypeOK'
    BY <2>3 DEF RequeueExpiredTasks, ExpiredLeases
  <2>4. ASSUME NEW w \in Workers, NEW t \in Tasks, ClaimTask(w, t) PROVE TypeOK'
    BY <2>4 DEF ClaimTask
  <2>5. ASSUME NEW w \in Workers, ClaimNothing(w) PROVE TypeOK'
    <3>1. \A v \in Workers : Len(WorkerQueues[v]) \in Nat \ {0}
      BY QueueLengths
    <3>2. \/ cursor[w] < Len(WorkerQueues[w]) /\ cursor' = [cursor EXCEPT ![w] = @ + 1]
          \/ cursor' = [cursor EXCEPT ![w] = 1]
      BY <2>5 DEF ClaimNothing
    <3>3. /\ cursor' \in [Workers -> Nat \ {0}]
          /\ \A v \in Workers : cursor'[v] <= Len(WorkerQueues[v])
      <4> HIDE QueueAssumption
      <4>1. CASE cursor[w] < Len(WorkerQueues[w]) /\ cursor' = [cursor EXCEPT ![w] = @ + 1]
        BY <3>1, <4>1
      <4>2. CASE cursor' = [cursor EXCEPT ![w] = 1]
        BY <3>1, <4>2
      <4>3. QED
        BY <3>2, <4>1, <4>2
    <3>4. pc' \in [Workers -> Locations] /\ \A v \in Workers : Busy(v)' <=> job'[v] # None
      BY <2>5 DEF ClaimNothing
    <3>5. QED
      BY <2>5, <3>3, <3>4 DEF ClaimNothing
  <2>6. ASSUME NEW w \in Workers, StartAgentRun(w) PROVE TypeOK'
    BY <2>6 DEF StartAgentRun
  <2>7. ASSUME NEW w \in Workers, RecordCompletedTask(w) PROVE TypeOK'
    BY <2>7 DEF RecordCompletedTask, EndTurn, ClearLease
  <2>8. ASSUME NEW w \in Workers, RecordFailedTask(w) PROVE TypeOK'
    BY <2>8 DEF RecordFailedTask, EndTurn, ClearLease
  <2>9. ASSUME NEW w \in Workers, WorkerStops(w) PROVE TypeOK'
    BY <2>9 DEF WorkerStops
  <2>10. ASSUME NEW w \in Workers, WorkerStarts(w) PROVE TypeOK'
    BY <2>10 DEF WorkerStarts
  <2>11. ASSUME NEW o \in Operators, NEW t \in Tasks, RetryCheck(o, t) PROVE TypeOK'
    BY <2>11 DEF RetryCheck
  <2>12. ASSUME NEW o \in Operators, RetryUpdate(o) PROVE TypeOK'
    BY <2>12 DEF RetryUpdate, ClearLease
  <2>13. ASSUME NEW t \in Tasks, LeaseLapses(t) PROVE TypeOK'
    BY <2>13 DEF LeaseLapses
  <2>14. ASSUME NEW t \in Tasks, BackoffElapses(t) PROVE TypeOK'
    BY <2>14 DEF BackoffElapses
  <2>15. CASE UNCHANGED vars
    BY <2>15 DEF vars
  <2>16. QED
    BY <2>1, <2>2, <2>3, <2>4, <2>5, <2>6, <2>7, <2>8, <2>9, <2>10, <2>11,
       <2>12, <2>13, <2>14, <2>15 DEF Next, WorkerStep
<1>3. QED
  BY <1>1, <1>2, PTL DEF Spec

(* Every transaction that sets or clears a lease sets the status with it,  *)
(* in every interleaving, with or without overruns.                        *)
THEOREM LeaseColumnsAlwaysAgree == Spec => []LeaseColumnsAgree
<1>1. Init => LeaseColumnsAgree
  BY QueueAssumption DEF Init, LeaseColumnsAgree
<1>2. TypeOK /\ LeaseColumnsAgree /\ [Next]_vars => LeaseColumnsAgree'
  <2> SUFFICES ASSUME TypeOK, LeaseColumnsAgree, [Next]_vars PROVE LeaseColumnsAgree'
    OBVIOUS
  <2> USE QueueAssumption DEF TypeOK, LeaseColumnsAgree, Busy, taskVars, workerVars, boundVars
  <2>1. ASSUME NEW S \in SUBSET Tasks, EnqueueAgentTask(S) PROVE LeaseColumnsAgree'
    BY <2>1 DEF EnqueueAgentTask
  <2>2. ASSUME NEW w \in Workers, TryRepairLock(w) PROVE LeaseColumnsAgree'
    BY <2>2 DEF TryRepairLock
  <2>3. ASSUME NEW w \in Workers, RequeueExpiredTasks(w) PROVE LeaseColumnsAgree'
    BY <2>3 DEF RequeueExpiredTasks, ExpiredLeases
  <2>4. ASSUME NEW w \in Workers, NEW t \in Tasks, ClaimTask(w, t) PROVE LeaseColumnsAgree'
    BY <2>4 DEF ClaimTask, FirstInOrder, Claimable, ClaimableOf
  <2>5. ASSUME NEW w \in Workers, ClaimNothing(w) PROVE LeaseColumnsAgree'
    BY <2>5 DEF ClaimNothing
  <2>6. ASSUME NEW w \in Workers, StartAgentRun(w) PROVE LeaseColumnsAgree'
    BY <2>6 DEF StartAgentRun
  <2>7. ASSUME NEW w \in Workers, RecordCompletedTask(w) PROVE LeaseColumnsAgree'
    BY <2>7 DEF RecordCompletedTask, EndTurn, ClearLease
  <2>8. ASSUME NEW w \in Workers, RecordFailedTask(w) PROVE LeaseColumnsAgree'
    BY <2>8 DEF RecordFailedTask, EndTurn, ClearLease, Exhausted
  <2>9. ASSUME NEW w \in Workers, WorkerStops(w) PROVE LeaseColumnsAgree'
    BY <2>9 DEF WorkerStops
  <2>10. ASSUME NEW w \in Workers, WorkerStarts(w) PROVE LeaseColumnsAgree'
    BY <2>10 DEF WorkerStarts
  <2>11. ASSUME NEW o \in Operators, NEW t \in Tasks, RetryCheck(o, t) PROVE LeaseColumnsAgree'
    BY <2>11 DEF RetryCheck
  <2>12. ASSUME NEW o \in Operators, RetryUpdate(o) PROVE LeaseColumnsAgree'
    BY <2>12 DEF RetryUpdate, ClearLease
  <2>13. ASSUME NEW t \in Tasks, LeaseLapses(t) PROVE LeaseColumnsAgree'
    BY <2>13 DEF LeaseLapses, Abandoned, Executes
  <2>14. ASSUME NEW t \in Tasks, BackoffElapses(t) PROVE LeaseColumnsAgree'
    BY <2>14 DEF BackoffElapses
  <2>15. CASE UNCHANGED vars
    BY <2>15 DEF vars
  <2>16. QED
    BY <2>1, <2>2, <2>3, <2>4, <2>5, <2>6, <2>7, <2>8, <2>9, <2>10, <2>11,
       <2>12, <2>13, <2>14, <2>15 DEF Next, WorkerStep
<1>3. QED
  BY <1>1, <1>2, TypeCorrect, PTL DEF Spec

(* A task that is executed is not one an accepted retry is about.          *)
LEMMA ExecutorsAndRetriesApart ==
  ASSUME TypeOK, ExecutorHoldsLease, RetryTargetsSettled,
         NEW w \in Workers, Busy(w), NEW o \in Operators
  PROVE  job[w] \in Tasks /\ job[w] # retrying[o]
<1>1. job[w] \in Tasks
  BY DEF TypeOK
<1>2. status[job[w]] = "leased"
  BY DEF ExecutorHoldsLease
<1>3. retrying[o] # None => status[retrying[o]] \in Settled
  BY DEF RetryTargetsSettled
<1>4. job[w] # None
  BY DEF TypeOK
<1>5. QED
  BY <1>1, <1>2, <1>3, <1>4

(* A step keeps each executor on its current lease: the claim takes queued *)
(* tasks only, repair takes expired leases only, and a retry finished ones.*)
LEMMA ExecutorHoldsLeaseStep ==
  ASSUME LeasesOutliveExecution, TypeOK, LeaseColumnsAgree,
         ExecutorHoldsLease, RetryTargetsSettled, [Next]_vars
  PROVE  ExecutorHoldsLease'
<1> USE QueueAssumption DEF TypeOK, LeaseColumnsAgree, ExecutorHoldsLease, RetryTargetsSettled,
           LeasesOutliveExecution, Busy, taskVars, workerVars, boundVars
<1>1. ASSUME NEW S \in SUBSET Tasks, EnqueueAgentTask(S) PROVE ExecutorHoldsLease'
  BY <1>1 DEF EnqueueAgentTask
<1>2. ASSUME NEW w \in Workers, TryRepairLock(w) PROVE ExecutorHoldsLease'
  BY <1>2 DEF TryRepairLock
<1>3. ASSUME NEW w \in Workers, RequeueExpiredTasks(w) PROVE ExecutorHoldsLease'
  BY <1>3 DEF RequeueExpiredTasks, ExpiredLeases
<1>4. ASSUME NEW w \in Workers, NEW t \in Tasks, ClaimTask(w, t) PROVE ExecutorHoldsLease'
  BY <1>4 DEF ClaimTask, FirstInOrder, Claimable, ClaimableOf
<1>5. ASSUME NEW w \in Workers, ClaimNothing(w) PROVE ExecutorHoldsLease'
  BY <1>5 DEF ClaimNothing
<1>6. ASSUME NEW w \in Workers, StartAgentRun(w) PROVE ExecutorHoldsLease'
  BY <1>6 DEF StartAgentRun
<1>7. ASSUME NEW w \in Workers, RecordCompletedTask(w) PROVE ExecutorHoldsLease'
  BY <1>7 DEF RecordCompletedTask, EndTurn, ClearLease
<1>8. ASSUME NEW w \in Workers, RecordFailedTask(w) PROVE ExecutorHoldsLease'
  BY <1>8 DEF RecordFailedTask, EndTurn, ClearLease, Exhausted
<1>9. ASSUME NEW w \in Workers, WorkerStops(w) PROVE ExecutorHoldsLease'
  BY <1>9 DEF WorkerStops
<1>10. ASSUME NEW w \in Workers, WorkerStarts(w) PROVE ExecutorHoldsLease'
  BY <1>10 DEF WorkerStarts
<1>11. ASSUME NEW o \in Operators, NEW t \in Tasks, RetryCheck(o, t) PROVE ExecutorHoldsLease'
  BY <1>11 DEF RetryCheck
<1>12. ASSUME NEW o \in Operators, RetryUpdate(o) PROVE ExecutorHoldsLease'
  <2>1. \A v \in Workers : Busy(v) => job[v] \in Tasks /\ job[v] # retrying[o]
    BY ExecutorsAndRetriesApart
  <2>2. \A v \in Workers : Busy(v)' <=> Busy(v)
    BY <1>12 DEF RetryUpdate
  <2>3. /\ UNCHANGED <<job, snap>>
        /\ \A t \in Tasks : t # retrying[o] =>
             /\ status'[t] = status[t] /\ lapsed'[t] = lapsed[t]
             /\ owner'[t] = owner[t] /\ attempts'[t] = attempts[t]
    BY <1>12 DEF RetryUpdate, ClearLease
  <2>4. QED
    <3> HIDE QueueAssumption DEF TypeOK, Busy
    <3> QED BY <2>1, <2>2, <2>3
<1>13. ASSUME NEW t \in Tasks, LeaseLapses(t) PROVE ExecutorHoldsLease'
  BY <1>13 DEF LeaseLapses, Abandoned, Executes
<1>14. ASSUME NEW t \in Tasks, BackoffElapses(t) PROVE ExecutorHoldsLease'
  BY <1>14 DEF BackoffElapses
<1>15. CASE UNCHANGED vars
  BY <1>15 DEF vars
<1>16. QED
  BY <1>1, <1>2, <1>3, <1>4, <1>5, <1>6, <1>7, <1>8, <1>9, <1>10, <1>11,
     <1>12, <1>13, <1>14, <1>15 DEF Next, WorkerStep

(* A step keeps the target of an accepted retry finished: only executors   *)
(* and that retry write its status, and no executor has it.                *)
LEMMA RetryTargetsSettledStep ==
  ASSUME RetriesDoNotOverlap, TypeOK, LeaseColumnsAgree,
         ExecutorHoldsLease, RetryTargetsSettled, [Next]_vars
  PROVE  RetryTargetsSettled'
<1> USE QueueAssumption DEF TypeOK, LeaseColumnsAgree, ExecutorHoldsLease, RetryTargetsSettled,
           RetriesDoNotOverlap, Busy, taskVars, workerVars, boundVars
<1>1. ASSUME NEW S \in SUBSET Tasks, EnqueueAgentTask(S) PROVE RetryTargetsSettled'
  BY <1>1 DEF EnqueueAgentTask
<1>2. ASSUME NEW w \in Workers, TryRepairLock(w) PROVE RetryTargetsSettled'
  BY <1>2 DEF TryRepairLock
<1>3. ASSUME NEW w \in Workers, RequeueExpiredTasks(w) PROVE RetryTargetsSettled'
  BY <1>3 DEF RequeueExpiredTasks, ExpiredLeases
<1>4. ASSUME NEW w \in Workers, NEW t \in Tasks, ClaimTask(w, t) PROVE RetryTargetsSettled'
  BY <1>4 DEF ClaimTask, FirstInOrder, Claimable, ClaimableOf
<1>5. ASSUME NEW w \in Workers, ClaimNothing(w) PROVE RetryTargetsSettled'
  BY <1>5 DEF ClaimNothing
<1>6. ASSUME NEW w \in Workers, StartAgentRun(w) PROVE RetryTargetsSettled'
  BY <1>6 DEF StartAgentRun
<1>7. ASSUME NEW w \in Workers, RecordCompletedTask(w) PROVE RetryTargetsSettled'
  BY <1>7 DEF RecordCompletedTask, EndTurn, ClearLease
<1>8. ASSUME NEW w \in Workers, RecordFailedTask(w) PROVE RetryTargetsSettled'
  <2>1. \A o \in Operators : retrying[o] # job[w]
    BY <1>8, ExecutorsAndRetriesApart DEF RecordFailedTask, EndTurn
  <2>2. \A t \in Tasks : t # job[w] => status'[t] = status[t]
    BY <1>8 DEF RecordFailedTask
  <2>3. UNCHANGED retrying /\ retrying \in [Operators -> Tasks \cup {None}]
    BY <1>8 DEF RecordFailedTask
  <2>4. QED
    <3> HIDE QueueAssumption DEF TypeOK, Busy
    <3> QED BY <2>1, <2>2, <2>3
<1>9. ASSUME NEW w \in Workers, WorkerStops(w) PROVE RetryTargetsSettled'
  BY <1>9 DEF WorkerStops
<1>10. ASSUME NEW w \in Workers, WorkerStarts(w) PROVE RetryTargetsSettled'
  BY <1>10 DEF WorkerStarts
<1>11. ASSUME NEW o \in Operators, NEW t \in Tasks, RetryCheck(o, t) PROVE RetryTargetsSettled'
  BY <1>11 DEF RetryCheck
<1>12. ASSUME NEW o \in Operators, RetryUpdate(o) PROVE RetryTargetsSettled'
  BY <1>12 DEF RetryUpdate, ClearLease
<1>13. ASSUME NEW t \in Tasks, LeaseLapses(t) PROVE RetryTargetsSettled'
  BY <1>13 DEF LeaseLapses, Abandoned, Executes
<1>14. ASSUME NEW t \in Tasks, BackoffElapses(t) PROVE RetryTargetsSettled'
  BY <1>14 DEF BackoffElapses
<1>15. CASE UNCHANGED vars
  BY <1>15 DEF vars
<1>16. QED
  BY <1>1, <1>2, <1>3, <1>4, <1>5, <1>6, <1>7, <1>8, <1>9, <1>10, <1>11,
     <1>12, <1>13, <1>14, <1>15 DEF Next, WorkerStep

(* A step keeps the account of attempts: a failed attempt puts the task    *)
(* back only below the limit, because the claimed counter is the current   *)
(* one; a repair puts it back anyway and is counted.                       *)
LEMMA AttemptsAccountedStep ==
  ASSUME TypeOK, LeaseColumnsAgree, ExecutorHoldsLease,
         RetryTargetsSettled, AttemptsAccounted, [Next]_vars
  PROVE  AttemptsAccounted'
<1> USE QueueAssumption DEF TypeOK, LeaseColumnsAgree, ExecutorHoldsLease, RetryTargetsSettled,
           AttemptsAccounted, Busy, taskVars, workerVars, boundVars
<1>1. ASSUME NEW S \in SUBSET Tasks, EnqueueAgentTask(S) PROVE AttemptsAccounted'
  BY <1>1 DEF EnqueueAgentTask
<1>2. ASSUME NEW w \in Workers, TryRepairLock(w) PROVE AttemptsAccounted'
  BY <1>2 DEF TryRepairLock
<1>3. ASSUME NEW w \in Workers, RequeueExpiredTasks(w) PROVE AttemptsAccounted'
  BY <1>3 DEF RequeueExpiredTasks, ExpiredLeases
<1>4. ASSUME NEW w \in Workers, NEW t \in Tasks, ClaimTask(w, t) PROVE AttemptsAccounted'
  <2>1. status[t] = "queued"
    BY <1>4 DEF ClaimTask, FirstInOrder, Claimable, ClaimableOf
  <2>2. /\ status' = [status EXCEPT ![t] = "leased"]
        /\ attempts' = [attempts EXCEPT ![t] = @ + 1]
        /\ UNCHANGED repairs
    BY <1>4 DEF ClaimTask
  <2>3. QED
    BY <2>1, <2>2
<1>5. ASSUME NEW w \in Workers, ClaimNothing(w) PROVE AttemptsAccounted'
  BY <1>5 DEF ClaimNothing
<1>6. ASSUME NEW w \in Workers, StartAgentRun(w) PROVE AttemptsAccounted'
  BY <1>6 DEF StartAgentRun
<1>7. ASSUME NEW w \in Workers, RecordCompletedTask(w) PROVE AttemptsAccounted'
  BY <1>7 DEF RecordCompletedTask, EndTurn, ClearLease
<1>8. ASSUME NEW w \in Workers, RecordFailedTask(w) PROVE AttemptsAccounted'
  BY <1>8 DEF RecordFailedTask, EndTurn, ClearLease, Exhausted
<1>9. ASSUME NEW w \in Workers, WorkerStops(w) PROVE AttemptsAccounted'
  BY <1>9 DEF WorkerStops
<1>10. ASSUME NEW w \in Workers, WorkerStarts(w) PROVE AttemptsAccounted'
  BY <1>10 DEF WorkerStarts
<1>11. ASSUME NEW o \in Operators, NEW t \in Tasks, RetryCheck(o, t) PROVE AttemptsAccounted'
  BY <1>11 DEF RetryCheck
<1>12. ASSUME NEW o \in Operators, RetryUpdate(o) PROVE AttemptsAccounted'
  BY <1>12 DEF RetryUpdate, ClearLease
<1>13. ASSUME NEW t \in Tasks, LeaseLapses(t) PROVE AttemptsAccounted'
  BY <1>13 DEF LeaseLapses, Abandoned, Executes
<1>14. ASSUME NEW t \in Tasks, BackoffElapses(t) PROVE AttemptsAccounted'
  BY <1>14 DEF BackoffElapses
<1>15. CASE UNCHANGED vars
  BY <1>15 DEF vars
<1>16. QED
  BY <1>1, <1>2, <1>3, <1>4, <1>5, <1>6, <1>7, <1>8, <1>9, <1>10, <1>11,
     <1>12, <1>13, <1>14, <1>15 DEF Next, WorkerStep

(* The invariant of the queue while leases outlive executions and manual   *)
(* retries do not overlap: executors hold their leases and the attempt     *)
(* limit is passed by lease repairs only.                                  *)
THEOREM QueueInvariant ==
  ASSUME LeasesOutliveExecution, RetriesDoNotOverlap
  PROVE  Spec => []QueueInv
<1>1. Init => QueueInv
  BY QueueAssumption
  DEF Init, QueueInv, TypeOK, LeaseColumnsAgree, ExecutorHoldsLease,
      RetryTargetsSettled, AttemptsAccounted, Busy
<1>2. TypeOK' /\ LeaseColumnsAgree' /\ QueueInv /\ [Next]_vars => QueueInv'
  BY ExecutorHoldsLeaseStep, RetryTargetsSettledStep, AttemptsAccountedStep
  DEF QueueInv
<1>3. QED
  BY <1>1, <1>2, TypeCorrect, LeaseColumnsAlwaysAgree, PTL DEF Spec

(* No two workers ever execute the same task at the same time.             *)
THEOREM ExclusiveExecutionHolds ==
  ASSUME LeasesOutliveExecution, RetriesDoNotOverlap
  PROVE  Spec => []ExclusiveExecution
<1>1. QueueInv => ExclusiveExecution
  BY DEF QueueInv, ExecutorHoldsLease, ExclusiveExecution
<1>2. QED
  BY <1>1, QueueInvariant, PTL

(* The attempt counter passes the limit by lease repairs only.             *)
THEOREM AttemptsAccountedHolds ==
  ASSUME LeasesOutliveExecution, RetriesDoNotOverlap
  PROVE  Spec => []AttemptsAccounted
<1>1. QueueInv => AttemptsAccounted
  BY DEF QueueInv
<1>2. QED
  BY <1>1, QueueInvariant, PTL

(* A step that changes the status of a finished task is the update of a    *)
(* manual retry of that task.                                              *)
LEMMA SettledStep ==
  ASSUME QueueInv, [Next]_vars, NEW t \in Tasks,
         status[t] \in Settled, status'[t] # status[t]
  PROVE  \E o \in Operators : retrying[o] = t /\ retrying'[o] = None
<1> USE DEF taskVars, workerVars, boundVars
<1>0. /\ status \in [Tasks -> Statuses]
      /\ retrying \in [Operators -> Tasks \cup {None}]
      /\ \A w \in Workers : pc[w] = "running" => status[job[w]] = "leased"
  BY DEF QueueInv, TypeOK, ExecutorHoldsLease, Busy
<1>1. ASSUME NEW S \in SUBSET Tasks, EnqueueAgentTask(S) PROVE FALSE
  BY <1>0, <1>1 DEF EnqueueAgentTask
<1>2. ASSUME NEW w \in Workers, WorkerStep(w) PROVE FALSE
  <2>1. CASE RequeueExpiredTasks(w)
    BY <1>0, <2>1 DEF RequeueExpiredTasks, ExpiredLeases
  <2>2. CASE \E u \in Tasks : ClaimTask(w, u)
    BY <1>0, <2>2 DEF ClaimTask, FirstInOrder, Claimable, ClaimableOf
  <2>3. CASE RecordCompletedTask(w) \/ RecordFailedTask(w)
    BY <1>0, <2>3 DEF RecordCompletedTask, RecordFailedTask, EndTurn
  <2>4. CASE TryRepairLock(w) \/ ClaimNothing(w) \/ StartAgentRun(w)
    BY <2>4 DEF TryRepairLock, ClaimNothing, StartAgentRun
  <2>5. QED
    BY <1>2, <2>1, <2>2, <2>3, <2>4 DEF WorkerStep
<1>3. ASSUME NEW w \in Workers, WorkerStops(w) \/ WorkerStarts(w) PROVE FALSE
  BY <1>3 DEF WorkerStops, WorkerStarts
<1>4. ASSUME NEW o \in Operators, NEW u \in Tasks, RetryCheck(o, u) PROVE FALSE
  BY <1>4 DEF RetryCheck
<1>5. ASSUME NEW o \in Operators, RetryUpdate(o)
      PROVE  retrying[o] = t /\ retrying'[o] = None
  BY <1>0, <1>5 DEF RetryUpdate
<1>6. ASSUME NEW u \in Tasks, LeaseLapses(u) \/ BackoffElapses(u) PROVE FALSE
  BY <1>6 DEF LeaseLapses, BackoffElapses
<1>7. CASE UNCHANGED vars
  BY <1>7 DEF vars
<1>8. QED
  BY <1>1, <1>2, <1>3, <1>4, <1>5, <1>6, <1>7 DEF Next

(* What is finished stays finished until a manual retry takes it back.     *)
THEOREM SettledUntilRetriedHolds ==
  ASSUME LeasesOutliveExecution, RetriesDoNotOverlap
  PROVE  Spec => SettledUntilRetried
<1>1. QueueInv /\ [Next]_vars =>
        [\A t \in Tasks :
           status[t] \in Settled /\ status'[t] # status[t]
             => \E o \in Operators : retrying[o] = t /\ retrying'[o] = None]_vars
  BY SettledStep
<1>2. QED
  BY <1>1, QueueInvariant, PTL DEF Spec, SettledUntilRetried

(* A step that leaves a task started found it started, or claimed it with  *)
(* its prerequisites done.                                                 *)
LEMMA StartedStep ==
  ASSUME QueueInv, [Next]_vars, NEW t \in Tasks,
         status'[t] \in {"leased"} \cup Settled
  PROVE  status[t] \in {"leased"} \cup Settled \/ PrerequisitesSucceeded(t)
<1> USE DEF taskVars, workerVars, boundVars
<1>0. /\ status \in [Tasks -> Statuses]
      /\ retrying \in [Operators -> Tasks \cup {None}]
      /\ \A w \in Workers : pc[w] = "running" => status[job[w]] = "leased"
  BY DEF QueueInv, TypeOK, ExecutorHoldsLease, Busy
<1>1. ASSUME NEW S \in SUBSET Tasks, EnqueueAgentTask(S)
      PROVE  status[t] \in {"leased"} \cup Settled
  BY <1>0, <1>1 DEF EnqueueAgentTask
<1>2. ASSUME NEW w \in Workers, WorkerStep(w)
      PROVE  status[t] \in {"leased"} \cup Settled \/ PrerequisitesSucceeded(t)
  <2>1. CASE RequeueExpiredTasks(w)
    BY <1>0, <2>1 DEF RequeueExpiredTasks, ExpiredLeases
  <2>2. ASSUME NEW u \in Tasks, ClaimTask(w, u)
        PROVE  status[t] \in {"leased"} \cup Settled \/ PrerequisitesSucceeded(t)
    BY <1>0, <2>2 DEF ClaimTask, FirstInOrder, Claimable, ClaimableOf
  <2>3. CASE RecordCompletedTask(w) \/ RecordFailedTask(w)
    BY <1>0, <2>3 DEF RecordCompletedTask, RecordFailedTask, EndTurn
  <2>4. CASE TryRepairLock(w) \/ ClaimNothing(w) \/ StartAgentRun(w)
    BY <2>4 DEF TryRepairLock, ClaimNothing, StartAgentRun
  <2>5. QED
    BY <1>2, <2>1, <2>2, <2>3, <2>4 DEF WorkerStep
<1>3. ASSUME NEW w \in Workers, WorkerStops(w) \/ WorkerStarts(w)
      PROVE  UNCHANGED status
  BY <1>3 DEF WorkerStops, WorkerStarts
<1>4. ASSUME NEW o \in Operators, NEW u \in Tasks, RetryCheck(o, u)
      PROVE  UNCHANGED status
  BY <1>4 DEF RetryCheck
<1>5. ASSUME NEW o \in Operators, RetryUpdate(o)
      PROVE  status[t] \in {"leased"} \cup Settled
  BY <1>0, <1>5 DEF RetryUpdate
<1>6. ASSUME NEW u \in Tasks, LeaseLapses(u) \/ BackoffElapses(u)
      PROVE  UNCHANGED status
  BY <1>6 DEF LeaseLapses, BackoffElapses
<1>7. CASE UNCHANGED vars
  BY <1>7 DEF vars
<1>8. QED
  BY <1>1, <1>2, <1>3, <1>4, <1>5, <1>6, <1>7 DEF Next

\* Before the first manual retry none is in progress.
NoRetryYet == retries = 0 => \A o \in Operators : retrying[o] = None

(* The handlers alone count retries, and count before they hold a task.    *)
LEMMA NoRetryYetStep ==
  ASSUME TypeOK, NoRetryYet, [Next]_vars
  PROVE  NoRetryYet' /\ (retries' = 0 => retries = 0)
<1> USE DEF taskVars, workerVars, boundVars, NoRetryYet
<1>1. ASSUME NEW S \in SUBSET Tasks, EnqueueAgentTask(S)
      PROVE  UNCHANGED <<retrying, retries>>
  BY <1>1 DEF EnqueueAgentTask
<1>2. ASSUME NEW w \in Workers, WorkerStep(w)
      PROVE  UNCHANGED <<retrying, retries>>
  BY <1>2 DEF WorkerStep, TryRepairLock, RequeueExpiredTasks, ClaimTask,
              ClaimNothing, StartAgentRun, RecordCompletedTask, RecordFailedTask
<1>3. ASSUME NEW w \in Workers, WorkerStops(w) \/ WorkerStarts(w)
      PROVE  UNCHANGED <<retrying, retries>>
  BY <1>3 DEF WorkerStops, WorkerStarts
<1>4. ASSUME NEW o \in Operators, NEW u \in Tasks, RetryCheck(o, u)
      PROVE  retries' # 0
  BY <1>4 DEF RetryCheck, TypeOK
<1>5. ASSUME NEW o \in Operators, RetryUpdate(o)
      PROVE  retries # 0 /\ retries' = retries
  BY <1>5 DEF RetryUpdate
<1>6. ASSUME NEW u \in Tasks, LeaseLapses(u) \/ BackoffElapses(u)
      PROVE  UNCHANGED <<retrying, retries>>
  BY <1>6 DEF LeaseLapses, BackoffElapses
<1>7. CASE UNCHANGED vars
  BY <1>7 DEF vars
<1>8. QED
  BY <1>1, <1>2, <1>3, <1>4, <1>5, <1>6, <1>7 DEF Next

(* Until a manual retry reopens a prerequisite, whatever was started has   *)
(* all its prerequisites done, through deaths and repairs.                 *)
THEOREM DependenciesRespected ==
  ASSUME LeasesOutliveExecution, RetriesDoNotOverlap
  PROVE  Spec => []StartedAfterPrerequisites
<1>1. Init => NoRetryYet /\ StartedAfterPrerequisites
  BY DEF Init, NoRetryYet, StartedAfterPrerequisites, Settled
<1>2. QueueInv /\ NoRetryYet /\ [Next]_vars => NoRetryYet'
  BY NoRetryYetStep DEF QueueInv
<1>3. QueueInv /\ NoRetryYet /\ StartedAfterPrerequisites /\ [Next]_vars
        => StartedAfterPrerequisites'
  <2> SUFFICES ASSUME QueueInv, NoRetryYet, StartedAfterPrerequisites, [Next]_vars,
                      retries' = 0,
                      NEW t \in Tasks, status'[t] \in {"leased"} \cup Settled
               PROVE  \A d \in DependsOn[t] : status'[d] = "succeeded"
    BY DEF StartedAfterPrerequisites
  <2>1. retries = 0 /\ \A o \in Operators : retrying[o] = None
    BY NoRetryYetStep DEF QueueInv, NoRetryYet
  <2>2. \A d \in DependsOn[t] : status[d] = "succeeded"
    BY <2>1, StartedStep DEF StartedAfterPrerequisites, PrerequisitesSucceeded
  <2>3. \A d \in Tasks : status[d] = "succeeded" => status'[d] = "succeeded"
    BY <2>1, SettledStep, QueueAssumption DEF Settled
  <2>4. DependsOn[t] \subseteq Tasks
    BY QueueAssumption
  <2>5. QED
    BY <2>2, <2>3, <2>4
<1>4. QED
  BY <1>1, <1>2, <1>3, QueueInvariant, PTL DEF Spec

(* The refinement mapping, point by point.                                 *)
LEMMA PhaseOfTask ==
  ASSUME NEW t \in Tasks
  PROVE  /\ status[t] = "queued" => phaseOf[t] = "ready"
         /\ status[t] = "leased" => phaseOf[t] = "active"
         /\ status[t] \notin {"queued", "leased"} => phaseOf[t] = status[t]
BY DEF phaseOf

(* The same of the next state.                                             *)
LEMMA PhaseOfTaskNext ==
  ASSUME NEW t \in Tasks
  PROVE  /\ status'[t] = "queued" => phaseOf'[t] = "ready"
         /\ status'[t] = "leased" => phaseOf'[t] = "active"
         /\ status'[t] \notin {"queued", "leased"} => phaseOf'[t] = status'[t]
BY DEF phaseOf

(* The mapping gives each task a phase, and nothing else.                  *)
LEMMA PhaseOfDomain ==
  /\ DOMAIN phaseOf = Tasks /\ DOMAIN phaseOf' = Tasks
  /\ phaseOf = [t \in Tasks |-> phaseOf[t]]
  /\ phaseOf' = [t \in Tasks |-> phaseOf'[t]]
BY DEF phaseOf

(* A step that writes the status of t only changes the phase of t only.    *)
LEMMA PhaseUpdate ==
  ASSUME TypeOK, NEW t \in Tasks, NEW v \in Statuses,
         status' = [status EXCEPT ![t] = v]
  PROVE  /\ v = "queued" => phaseOf' = [phaseOf EXCEPT ![t] = "ready"]
         /\ v = "leased" => phaseOf' = [phaseOf EXCEPT ![t] = "active"]
         /\ v \in Settled => phaseOf' = [phaseOf EXCEPT ![t] = v]
<1>1. \A u \in Tasks : status'[u] = IF u = t THEN v ELSE status[u]
  BY DEF TypeOK
<1>2. \A u \in Tasks : u # t => phaseOf'[u] = phaseOf[u]
  BY <1>1 DEF phaseOf
<1>3. /\ v = "queued" => phaseOf'[t] = "ready"
      /\ v = "leased" => phaseOf'[t] = "active"
      /\ v \in Settled => phaseOf'[t] = v
  BY <1>1, PhaseOfTaskNext
<1>4. QED
  BY <1>2, <1>3, PhaseOfDomain

(* A step that writes the status of the tasks in S only, to queued.        *)
LEMMA PhaseUpdateSet ==
  ASSUME NEW S \in SUBSET Tasks,
         status' = [t \in Tasks |-> IF t \in S THEN "queued" ELSE status[t]]
  PROVE  phaseOf' = [t \in Tasks |-> IF t \in S THEN "ready" ELSE phaseOf[t]]
BY DEF phaseOf

(* Each step of the queue is a step of the lifecycle or does not show.     *)
LEMMA LifecycleStep ==
  ASSUME QueueInv, [Next]_vars
  PROVE  [Lifecycle!LifecycleNext]_(Lifecycle!lifecycleVars)
<1> USE DEF taskVars, workerVars, boundVars
<1>0. /\ TypeOK
      /\ attempts \in [Tasks -> Nat] /\ status \in [Tasks -> Statuses]
      /\ \A w \in Workers : pc[w] = "running" =>
           /\ job[w] \in Tasks /\ status[job[w]] = "leased"
           /\ snap[w] = attempts[job[w]]
      /\ \A o \in Operators : retrying[o] # None =>
           retrying[o] \in Tasks /\ status[retrying[o]] \in Settled
  BY DEF QueueInv, TypeOK, ExecutorHoldsLease, RetryTargetsSettled, Busy
<1> DEFINE Hidden == UNCHANGED <<status, attempts>>
<1>h. ASSUME Hidden PROVE UNCHANGED Lifecycle!lifecycleVars
  BY <1>h DEF Lifecycle!lifecycleVars, phaseOf
<1>1. ASSUME NEW S \in SUBSET Tasks, EnqueueAgentTask(S)
      PROVE  Lifecycle!Submit(S)
  <2>1. phaseOf' = [t \in Tasks |-> IF t \in S THEN "ready" ELSE phaseOf[t]]
    BY <1>1, PhaseUpdateSet DEF EnqueueAgentTask
  <2>2. \A t \in Tasks : status[t] = "absent" <=> phaseOf[t] = "absent"
    BY PhaseOfTask
  <2>3. \A t \in S : \A d \in DependsOn[t] : d \in Tasks
    BY QueueAssumption
  <2>4. QED
    BY <1>1, <2>1, <2>2, <2>3 DEF EnqueueAgentTask, Lifecycle!Submit
<1>2. ASSUME NEW w \in Workers, RequeueExpiredTasks(w)
      PROVE  Lifecycle!Recover(ExpiredLeases)
  <2>1. phaseOf' = [t \in Tasks |-> IF t \in ExpiredLeases THEN "ready" ELSE phaseOf[t]]
    BY <1>2, PhaseUpdateSet DEF RequeueExpiredTasks, ExpiredLeases
  <2>2. \A t \in ExpiredLeases : phaseOf[t] = "active"
    BY PhaseOfTask DEF ExpiredLeases
  <2>3. QED
    BY <1>2, <2>1, <2>2 DEF RequeueExpiredTasks, Lifecycle!Recover
<1>3. ASSUME NEW w \in Workers, NEW t \in Tasks, ClaimTask(w, t)
      PROVE  Lifecycle!Start(t)
  <2>1. status[t] = "queued" /\ \A d \in DependsOn[t] : status[d] = "succeeded"
    BY <1>3 DEF ClaimTask, FirstInOrder, Claimable, ClaimableOf, PrerequisitesSucceeded
  <2>2. phaseOf' = [phaseOf EXCEPT ![t] = "active"]
    BY <1>0, <1>3, PhaseUpdate DEF ClaimTask
  <2>3. phaseOf[t] = "ready" /\ \A d \in DependsOn[t] : phaseOf[d] = "succeeded"
    BY <2>1, PhaseOfTask, QueueAssumption
  <2>4. QED
    BY <1>3, <2>2, <2>3 DEF ClaimTask, Lifecycle!Start
<1>4. ASSUME NEW w \in Workers, RecordCompletedTask(w)
      PROVE  Lifecycle!Succeed(job[w])
  <2>1. pc[w] = "running" /\ status' = [status EXCEPT ![job[w]] = "succeeded"]
    BY <1>4 DEF RecordCompletedTask, EndTurn
  <2>2. phaseOf' = [phaseOf EXCEPT ![job[w]] = "succeeded"]
    BY <1>0, <2>1, PhaseUpdate
  <2>3. phaseOf[job[w]] = "active"
    BY <1>0, <2>1, PhaseOfTask
  <2>4. QED
    BY <1>4, <2>2, <2>3 DEF RecordCompletedTask, Lifecycle!Succeed
<1>5. ASSUME NEW w \in Workers, RecordFailedTask(w)
      PROVE  Lifecycle!Fail(job[w])
  <2>1. pc[w] = "running"
    BY <1>5 DEF RecordFailedTask, EndTurn
  <2>2. job[w] \in Tasks /\ phaseOf[job[w]] = "active"
    BY <1>0, <2>1, PhaseOfTask
  <2>3. CASE Exhausted(w)
    <3>1. ~(attempts[job[w]] < MaxAttempts)
      BY <1>0, <2>1, <2>2, <2>3, QueueAssumption DEF Exhausted
    <3>2. phaseOf' = [phaseOf EXCEPT ![job[w]] = "failed"]
      BY <1>0, <1>5, <2>2, <2>3, PhaseUpdate DEF RecordFailedTask
    <3>3. QED
      BY <1>5, <2>2, <3>1, <3>2 DEF RecordFailedTask, Lifecycle!Fail
  <2>4. CASE ~Exhausted(w)
    <3>1. attempts[job[w]] < MaxAttempts
      BY <1>0, <2>1, <2>2, <2>4, QueueAssumption DEF Exhausted
    <3>2. phaseOf' = [phaseOf EXCEPT ![job[w]] = "ready"]
      BY <1>0, <1>5, <2>2, <2>4, PhaseUpdate DEF RecordFailedTask
    <3>3. QED
      BY <1>5, <2>2, <3>1, <3>2 DEF RecordFailedTask, Lifecycle!Fail
  <2>5. QED
    BY <2>3, <2>4
<1>6. ASSUME NEW o \in Operators, RetryUpdate(o)
      PROVE  Lifecycle!Reopen(retrying[o])
  <2>1. /\ retrying[o] \in Tasks
        /\ status[retrying[o]] \in Settled
        /\ status' = [status EXCEPT ![retrying[o]] = "queued"]
    BY <1>0, <1>6 DEF RetryUpdate
  <2>2. phaseOf' = [phaseOf EXCEPT ![retrying[o]] = "ready"]
    BY <1>0, <2>1, PhaseUpdate
  <2>3. phaseOf[retrying[o]] \in {"succeeded", "failed"}
    BY <2>1, PhaseOfTask
  <2>4. QED
    BY <1>6, <2>2, <2>3 DEF RetryUpdate, Lifecycle!Reopen
<1>7. ASSUME NEW w \in Workers,
             \/ TryRepairLock(w) \/ ClaimNothing(w) \/ StartAgentRun(w)
             \/ WorkerStops(w) \/ WorkerStarts(w)
      PROVE  Hidden
  BY <1>7 DEF TryRepairLock, ClaimNothing, StartAgentRun, WorkerStops, WorkerStarts
<1>8. ASSUME NEW t \in Tasks,
             \/ LeaseLapses(t) \/ BackoffElapses(t)
             \/ \E o \in Operators : RetryCheck(o, t)
      PROVE  Hidden
  BY <1>8 DEF LeaseLapses, BackoffElapses, RetryCheck
<1>9. CASE UNCHANGED vars
  BY <1>9, <1>h DEF vars
<1>10. ASSUME NEW w \in Workers, WorkerStep(w)
       PROVE  Lifecycle!LifecycleNext \/ Hidden
  <2>1. CASE RequeueExpiredTasks(w)
    BY <1>2, <2>1 DEF Lifecycle!LifecycleNext, ExpiredLeases
  <2>2. ASSUME NEW t \in Tasks, ClaimTask(w, t) PROVE Lifecycle!LifecycleNext
    BY <1>3, <2>2 DEF Lifecycle!LifecycleNext
  <2>3. ASSUME RecordCompletedTask(w) \/ RecordFailedTask(w)
        PROVE  Lifecycle!LifecycleNext
    <3>1. job[w] \in Tasks
      BY <1>0, <2>3 DEF RecordCompletedTask, RecordFailedTask, EndTurn
    <3>2. QED
      BY <1>4, <1>5, <2>3, <3>1 DEF Lifecycle!LifecycleNext
  <2>4. QED
    BY <1>7, <1>10, <2>1, <2>2, <2>3 DEF WorkerStep
<1>11. ASSUME NEW o \in Operators, RetryUpdate(o) PROVE Lifecycle!LifecycleNext
  <2>1. retrying[o] \in Tasks
    BY <1>0, <1>11 DEF RetryUpdate
  <2>2. QED
    BY <1>6, <1>11, <2>1 DEF Lifecycle!LifecycleNext
<1>12. ASSUME NEW S \in SUBSET Tasks, EnqueueAgentTask(S) PROVE Lifecycle!LifecycleNext
  BY <1>1, <1>12 DEF Lifecycle!LifecycleNext
<1>13. QED
  BY <1>7, <1>8, <1>9, <1>10, <1>11, <1>12, <1>h DEF Next

(* While leases outlive executions and retries do not overlap, the queue   *)
(* with its workers, deaths and repairs implements the lifecycle.          *)
THEOREM QueueImplementsLifecycle ==
  ASSUME LeasesOutliveExecution, RetriesDoNotOverlap
  PROVE  Spec => ImplementsLifecycle
<1>1. Init => Lifecycle!LifecycleInit
  BY DEF Init, phaseOf, Lifecycle!LifecycleInit
<1>2. QueueInv /\ [Next]_vars => [Lifecycle!LifecycleNext]_(Lifecycle!lifecycleVars)
  BY LifecycleStep
<1>3. QED
  BY <1>1, <1>2, QueueInvariant, PTL
  DEF Spec, ImplementsLifecycle, Lifecycle!LifecycleSpec

(* The executors of a task that its lease does not speak for: it is not    *)
(* theirs, or it has lapsed.                                               *)
Strays(t) == {w \in Workers : job[w] = t /\ (owner[t] # w \/ lapsed[t])}

(* Each lease that lapsed under its executor made at most one stray, of    *)
(* any task, and nobody takes a task back by hand.                         *)
StraysInv ==
  /\ \A o \in Operators : retrying[o] = None
  /\ \A t \in Tasks : Cardinality(Strays(t)) <= overruns

(* The sizes of sets of workers, as the steps change them.                 *)
LEMMA WorkerSets ==
  ASSUME NEW S \in SUBSET Workers, NEW T \in SUBSET Workers
  PROVE  /\ Cardinality(S) \in Nat /\ Cardinality(T) \in Nat
         /\ T \subseteq S => Cardinality(T) <= Cardinality(S)
         /\ \A x : T \subseteq S \cup {x} => Cardinality(T) <= Cardinality(S) + 1
         /\ \A x \in S : \A y : T \subseteq (S \ {x}) \cup {y} => Cardinality(T) <= Cardinality(S)
<1>1. IsFiniteSet(S) /\ IsFiniteSet(T)
  BY QueueAssumption, FS_Subset
<1>2. Cardinality(S) \in Nat /\ Cardinality(T) \in Nat
  BY <1>1, FS_CardinalityType
<1>3. ASSUME T \subseteq S PROVE Cardinality(T) <= Cardinality(S)
  BY <1>1, <1>3, FS_Subset
<1>4. ASSUME NEW x, T \subseteq S \cup {x} PROVE Cardinality(T) <= Cardinality(S) + 1
  <2>1. /\ IsFiniteSet(S \cup {x})
        /\ Cardinality(S \cup {x}) = IF x \in S THEN Cardinality(S) ELSE Cardinality(S) + 1
    BY <1>1, FS_AddElement
  <2>2. T \in SUBSET (S \cup {x})
    BY <1>4
  <2>3. Cardinality(T) <= Cardinality(S \cup {x})
    BY <2>1, <2>2, FS_Subset
  <2>4. QED
    BY <1>2, <2>1, <2>3
<1>5. ASSUME NEW x \in S, NEW y, T \subseteq (S \ {x}) \cup {y}
      PROVE  Cardinality(T) <= Cardinality(S)
  <2>1. /\ IsFiniteSet(S \ {x})
        /\ Cardinality(S \ {x}) = Cardinality(S) - 1
    BY <1>1, FS_RemoveElement
  <2>2. /\ IsFiniteSet((S \ {x}) \cup {y})
        /\ \/ Cardinality((S \ {x}) \cup {y}) = Cardinality(S \ {x})
           \/ Cardinality((S \ {x}) \cup {y}) = Cardinality(S \ {x}) + 1
    BY <2>1, FS_AddElement
  <2>3. T \in SUBSET ((S \ {x}) \cup {y})
    BY <1>5
  <2>4. Cardinality(T) <= Cardinality((S \ {x}) \cup {y})
    BY <2>2, <2>3, FS_Subset
  <2>5. QED
    BY <1>1, <1>2, <2>1, <2>2, <2>4, FS_CardinalityType
<1>6. QED
  BY <1>2, <1>3, <1>4, <1>5

(* A step makes a stray only with an overrun: the repair of a lapsed lease *)
(* and the claim that follows find the stray already counted, and one that *)
(* clears another worker's lease has left the task itself.                 *)
LEMMA StraysStep ==
  ASSUME NobodyRetries, TypeOK, LeaseColumnsAgree, StraysInv, [Next]_vars
  PROVE  StraysInv'
<1> USE DEF taskVars, workerVars, boundVars
<1>0. /\ status \in [Tasks -> Statuses] /\ owner \in [Tasks -> Workers \cup {None}]
      /\ lapsed \in [Tasks -> BOOLEAN] /\ job \in [Workers -> Tasks \cup {None}]
      /\ None \notin Workers /\ None \notin Tasks
      /\ retries \in Nat /\ overruns \in Nat
      /\ \A w \in Workers : pc[w] \in {"claimed", "running"} <=> job[w] # None
      /\ \A t \in Tasks : Strays(t) \in SUBSET Workers /\ Strays(t)' \in SUBSET Workers
      /\ \A t \in Tasks : Cardinality(Strays(t)) \in Nat
  BY QueueAssumption, WorkerSets DEF TypeOK, Busy, Strays
<1>k. ASSUME UNCHANGED <<retrying, overruns>>,
             \A t \in Tasks : Strays(t)' \subseteq Strays(t)
      PROVE  StraysInv'
  <2>1. ASSUME NEW t \in Tasks PROVE Cardinality(Strays(t)') <= overruns
    <3>1. /\ Cardinality(Strays(t)') <= Cardinality(Strays(t))
          /\ Cardinality(Strays(t)) \in Nat /\ Cardinality(Strays(t)') \in Nat
      BY <1>0, <1>k, WorkerSets
    <3>2. QED
      BY <1>0, <3>1 DEF StraysInv
  <2>2. QED
    BY <1>k, <2>1 DEF StraysInv
<1>1. ASSUME NEW S \in SUBSET Tasks, EnqueueAgentTask(S) PROVE StraysInv'
  BY <1>k, <1>1 DEF EnqueueAgentTask, Strays
<1>2. ASSUME NEW w \in Workers, TryRepairLock(w) \/ ClaimNothing(w) \/ StartAgentRun(w)
      PROVE  StraysInv'
  BY <1>k, <1>2 DEF TryRepairLock, ClaimNothing, StartAgentRun, Strays
<1>3. ASSUME NEW w \in Workers, RequeueExpiredTasks(w) PROVE StraysInv'
  <2>1. \A t \in Tasks : \/ owner'[t] = owner[t] /\ lapsed'[t] = lapsed[t]
                         \/ lapsed[t]
    BY <1>0, <1>3 DEF RequeueExpiredTasks, ExpiredLeases
  <2>2. \A t \in Tasks : Strays(t)' \subseteq Strays(t)
    BY <1>3, <2>1 DEF RequeueExpiredTasks, Strays
  <2>3. QED
    BY <1>k, <1>3, <2>2 DEF RequeueExpiredTasks
<1>4. ASSUME NEW w \in Workers, NEW t \in Tasks, ClaimTask(w, t) PROVE StraysInv'
  <2>1. status[t] = "queued" /\ job[w] = None
    BY <1>0, <1>4 DEF ClaimTask, FirstInOrder, Claimable, ClaimableOf
  <2>2. owner[t] = None
    BY <2>1 DEF LeaseColumnsAgree
  <2>3. /\ owner'[t] = w /\ ~lapsed'[t] /\ job'[w] = t
        /\ \A u \in Tasks \ {t} : owner'[u] = owner[u] /\ lapsed'[u] = lapsed[u]
        /\ \A v \in Workers \ {w} : job'[v] = job[v]
        /\ UNCHANGED <<retrying, overruns>>
    BY <1>0, <1>4 DEF ClaimTask
  <2>4. ASSUME NEW u \in Tasks PROVE Strays(u)' \subseteq Strays(u)
    <3>1. CASE u = t
      BY <1>0, <2>2, <2>3, <3>1 DEF Strays
    <3>2. CASE u # t
      BY <2>3, <3>2 DEF Strays
    <3>3. QED
      BY <3>1, <3>2
  <2>5. QED
    BY <1>k, <2>3, <2>4
<1>5. ASSUME NEW w \in Workers, RecordCompletedTask(w) \/ RecordFailedTask(w) PROVE StraysInv'
  <2>1. /\ job[w] \in Tasks
        /\ owner' = [owner EXCEPT ![job[w]] = None]
        /\ lapsed' = [lapsed EXCEPT ![job[w]] = FALSE]
        /\ job' = [job EXCEPT ![w] = None]
        /\ UNCHANGED <<retrying, overruns>>
    BY <1>0, <1>5 DEF RecordCompletedTask, RecordFailedTask, EndTurn, ClearLease
  <2>2. /\ job'[w] = None /\ \A v \in Workers \ {w} : job'[v] = job[v]
        /\ owner'[job[w]] = None /\ ~lapsed'[job[w]]
        /\ \A u \in Tasks \ {job[w]} : owner'[u] = owner[u] /\ lapsed'[u] = lapsed[u]
    BY <1>0, <2>1
  <2>3. ASSUME NEW u \in Tasks PROVE Cardinality(Strays(u)') <= Cardinality(Strays(u))
    <3>1. CASE u # job[w]
      <4>1. Strays(u)' \subseteq Strays(u)
        BY <1>0, <2>2, <3>1 DEF Strays
      <4>2. QED
        BY <1>0, <4>1, WorkerSets
    <3>2. CASE u = job[w] /\ w \in Strays(u)
      <4>1. Strays(u)' \subseteq (Strays(u) \ {w}) \cup {owner[u]}
        BY <1>0, <2>2, <3>2 DEF Strays
      <4>2. QED
        BY <1>0, <3>2, <4>1, WorkerSets
    <3>3. CASE u = job[w] /\ w \notin Strays(u)
      <4>1. Strays(u)' \subseteq Strays(u)
        BY <1>0, <2>2, <3>3 DEF Strays
      <4>2. QED
        BY <1>0, <4>1, WorkerSets
    <3>4. QED
      BY <3>1, <3>2, <3>3
  <2>4. \A u \in Tasks : Cardinality(Strays(u)') \in Nat
    BY <1>0, WorkerSets
  <2>5. \A u \in Tasks : Cardinality(Strays(u)') <= overruns
    BY <1>0, <2>3, <2>4 DEF StraysInv
  <2>6. QED
    BY <2>1, <2>5 DEF StraysInv
<1>6. ASSUME NEW w \in Workers, WorkerStops(w) \/ WorkerStarts(w) PROVE StraysInv'
  <2>1. /\ \A v \in Workers : job'[v] = job[v] \/ job'[v] = None
        /\ UNCHANGED <<owner, lapsed, retrying, overruns>>
    BY <1>0, <1>6 DEF WorkerStops, WorkerStarts
  <2>2. \A t \in Tasks : Strays(t)' \subseteq Strays(t)
    BY <1>0, <2>1 DEF Strays
  <2>3. QED
    BY <1>k, <2>1, <2>2
<1>7. ASSUME NEW o \in Operators, RetryUpdate(o) \/ \E t \in Tasks : RetryCheck(o, t) PROVE FALSE
  BY <1>0, <1>7 DEF RetryUpdate, RetryCheck, NobodyRetries, StraysInv
<1>8. ASSUME NEW t \in Tasks, LeaseLapses(t) PROVE StraysInv'
  <2>1. /\ lapsed'[t] /\ \A u \in Tasks \ {t} : lapsed'[u] = lapsed[u]
        /\ UNCHANGED <<owner, job, retrying>>
    BY <1>0, <1>8 DEF LeaseLapses
  <2>2. \A u \in Tasks \ {t} : Strays(u)' \subseteq Strays(u)
    BY <2>1 DEF Strays
  <2>3. CASE Abandoned(t)
    <3>1. \A w \in Workers : owner[t] = w => job[w] # t
      BY <1>0, <2>3 DEF Abandoned, Executes, Busy
    <3>2. Strays(t)' \subseteq Strays(t)
      BY <2>1, <3>1 DEF Strays
    <3>3. QED
      BY <1>8, <1>k, <2>1, <2>2, <2>3, <3>2 DEF LeaseLapses
  <2>4. CASE ~Abandoned(t)
    <3>1. overruns' = overruns + 1
      BY <1>8, <2>4 DEF LeaseLapses
    <3>2. Strays(t)' \subseteq Strays(t) \cup {owner[t]}
      BY <2>1 DEF Strays
    <3>3. ASSUME NEW u \in Tasks PROVE Cardinality(Strays(u)') <= overruns + 1
      <4>1. Cardinality(Strays(u)) <= overruns /\ Cardinality(Strays(u)) \in Nat
            /\ Cardinality(Strays(u)') \in Nat
        BY <1>0, WorkerSets DEF StraysInv
      <4>2. Strays(u)' \subseteq Strays(u) \cup {owner[t]}
        BY <2>2, <3>2
      <4>3. Cardinality(Strays(u)') <= Cardinality(Strays(u)) + 1
        BY <1>0, <4>2, WorkerSets
      <4>4. QED
        BY <1>0, <4>1, <4>3
    <3>4. QED
      BY <2>1, <3>1, <3>3 DEF StraysInv
  <2>5. QED
    BY <2>3, <2>4
<1>9. ASSUME NEW t \in Tasks, BackoffElapses(t) PROVE StraysInv'
  BY <1>k, <1>9 DEF BackoffElapses, Strays
<1>10. CASE UNCHANGED vars
  BY <1>k, <1>10 DEF vars, Strays
<1>11. QED
  BY <1>1, <1>2, <1>3, <1>4, <1>5, <1>6, <1>7, <1>8, <1>9, <1>10 DEF Next, WorkerStep

(* Where nobody retries by hand, a task has at most one executor more than *)
(* leases lapsed under their executors: with no overrun, one at most.      *)
THEOREM DuplicatesBoundedHolds ==
  ASSUME NobodyRetries
  PROVE  Spec => []DuplicatesBounded
<1>1. Init => StraysInv
  <2> SUFFICES ASSUME Init PROVE StraysInv
    OBVIOUS
  <2>1. \A t \in Tasks : Strays(t) = {}
    BY QueueAssumption DEF Init, Strays
  <2>2. QED
    BY <2>1, FS_EmptySet DEF Init, StraysInv
<1>2. TypeOK /\ LeaseColumnsAgree /\ StraysInv /\ [Next]_vars => StraysInv'
  BY StraysStep
<1>3. TypeOK /\ StraysInv => DuplicatesBounded
  <2> SUFFICES ASSUME TypeOK, StraysInv, NEW t \in Tasks
               PROVE  Cardinality(Executors(t)) <= 1 + overruns
    BY DEF DuplicatesBounded
  <2>1. /\ Executors(t) \in SUBSET Workers /\ Strays(t) \in SUBSET Workers
        /\ Executors(t) \subseteq Strays(t) \cup {owner[t]}
    BY DEF Executors, Executes, Strays
  <2>2. /\ Cardinality(Executors(t)) <= Cardinality(Strays(t)) + 1
        /\ Cardinality(Executors(t)) \in Nat /\ Cardinality(Strays(t)) \in Nat
    BY <2>1, WorkerSets
  <2>3. Cardinality(Strays(t)) <= overruns /\ overruns \in Nat
    BY DEF StraysInv, TypeOK
  <2>4. QED
    BY <2>2, <2>3
<1>4. QED
  BY <1>1, <1>2, <1>3, TypeCorrect, LeaseColumnsAlwaysAgree, PTL DEF Spec

(* What failed for good has had all its attempts: the limit is compared    *)
(* with the row as it was claimed, and that is the row that is recorded.   *)
FailedTasksExhausted ==
  \A t \in Tasks : status[t] = "failed" => attempts[t] >= MaxAttempts

(* A step by which a task fails ends its last attempt, and no step gives a *)
(* failed task its attempts back without taking it up again.               *)
LEMMA ExhaustedStep ==
  ASSUME QueueInv, FailedTasksExhausted, [Next]_vars
  PROVE  FailedTasksExhausted'
<1> USE DEF FailedTasksExhausted, taskVars, workerVars, boundVars
<1>0. /\ status \in [Tasks -> Statuses] /\ attempts \in [Tasks -> Nat]
      /\ \A w \in Workers : pc[w] = "running" => job[w] \in Tasks /\ snap[w] = attempts[job[w]]
  <2>1. TypeOK /\ ExecutorHoldsLease
    BY DEF QueueInv
  <2>2. ASSUME NEW w \in Workers, pc[w] = "running"
        PROVE  job[w] \in Tasks /\ snap[w] = attempts[job[w]]
    BY <2>1, <2>2, QueueAssumption DEF TypeOK, ExecutorHoldsLease, Busy
  <2>3. QED
    BY <2>1, <2>2 DEF TypeOK
<1>1. ASSUME NEW S \in SUBSET Tasks, EnqueueAgentTask(S) PROVE FailedTasksExhausted'
  BY <1>0, <1>1 DEF EnqueueAgentTask
<1>2. ASSUME NEW w \in Workers, RequeueExpiredTasks(w) PROVE FailedTasksExhausted'
  BY <1>0, <1>2 DEF RequeueExpiredTasks
<1>3. ASSUME NEW w \in Workers, NEW t \in Tasks, ClaimTask(w, t) PROVE FailedTasksExhausted'
  BY <1>0, <1>3 DEF ClaimTask
<1>4. ASSUME NEW w \in Workers, RecordCompletedTask(w) PROVE FailedTasksExhausted'
  BY <1>0, <1>4 DEF RecordCompletedTask, EndTurn
<1>5. ASSUME NEW w \in Workers, RecordFailedTask(w) PROVE FailedTasksExhausted'
  BY <1>0, <1>5 DEF RecordFailedTask, EndTurn, Exhausted
<1>6. ASSUME NEW o \in Operators, RetryUpdate(o) PROVE FailedTasksExhausted'
  BY <1>0, <1>6 DEF RetryUpdate
<1>7. ASSUME NEW w \in Workers,
             \/ TryRepairLock(w) \/ ClaimNothing(w) \/ StartAgentRun(w)
             \/ WorkerStops(w) \/ WorkerStarts(w)
      PROVE  FailedTasksExhausted'
  BY <1>7 DEF TryRepairLock, ClaimNothing, StartAgentRun, WorkerStops, WorkerStarts
<1>8. ASSUME NEW o \in Operators, NEW t \in Tasks, RetryCheck(o, t) PROVE FailedTasksExhausted'
  BY <1>8 DEF RetryCheck
<1>9. ASSUME NEW t \in Tasks, LeaseLapses(t) \/ BackoffElapses(t) PROVE FailedTasksExhausted'
  BY <1>9 DEF LeaseLapses, BackoffElapses
<1>10. CASE UNCHANGED vars
  BY <1>10 DEF vars
<1>11. QED
  BY <1>1, <1>2, <1>3, <1>4, <1>5, <1>6, <1>7, <1>8, <1>9, <1>10 DEF Next, WorkerStep

(* No task is given up before its attempts are used, however often its     *)
(* workers die and whoever retries it: a late outcome of an attempt that   *)
(* was taken back would give it up too early.                              *)
THEOREM FailedTasksExhaustedHolds ==
  ASSUME LeasesOutliveExecution, RetriesDoNotOverlap
  PROVE  Spec => []FailedTasksExhausted
<1>1. Init => FailedTasksExhausted
  BY DEF Init, FailedTasksExhausted
<1>2. QueueInv /\ FailedTasksExhausted /\ [Next]_vars => FailedTasksExhausted'
  BY ExhaustedStep
<1>3. QED
  BY <1>1, <1>2, QueueInvariant, PTL DEF Spec
=============================================================================
