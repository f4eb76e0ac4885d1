--------------------------- MODULE AgentTaskQueue ---------------------------
(***************************************************************************)
(* The leased task queue of services/agent-memory: the table agent.task,   *)
(* the worker loops (run_worker) that repair leases, scan their queues,    *)
(* claim, execute and record, and the HTTP handlers that enqueue and retry.*)
(*                                                                         *)
(* Every action is one committed PostgreSQL transaction, or a step of a    *)
(* process between two transactions.  A worker keeps the row it claimed    *)
(* (job, snap) while other transactions go on changing that row; nothing   *)
(* renews its lease, and the transaction that records its outcome finds    *)
(* the row by its id alone.                                                *)
(*                                                                         *)
(* Time is abstracted to the two comparisons the code makes with NOW():    *)
(* lapsed[t] stands for lease_expires_at < NOW() and delayed[t] for        *)
(* available_at > NOW().                                                   *)
(***************************************************************************)
EXTENDS Integers, Sequences, FiniteSets

CONSTANTS
  Tasks,         \* the rows agent.task may ever hold
  Workers,       \* the worker names of the run_worker processes
  Operators,     \* HTTP handler threads that serve a manual retry
  Queues,        \* values of queue_name
  None,          \* SQL NULL
  Priority,      \* priority of a task
  HomeQueue,     \* the queue resolve_task_queue_name gives a task
  DependsOn,     \* the rows of agent.task_dependency
  WorkerQueues,  \* the queues a worker serves, in scan order
  MaxAttempts,   \* max_attempts
  CrashProne,    \* the workers that may die
  MaxCrashes,    \* bound on worker deaths
  MaxOverruns,   \* bound on leases that lapse under a live execution
  MaxRetries     \* bound on manual retries

ASSUME QueueAssumption ==
  /\ MaxAttempts \in Nat \ {0}
  /\ MaxCrashes \in Nat /\ MaxOverruns \in Nat /\ MaxRetries \in Nat
  /\ None \notin Tasks /\ None \notin Workers
  /\ Priority \in [Tasks -> Int]
  /\ HomeQueue \in [Tasks -> Queues]
  /\ DependsOn \in [Tasks -> SUBSET Tasks]
  /\ IsFiniteSet(Workers) /\ CrashProne \subseteq Workers
  /\ \A w \in Workers : WorkerQueues[w] \in Seq(Queues) /\ WorkerQueues[w] # <<>>

VARIABLES
  status,     \* status[t]: "absent" before the INSERT
  attempts,   \* attempts[t]: attempt_count
  owner,      \* owner[t]: lease_owner
  lapsed,     \* lapsed[t]: the lease has expired
  delayed,    \* delayed[t]: available_at is in the future
  queueOf,    \* queueOf[t]: queue_name
  repairs,    \* repairs[t]: lease repairs since attempt_count was 0 (history)
  pc,         \* pc[w]: where the loop of worker w is
  job,        \* job[w]: the task in the local variable "task" of process_task
  snap,       \* snap[w]: its attemptCount, as returned by the claim
  cursor,     \* cursor[w]: position in WorkerQueues[w]
  repairing,  \* holder of the lease-repair advisory lock
  retrying,   \* retrying[o]: the task whose retry passed its check
  crashes, overruns, retries   \* how much of each bound is used

taskVars   == <<status, attempts, owner, lapsed, delayed, queueOf, repairs>>
workerVars == <<pc, job, snap, cursor, repairing>>
boundVars  == <<crashes, overruns, retries>>
vars == <<taskVars, workerVars, retrying, boundVars>>

Statuses == {"absent", "queued", "leased", "succeeded", "failed", "skipped"}
Locations == {"down", "idle", "repair", "scan", "claimed", "running"}

\* retry_agent_task accepts these.
Settled == {"succeeded", "failed"}

\* The worker holds a claimed row and has not recorded its outcome.
Busy(w) == pc[w] \in {"claimed", "running"}
Executes(w, t) == Busy(w) /\ job[w] = t

\* The lease of a worker that died, even if it was started again since.
Abandoned(t) == \A w \in Workers : owner[t] = w => ~Executes(w, t)
-----------------------------------------------------------------------------
Init ==
  /\ status = [t \in Tasks |-> "absent"]
  /\ attempts = [t \in Tasks |-> 0]
  /\ owner = [t \in Tasks |-> None]
  /\ lapsed = [t \in Tasks |-> FALSE]
  /\ delayed = [t \in Tasks |-> FALSE]
  /\ queueOf = HomeQueue
  /\ repairs = [t \in Tasks |-> 0]
  /\ pc = [w \in Workers |-> "idle"]
  /\ job = [w \in Workers |-> None]
  /\ snap = [w \in Workers |-> 0]
  /\ cursor = [w \in Workers |-> 1]
  /\ repairing = None
  /\ retrying = [o \in Operators |-> None]
  /\ crashes = 0 /\ overruns = 0 /\ retries = 0

\* One transaction inserts the rows S and their dependencies, which name rows
\* that exist already or are inserted with them.
EnqueueAgentTask(S) ==
  /\ S # {}
  /\ \A t \in S : status[t] = "absent"
  /\ \A t \in S : \A d \in DependsOn[t] : d \in S \/ status[d] # "absent"
  /\ status' = [t \in Tasks |-> IF t \in S THEN "queued" ELSE status[t]]
  /\ UNCHANGED <<attempts, owner, lapsed, delayed, queueOf, repairs,
                 workerVars, retrying, boundVars>>

-----------------------------------------------------------------------------
(* One turn of run_worker: lease repair, then the queues in their order.   *)

TryRepairLock(w) ==
  /\ pc[w] = "idle"
  /\ IF repairing = None
     THEN repairing' = w /\ pc' = [pc EXCEPT ![w] = "repair"]
     ELSE pc' = [pc EXCEPT ![w] = "scan"] /\ UNCHANGED repairing
  /\ UNCHANGED <<taskVars, job, snap, cursor, retrying, boundVars>>

\* Mutants: the expiry is not compared with NOW(); repair honours the limit.
AllLeases == {t \in Tasks : status[t] = "leased"}
ExpiredLeasesWithinLimit ==
  {t \in Tasks : status[t] = "leased" /\ lapsed[t] /\ attempts[t] < MaxAttempts}

ExpiredLeases == {t \in Tasks : status[t] = "leased" /\ lapsed[t]}

\* Neither max_attempts nor the worker that still executes is looked at.
RequeueExpiredTasks(w) ==
  /\ pc[w] = "repair"
  /\ status' = [t \in Tasks |->
                  IF t \in ExpiredLeases THEN "queued" ELSE status[t]]
  /\ owner' = [t \in Tasks |-> IF t \in ExpiredLeases THEN None ELSE owner[t]]
  /\ lapsed' = [t \in Tasks |-> lapsed[t] /\ t \notin ExpiredLeases]
  /\ delayed' = [t \in Tasks |-> delayed[t] /\ t \notin ExpiredLeases]
  /\ repairs' = [t \in Tasks |->
                   IF t \in ExpiredLeases THEN repairs[t] + 1 ELSE repairs[t]]
  /\ repairing' = None
  /\ pc' = [pc EXCEPT ![w] = "scan"]
  /\ UNCHANGED <<attempts, queueOf, job, snap, cursor, retrying, boundVars>>

\* Mutant: any finished prerequisite releases its dependents.
PrerequisitesFinished(t) == \A d \in DependsOn[t] : status[d] \in Settled

PrerequisitesSucceeded(t) == \A d \in DependsOn[t] : status[d] = "succeeded"

\* The rows of queue q with a status in S that the claim may take.
ClaimableOf(q, S) ==
  {t \in Tasks : /\ queueOf[t] = q
                 /\ status[t] \in S
                 /\ ~delayed[t]
                 /\ PrerequisitesSucceeded(t)}

\* Mutants: the claim takes rows of another status too.
ClaimableOrLeased(q) == ClaimableOf(q, {"queued", "leased"})
ClaimableOrFailed(q) == ClaimableOf(q, {"queued", "failed"})

Claimable(q) == ClaimableOf(q, {"queued"})

\* ORDER BY priority DESC; which of several equals is oldest is left open.
FirstInOrder(S) == {t \in S : \A u \in S : Priority[u] <= Priority[t]}

CurrentQueue(w) == WorkerQueues[w][cursor[w]]

ClaimTask(w, t) ==
  /\ pc[w] = "scan"
  /\ t \in FirstInOrder(Claimable(CurrentQueue(w)))
  /\ status' = [status EXCEPT ![t] = "leased"]
  /\ owner' = [owner EXCEPT ![t] = w]
  /\ lapsed' = [lapsed EXCEPT ![t] = FALSE]
  /\ attempts' = [attempts EXCEPT ![t] = @ + 1]
  /\ pc' = [pc EXCEPT ![w] = "claimed"]
  /\ job' = [job EXCEPT ![w] = t]
  /\ snap' = [snap EXCEPT ![w] = attempts[t] + 1]
  /\ cursor' = [cursor EXCEPT ![w] = 1]
  /\ UNCHANGED <<delayed, queueOf, repairs, repairing, retrying, boundVars>>

\* An empty queue: on to the next one, or to the wait for a notification,
\* which its timeout ends at the latest.
ClaimNothing(w) ==
  /\ pc[w] = "scan"
  /\ Claimable(CurrentQueue(w)) = {}
  /\ IF cursor[w] < Len(WorkerQueues[w])
     THEN cursor' = [cursor EXCEPT ![w] = @ + 1] /\ UNCHANGED pc
     ELSE /\ cursor' = [cursor EXCEPT ![w] = 1]
          /\ pc' = [pc EXCEPT ![w] = "idle"]
  /\ UNCHANGED <<taskVars, job, snap, repairing, retrying, boundVars>>

StartAgentRun(w) ==
  /\ pc[w] = "claimed"
  /\ pc' = [pc EXCEPT ![w] = "running"]
  /\ UNCHANGED <<taskVars, job, snap, cursor, repairing, retrying, boundVars>>

\* The worker forgets its task and begins its next turn.
EndTurn(w) ==
  /\ pc[w] = "running"
  /\ pc' = [pc EXCEPT ![w] = "idle"]
  /\ job' = [job EXCEPT ![w] = None]
  /\ snap' = [snap EXCEPT ![w] = 0]
  /\ UNCHANGED <<cursor, repairing>>

\* Mutant: the lease columns of a finished attempt are left as they are.
LeaveLease(t) == UNCHANGED <<owner, lapsed>>

\* Both outcomes clear the lease of whoever holds it by now.
ClearLease(t) ==
  /\ owner' = [owner EXCEPT ![t] = None]
  /\ lapsed' = [lapsed EXCEPT ![t] = FALSE]

RecordCompletedTask(w) ==
  /\ EndTurn(w)
  /\ status' = [status EXCEPT ![job[w]] = "succeeded"]
  /\ ClearLease(job[w])
  /\ UNCHANGED <<attempts, delayed, queueOf, repairs, retrying, boundVars>>

\* Mutant: one attempt more than max_attempts.
ExhaustedLate(w) == snap[w] > MaxAttempts

\* Exhaustion is decided on the claimed row, not on the row it updates.
Exhausted(w) == snap[w] >= MaxAttempts

RecordFailedTask(w) ==
  /\ EndTurn(w)
  /\ IF Exhausted(w)
     THEN status' = [status EXCEPT ![job[w]] = "failed"] /\ UNCHANGED delayed
     ELSE /\ status' = [status EXCEPT ![job[w]] = "queued"]
          /\ delayed' = [delayed EXCEPT ![job[w]] = TRUE]
  /\ ClearLease(job[w])
  /\ UNCHANGED <<attempts, queueOf, repairs, retrying, boundVars>>
-----------------------------------------------------------------------------
(* retry_agent_task: the SELECT takes no lock, the UPDATE has no condition *)
(* on the status.                                                          *)

RetryCheck(o, t) ==
  /\ retrying[o] = None
  /\ retries < MaxRetries
  /\ status[t] \in Settled
  /\ retrying' = [retrying EXCEPT ![o] = t]
  /\ retries' = retries + 1
  /\ UNCHANGED <<taskVars, workerVars, crashes, overruns>>

RetryUpdate(o) ==
  LET t == retrying[o] IN
  /\ t # None
  /\ status' = [status EXCEPT ![t] = "queued"]
  /\ ClearLease(t)
  /\ attempts' = [attempts EXCEPT ![t] = 0]
  /\ delayed' = [delayed EXCEPT ![t] = FALSE]
  /\ repairs' = [repairs EXCEPT ![t] = 0]
  /\ retrying' = [retrying EXCEPT ![o] = None]
  /\ UNCHANGED <<queueOf, workerVars, boundVars>>
-----------------------------------------------------------------------------
(* Time and failures.                                                      *)

\* A lease lapses because its worker died or, within MaxOverruns, because the
\* execution takes longer than the lease.
LeaseLapses(t) ==
  /\ status[t] = "leased" /\ ~lapsed[t]
  /\ IF Abandoned(t)
     THEN UNCHANGED overruns
     ELSE overruns < MaxOverruns /\ overruns' = overruns + 1
  /\ lapsed' = [lapsed EXCEPT ![t] = TRUE]
  /\ UNCHANGED <<status, attempts, owner, delayed, queueOf, repairs,
                 workerVars, retrying, crashes, retries>>

BackoffElapses(t) ==
  /\ delayed[t]
  /\ delayed' = [delayed EXCEPT ![t] = FALSE]
  /\ UNCHANGED <<status, attempts, owner, lapsed, queueOf, repairs,
                 workerVars, retrying, boundVars>>

\* The process ends: killed, or an exception left run_worker, as one raised
\* while an outcome is recorded does.  Its session gives up the advisory lock.
WorkerStops(w) ==
  /\ w \in CrashProne /\ pc[w] # "down"
  /\ crashes < MaxCrashes
  /\ crashes' = crashes + 1
  /\ pc' = [pc EXCEPT ![w] = "down"]
  /\ job' = [job EXCEPT ![w] = None]
  /\ snap' = [snap EXCEPT ![w] = 0]
  /\ cursor' = [cursor EXCEPT ![w] = 1]
  /\ repairing' = IF repairing = w THEN None ELSE repairing
  /\ UNCHANGED <<taskVars, retrying, overruns, retries>>

WorkerStarts(w) ==
  /\ pc[w] = "down"
  /\ pc' = [pc EXCEPT ![w] = "idle"]
  /\ UNCHANGED <<taskVars, job, snap, cursor, repairing, retrying, boundVars>>
-----------------------------------------------------------------------------
WorkerStep(w) ==
  \/ TryRepairLock(w)
  \/ RequeueExpiredTasks(w)
  \/ \E t \in Tasks : ClaimTask(w, t)
  \/ ClaimNothing(w)
  \/ StartAgentRun(w)
  \/ RecordCompletedTask(w)
  \/ RecordFailedTask(w)

Next ==
  \/ \E S \in SUBSET Tasks : EnqueueAgentTask(S)
  \/ \E w \in Workers : WorkerStep(w) \/ WorkerStops(w) \/ WorkerStarts(w)
  \/ \E o \in Operators : RetryUpdate(o) \/ \E t \in Tasks : RetryCheck(o, t)
  \/ \E t \in Tasks : LeaseLapses(t) \/ BackoffElapses(t)

Spec == Init /\ [][Next]_vars

\* A worker process keeps taking steps until it dies, an accepted retry is
\* carried out, and time passes.  Nothing restarts a dead worker.
Fairness ==
  /\ \A w \in Workers : WF_vars(WorkerStep(w))
  /\ \A o \in Operators : WF_vars(RetryUpdate(o))
  /\ \A t \in Tasks : WF_vars(LeaseLapses(t)) /\ WF_vars(BackoffElapses(t))

FairSpec == Spec /\ Fairness
-----------------------------------------------------------------------------
(* Circumstances under which the queue keeps its promises: no lease lapses *)
(* while its worker executes, and manual retries never overlap, or nobody  *)
(* retries at all.                                                         *)

LeasesOutliveExecution == MaxOverruns = 0
RetriesDoNotOverlap == \A o1, o2 \in Operators : o1 = o2
NobodyRetries == MaxRetries = 0

TypeOK ==
  /\ status \in [Tasks -> Statuses]
  /\ attempts \in [Tasks -> Nat]
  /\ owner \in [Tasks -> Workers \cup {None}]
  /\ lapsed \in [Tasks -> BOOLEAN]
  /\ delayed \in [Tasks -> BOOLEAN]
  /\ queueOf \in [Tasks -> Queues]
  /\ repairs \in [Tasks -> Nat]
  /\ pc \in [Workers -> Locations]
  /\ job \in [Workers -> Tasks \cup {None}]
  /\ snap \in [Workers -> Nat]
  /\ cursor \in [Workers -> Nat \ {0}]
  /\ \A w \in Workers : cursor[w] <= Len(WorkerQueues[w])
  /\ repairing \in Workers \cup {None}
  /\ retrying \in [Operators -> Tasks \cup {None}]
  /\ crashes \in 0..MaxCrashes /\ overruns \in Nat /\ retries \in Nat
  /\ \A w \in Workers : Busy(w) <=> job[w] # None

(* Whatever races happen, the lease columns say leased exactly when the    *)
(* status does: every writer of one writes the other.                      *)
LeaseColumnsAgree ==
  \A t \in Tasks : /\ status[t] = "leased" <=> owner[t] # None
                   /\ lapsed[t] => status[t] = "leased"

(* The lease protocol's purpose: a worker that executes a task holds its   *)
(* current, unexpired lease and its current attempt, so nobody else        *)
(* executes it and the outcome it will record is about the row it finds.   *)
ExecutorHoldsLease ==
  \A w \in Workers : Busy(w) => /\ status[job[w]] = "leased" /\ ~lapsed[job[w]]
                                /\ owner[job[w]] = w
                                /\ snap[w] = attempts[job[w]]

(* No two workers execute one task.                                        *)
ExclusiveExecution ==
  \A w1, w2 \in Workers : Busy(w1) /\ Busy(w2) /\ job[w1] = job[w2] => w1 = w2

(* The attempt limit: the counter passes max_attempts only by as many      *)
(* claims as lease repairs gave the task back without looking at it.       *)
AttemptsAccounted ==
  \A t \in Tasks : /\ attempts[t] <= MaxAttempts + repairs[t]
                   /\ status[t] \in {"absent", "queued"}
                        => attempts[t] < MaxAttempts + repairs[t]

(* Between the check of a manual retry and its update the task stays       *)
(* finished, so the update does what was checked.                          *)
RetryTargetsSettled ==
  \A o \in Operators : retrying[o] # None => status[retrying[o]] \in Settled

(* The inductive invariant of the two circumstances above.                 *)
QueueInv ==
  /\ TypeOK
  /\ LeaseColumnsAgree
  /\ ExecutorHoldsLease
  /\ RetryTargetsSettled
  /\ AttemptsAccounted

(* Dependencies hold at every moment of an execution, not only at the      *)
(* claim: until something is retried by hand, a task that was ever started *)
(* sees all its prerequisites done.                                        *)
StartedAfterPrerequisites ==
  retries = 0 =>
    \A t \in Tasks :
      status[t] \in {"leased"} \cup Settled =>
        \A d \in DependsOn[t] : status[d] = "succeeded"

(* Each lease that lapses under its executor lets in at most one executor  *)
(* too many.                                                               *)
Executors(t) == {w \in Workers : Executes(w, t)}
DuplicatesBounded ==
  \A t \in Tasks : Cardinality(Executors(t)) <= 1 + overruns

(* A finished task is reopened by a manual retry and by nothing else: no   *)
(* late outcome, repair or claim changes it.                               *)
SettledUntilRetried ==
  [][\A t \in Tasks :
       status[t] \in Settled /\ status'[t] # status[t]
         => \E o \in Operators : retrying[o] = t /\ retrying'[o] = None]_vars

(* Nothing that can run is left: what was enqueued is finished or waits    *)
(* for a prerequisite that did not succeed.                                *)
Drained ==
  \A t \in Tasks :
    status[t] # "absent" =>
      \/ status[t] \in Settled
      \/ status[t] = "queued" /\ \E d \in DependsOn[t] : status[d] # "succeeded"

(* The queue drains for good: leases of dead workers are repaired, backoff *)
(* ends, every eligible task is claimed and its outcome recorded.          *)
EventuallyDrained == <>[]Drained
-----------------------------------------------------------------------------
(* The lifecycle a task goes through for those who do not see the workers. *)
phaseOf == [t \in Tasks |-> CASE status[t] = "queued" -> "ready"
                              [] status[t] = "leased" -> "active"
                              [] OTHER -> status[t]]

Lifecycle == INSTANCE TaskLifecycle WITH phase <- phaseOf, tries <- attempts

(* Workers, leases, repairs and retries add up to that lifecycle: each     *)
(* outcome ends the attempt in progress, and no step of a worker that lost *)
(* its claim shows.                                                        *)
ImplementsLifecycle == Lifecycle!LifecycleSpec
=============================================================================
