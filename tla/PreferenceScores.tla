-------------------------- MODULE PreferenceScores --------------------------
(***************************************************************************)
(* Recomputation of a developer's preference score through the task queue. *)
(* Each write of a signal or decision commits, with its row, a recompute   *)
(* task, unless it saw one that is queued or leased; the executor reads    *)
(* all signals of the account and upserts the score; and the maintenance   *)
(* tool scripts/dev-queue-rebalance.py moves rows that an earlier release  *)
(* left in the default queue and marks duplicate tasks skipped.            *)
(*                                                                         *)
(* One runtime account is modelled: accounts share nothing.  All Tasks are *)
(* rows of kind preferences.compute_dev_preference_scores for it.          *)
(***************************************************************************)
EXTENDS AgentTaskQueue

CONSTANTS
  Writers,     \* request handlers that write signals and decisions
  Tools,       \* runs of the rebalance tool
  DefaultQueue, PreferenceQueue, \* "default" and "preferences.recompute"
  MaxSignals   \* bound on the rows written

ASSUME ScoreAssumption ==
  /\ MaxSignals \in Nat
  /\ \A t \in Tasks : HomeQueue[t] \in {DefaultQueue, PreferenceQueue}

VARIABLES
  signals,    \* committed rows of dev_preference_signal and _decision
  score,      \* computed_from_signal_count of the account's score, 0 before
  writing,    \* writing[h]: what the open transaction of h will do
  computing,  \* computing[w]: how far the executor in worker w is
  seen,       \* seen[w]: the number of rows the executor read
  plan,       \* plan[r]: the tasks the tool run r is about to move and skip
  \* history:
  seenAtClaim, \* seenAtClaim[w]: rows committed when w claimed
  overtaken,  \* executors that had read when another recompute was claimed
  stale,      \* the stored score is that of an overtaken executor
  due         \* the last row that was committed with a recompute of its own

historyVars == <<seenAtClaim, overtaken, stale, due>>
scoreVars == <<signals, score, writing, computing, seen, plan, historyVars>>
allVars == <<vars, scoreVars>>

NoPlan == [moves |-> {}, skips |-> {}]

ScoreInit ==
  /\ Init
  /\ signals = 0 /\ score = 0
  /\ writing = [h \in Writers |-> "none"]
  /\ computing = [w \in Workers |-> "start"]
  /\ seen = [w \in Workers |-> 0]
  /\ plan = [r \in Tools |-> NoPlan]
  /\ seenAtClaim = [w \in Workers |-> 0]
  /\ overtaken = {} /\ stale = FALSE /\ due = 0

\* The lookup is confined to the queue the kind belongs to now.
OpenTasks ==
  {t \in Tasks : queueOf[t] = PreferenceQueue /\ status[t] \in {"queued", "leased"}}

\* A recompute as an earlier release enqueued it, one for each write.
EnqueueLegacyTask(t) ==
  /\ HomeQueue[t] = DefaultQueue
  /\ EnqueueAgentTask({t})
  /\ UNCHANGED scoreVars
-----------------------------------------------------------------------------
\* create_dev_preference_signal and create_dev_preference_decision: the row is
\* inserted and the open tasks are looked up, in a transaction that sees what
\* is committed and locks nothing.
LookUpOpenTask(h) ==
  /\ writing[h] = "none"
  /\ signals < MaxSignals
  /\ writing' = [writing EXCEPT ![h] = IF OpenTasks = {} THEN "insert" ELSE "reuse"]
  /\ UNCHANGED <<vars, signals, score, computing, seen, plan, historyVars>>

\* The commit publishes the row and, if none was seen, the new task.
CommitSignal(h) ==
  /\ writing[h] # "none" /\ signals < MaxSignals
  /\ signals' = signals + 1
  /\ writing' = [writing EXCEPT ![h] = "none"]
  /\ IF writing[h] = "insert"
     THEN /\ \E t \in Tasks : HomeQueue[t] = PreferenceQueue /\ EnqueueAgentTask({t})
          /\ due' = signals + 1
     ELSE UNCHANGED <<vars, due>>
  /\ UNCHANGED <<score, computing, seen, plan, seenAtClaim, overtaken, stale>>
-----------------------------------------------------------------------------
\* compute_dev_preference_scores: a read of all rows, then an upsert that
\* replaces whatever score is there.  The rows are read by one statement for
\* each table; the count that is stored is that of the first.
ReadSignals(w) ==
  /\ pc[w] = "running" /\ computing[w] = "start"
  /\ seen' = [seen EXCEPT ![w] = signals]
  /\ computing' = [computing EXCEPT ![w] = "read"]
  /\ UNCHANGED <<vars, signals, score, writing, plan, historyVars>>

UpsertScore(w) ==
  /\ pc[w] = "running" /\ computing[w] = "read"
  /\ score' = seen[w]
  /\ computing' = [computing EXCEPT ![w] = "written"]
  /\ stale' = (w \in overtaken)
  /\ overtaken' = overtaken \ {w}
  /\ UNCHANGED <<vars, signals, writing, seen, plan, seenAtClaim, due>>

\* What the executor holds is gone with the end of the attempt.
ForgetComputation(w) ==
  /\ computing' = [computing EXCEPT ![w] = "start"]
  /\ seen' = [seen EXCEPT ![w] = 0]
  /\ seenAtClaim' = [seenAtClaim EXCEPT ![w] = 0]
  /\ overtaken' = overtaken \ {w}
  /\ UNCHANGED <<signals, score, writing, plan, stale, due>>

ClaimScoreTask(w, t) ==
  /\ ClaimTask(w, t)
  /\ seenAtClaim' = [seenAtClaim EXCEPT ![w] = signals]
  /\ overtaken' = overtaken \cup {v \in Workers : computing[v] = "read"}
  /\ UNCHANGED <<signals, score, writing, computing, seen, plan, stale, due>>

\* Mutant: the task is recorded before the score is committed.
CompleteUnwritten(w) ==
  /\ computing[w] # "start"
  /\ RecordCompletedTask(w)
  /\ ForgetComputation(w)

CompleteScoreTask(w) ==
  /\ computing[w] = "written"
  /\ RecordCompletedTask(w)
  /\ ForgetComputation(w)

FailScoreTask(w) ==
  /\ computing[w] # "written"
  /\ RecordFailedTask(w)
  /\ ForgetComputation(w)

StopDuringScore(w) ==
  /\ WorkerStops(w)
  /\ ForgetComputation(w)
-----------------------------------------------------------------------------
\* collect_plan moves every queued row of the default queue, keeps one queued
\* recompute and skips the others; apply_plan updates the rows by their ids,
\* whatever became of them, and leaves the lease columns alone.
QueuedTasks == {t \in Tasks : status[t] = "queued"}

\* Mutant: none of the queued recomputes is kept.
CollectAllAsDuplicates(r) ==
  /\ plan[r] = NoPlan /\ QueuedTasks # {}
  /\ plan' = [plan EXCEPT ![r] =
                [moves |-> {t \in QueuedTasks : queueOf[t] = DefaultQueue},
                 skips |-> QueuedTasks]]
  /\ UNCHANGED <<vars, signals, score, writing, computing, seen, historyVars>>

CollectPlan(r) ==
  /\ plan[r] = NoPlan
  /\ \E keep \in QueuedTasks :
       plan' = [plan EXCEPT ![r] =
                  [moves |-> {t \in QueuedTasks : queueOf[t] = DefaultQueue},
                   skips |-> QueuedTasks \ {keep}]]
  /\ plan'[r] # NoPlan
  /\ UNCHANGED <<vars, signals, score, writing, computing, seen, historyVars>>

ApplyPlan(r) ==
  /\ plan[r] # NoPlan
  /\ queueOf' = [t \in Tasks |->
                   IF t \in plan[r].moves THEN PreferenceQueue ELSE queueOf[t]]
  /\ status' = [t \in Tasks |->
                  IF t \in plan[r].skips THEN "skipped" ELSE status[t]]
  /\ plan' = [plan EXCEPT ![r] = NoPlan]
  /\ UNCHANGED <<attempts, owner, lapsed, delayed, repairs, workerVars,
                 retrying, boundVars, signals, score, writing, computing, seen,
                 historyVars>>
-----------------------------------------------------------------------------
ScoreNext ==
  \/ \E h \in Writers : LookUpOpenTask(h) \/ CommitSignal(h)
  \/ \E w \in Workers :
       \/ ReadSignals(w) \/ UpsertScore(w)
       \/ CompleteScoreTask(w) \/ FailScoreTask(w) \/ StopDuringScore(w)
       \/ \E t \in Tasks : ClaimScoreTask(w, t)
       \/ /\ \/ TryRepairLock(w) \/ RequeueExpiredTasks(w) \/ ClaimNothing(w)
             \/ StartAgentRun(w) \/ WorkerStarts(w)
          /\ UNCHANGED scoreVars
  \/ \E r \in Tools : CollectPlan(r) \/ ApplyPlan(r)
  \/ \E t \in Tasks : EnqueueLegacyTask(t)
  \/ \E t \in Tasks :
       (LeaseLapses(t) \/ BackoffElapses(t)) /\ UNCHANGED scoreVars

ScoreSpec == ScoreInit /\ [][ScoreNext]_allVars
-----------------------------------------------------------------------------
(* A recompute that succeeds has brought into the stored score every row   *)
(* that was committed when it was claimed, through deaths, repairs and the *)
(* tool's skipping: unless the score is that of an executor which another  *)
(* claim overtook between its read and its upsert.  Nothing orders those,  *)
(* and any number of recomputes may be open.                               *)
SuccessCoversItsClaim ==
  [][\A w \in Workers :
       CompleteScoreTask(w) => stale \/ score >= seenAtClaim[w]]_allVars

(* A row committed with a recompute of its own reaches the score once no   *)
(* recompute is open or executing, although the tool marks recomputes      *)
(* skipped on an old look at them, some claimed meanwhile: unless attempts *)
(* were exhausted, or the score is an overtaken executor's.  A row whose   *)
(* writer found an open recompute has no such promise: that one may have   *)
(* read the rows before.                                                   *)
RowsReachScore ==
  (/\ \A t \in Tasks : status[t] \notin {"queued", "leased", "failed"}
   /\ \A w \in Workers : ~Busy(w))
  => stale \/ score >= due
=============================================================================
