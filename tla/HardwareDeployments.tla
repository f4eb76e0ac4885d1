------------------------ MODULE HardwareDeployments ------------------------
(***************************************************************************)
(* One deployment run of a hardware build (services/agent-memory): a probe *)
(* of the bench host, executed by a task of the queue, and then steps that *)
(* operators carry out and confirm.  The task is taken as TaskLifecycle    *)
(* promises it.                                                            *)
(*                                                                         *)
(* The requests of the operators and the recording of the task meet in the *)
(* rows of the run and its steps.  A transaction locks one of them, and    *)
(* what it looks up next may be overtaken before it writes: hence two      *)
(* steps for each, the second waiting for the rows others hold.            *)
(*                                                                         *)
(* Left out: events, probes, summaries and notes, which nothing here       *)
(* reads; the status "blocked" and a second automatic step, which no       *)
(* request produces.  The first statement of start_hardware_deployment     *)
(* locks the nullable side of an outer join, which PostgreSQL refuses; the *)
(* run is modelled from its creation on.                                   *)
(***************************************************************************)
EXTENDS TaskLifecycle

CONSTANTS Operators,
          LastStep,     \* five steps in the program
          RequestLimit, \* bound on the operators' requests
          CrashLimit    \* bound on the executions lost with their worker

Probe == "probe"
Worker == "worker"
Manual == 2..LastStep
Steps == {1} \cup Manual

ASSUME DeploymentAssumption ==
  /\ Tasks = {Probe} /\ DependsOn = [t \in Tasks |-> {}]
  /\ Worker \notin Operators
  /\ LastStep \in Nat \ {0, 1} /\ RequestLimit \in Nat /\ CrashLimit \in Nat

VARIABLES run,      \* inventory.deployment_run.status
          step,     \* inventory.deployment_step.status, by sequence_index
          tx,       \* the transaction each party has open
          requests, crashes,
          outOfTurn \* history: a step was confirmed that was not awaiting it, or
                    \* the record of the probe found the first one opened before

deploymentVars == <<run, step, tx, requests, crashes, outOfTurn>>
vars == <<lifecycleVars, deploymentVars>>

Parties == Operators \cup {Worker}

\* at: the step whose row it holds; next: the step it means to open next.
NoTx == [op |-> "none", at |-> 0, next |-> 0]
Tx(op, at, next) == [op |-> op, at |-> at, next |-> next]

DeploymentInit ==
  /\ LifecycleInit
  /\ run = "absent"
  /\ step = [k \in Steps |-> "absent"]
  /\ tx = [p \in Parties |-> NoTx]
  /\ requests = 0
  /\ crashes = 0
  /\ outOfTurn = FALSE

\* start_hardware_deployment: one transaction, nobody knows the run before.
StartDeployment ==
  /\ run = "absent"
  /\ Submit({Probe})
  /\ run' = "running"
  /\ step' = [k \in Steps |-> IF k = 1 THEN "queued" ELSE "pending"]
  /\ UNCHANGED <<tx, requests, crashes, outOfTurn>>

(***************************************************************************)
(* Row locks.                                                              *)
(***************************************************************************)
HoldsStep(p, k) == tx[p].at = k
HoldsRun(p)     == tx[p].op \in {"resume", "cancel"}

StepFree(p, k) == \A q \in Parties \ {p} : ~HoldsStep(q, k)
RunFree(p)     == \A q \in Parties \ {p} : ~HoldsRun(q)

\* ORDER BY sequence_index LIMIT 1: the first such step, or 0.
First(statuses, but) ==
  LET found == {k \in Steps \ {but} : step[k] \in statuses}
  IN  IF found = {} THEN {0} ELSE {k \in found : \A j \in found : k <= j}

\* What the second half of a transaction waits for.
WaitsFor(p, q) ==
  \/ tx[p].at # 0 /\ HoldsRun(q)
  \/ tx[p].next # 0 /\ HoldsStep(q, tx[p].next)
  \/ tx[p].op = "cancel" /\ tx[q].at # 0
  \/ tx[p].op = "resume" /\ \E k \in First({"pending", "awaiting"}, 0) : k # 0 /\ HoldsStep(q, k)

Blocked(p) == \E q \in Parties \ {p} : WaitsFor(p, q)

(***************************************************************************)
(* Operators.                                                              *)
(***************************************************************************)
Opens(p, t) == tx[p] = NoTx /\ tx' = [tx EXCEPT ![p] = t]

Asks(o, t) == /\ requests < RequestLimit
              /\ requests' = requests + 1
              /\ Opens(o, t)
              /\ UNCHANGED <<lifecycleVars, run, step, crashes>>

\* complete_hardware_deployment_step: any manual step that is not over, in
\* whatever state the run is.
BeginComplete(o, k) ==
  /\ run # "absent" /\ StepFree(o, k)
  /\ step[k] \notin {"completed", "cancelled"}
  /\ \E next \in First({"pending"}, k) : Asks(o, Tx("complete", k, next))
  /\ outOfTurn' = (outOfTurn \/ step[k] # "awaiting")

BeginResume(o) ==
  /\ run \notin {"absent", "completed", "cancelled"} /\ RunFree(o)
  /\ Asks(o, Tx("resume", 0, 0))
  /\ UNCHANGED outOfTurn

BeginCancel(o) ==
  /\ run # "absent" /\ RunFree(o)
  /\ Asks(o, Tx("cancel", 0, 0))
  /\ UNCHANGED outOfTurn

(***************************************************************************)
(* The worker, about to record the probe.  An attempt that is not the last *)
(* leaves the run alone.                                                   *)
(***************************************************************************)
RecordSuccess ==
  /\ phase[Probe] = "active" /\ StepFree(Worker, 1)
  /\ \E next \in First({"pending"}, 1) : Opens(Worker, Tx("succeed", 1, next))
  /\ outOfTurn' = (outOfTurn \/ step[2] \in {"awaiting", "completed"})
  /\ UNCHANGED <<lifecycleVars, run, step, requests, crashes>>

RecordFailure ==
  /\ phase[Probe] = "active" /\ tx[Worker] = NoTx
  /\ IF tries[Probe] < MaxAttempts
     THEN Fail(Probe) /\ UNCHANGED tx
     ELSE /\ StepFree(Worker, 1)
          /\ Opens(Worker, Tx("fail", 1, 0))
          /\ UNCHANGED lifecycleVars
  /\ UNCHANGED <<run, step, requests, crashes, outOfTurn>>

(***************************************************************************)
(* Second halves.                                                          *)
(***************************************************************************)
Commits(p, op) == tx[p].op = op /\ ~Blocked(p) /\ tx' = [tx EXCEPT ![p] = NoTx]

\* As if the step found earlier were opened whatever became of it.
AdvanceStale(p) ==
  /\ step' = [k \in Steps |-> IF k = tx[p].at THEN "completed"
                              ELSE IF k = tx[p].next THEN "awaiting" ELSE step[k]]
  /\ run' = IF tx[p].next = 0 THEN "completed" ELSE "awaiting_input"

\* As if the run were over with the last step in sequence.
AdvancePastLast(p) ==
  /\ step' = [k \in Steps |-> IF k = tx[p].at THEN "completed"
                              ELSE IF k = tx[p].next /\ step[k] = "pending" THEN "awaiting"
                              ELSE step[k]]
  /\ run' = IF tx[p].next = 0 \/ tx[p].at = LastStep THEN "completed" ELSE "awaiting_input"

\* _advance_hardware_deployment: without a pending step the run is over,
\* whatever has become of the others.
Advance(p) ==
  /\ step' = [k \in Steps |-> IF k = tx[p].at THEN "completed"
                              ELSE IF k = tx[p].next /\ step[k] = "pending" THEN "awaiting"
                              ELSE step[k]]
  /\ run' = IF tx[p].next = 0 THEN "completed" ELSE "awaiting_input"

Complete(o) == Commits(o, "complete") /\ Advance(o) /\ UNCHANGED <<lifecycleVars, requests, crashes, outOfTurn>>

ProbeSucceeds == /\ Commits(Worker, "succeed")
                 /\ Advance(Worker)
                 /\ Succeed(Probe)
                 /\ UNCHANGED <<requests, crashes, outOfTurn>>

\* As if the run were told of a failed probe by its step alone.
ProbeFailsQuietly ==
  /\ Commits(Worker, "fail")
  /\ Fail(Probe)
  /\ step' = [step EXCEPT ![1] = "failed"]
  /\ UNCHANGED <<run, requests, crashes, outOfTurn>>

ProbeFails ==
  /\ Commits(Worker, "fail")
  /\ Fail(Probe)
  /\ step' = [step EXCEPT ![1] = "failed"]
  /\ run' = "failed"
  /\ UNCHANGED <<requests, crashes, outOfTurn>>

Resume(o) ==
  /\ Commits(o, "resume")
  /\ \E k \in First({"pending", "awaiting"}, 0) :
       IF k = 0 THEN UNCHANGED <<run, step>>
       ELSE run' = "awaiting_input" /\ step' = [step EXCEPT ![k] = "awaiting"]
  /\ UNCHANGED <<lifecycleVars, requests, crashes, outOfTurn>>

Cancel(o) ==
  /\ Commits(o, "cancel")
  /\ run' = "cancelled"
  /\ step' = [k \in Steps |-> IF step[k] \in {"pending", "awaiting"} THEN "cancelled" ELSE step[k]]
  /\ UNCHANGED <<lifecycleVars, requests, crashes, outOfTurn>>

\* As if the two parties of a deadlock waited on.
NoVictim(p) == FALSE

\* PostgreSQL ends one of two transactions waiting for each other.  The
\* error leaves run_worker, whose lease is repaired later.
DeadlockVictim(p) ==
  /\ \E q \in Parties \ {p} : WaitsFor(p, q) /\ WaitsFor(q, p)
  /\ tx' = [tx EXCEPT ![p] = NoTx]
  /\ IF p = Worker
     THEN crashes < CrashLimit /\ crashes' = crashes + 1 /\ Recover({Probe})
     ELSE UNCHANGED <<lifecycleVars, crashes>>
  /\ UNCHANGED <<run, step, requests, outOfTurn>>

(***************************************************************************)
(* The task between its transactions.                                      *)
(***************************************************************************)
Execute == Start(Probe) /\ UNCHANGED deploymentVars

WorkerDies ==
  /\ crashes < CrashLimit
  /\ crashes' = crashes + 1
  /\ Recover({Probe}) /\ phase[Probe] = "active"
  /\ tx' = [tx EXCEPT ![Worker] = NoTx]
  /\ UNCHANGED <<run, step, requests, outOfTurn>>

\* A manual retry reopens the task and leaves run and step as they are.
RetryProbe == Reopen(Probe) /\ UNCHANGED deploymentVars

-----------------------------------------------------------------------------
Begin(o) == (\E k \in Manual : BeginComplete(o, k)) \/ BeginResume(o) \/ BeginCancel(o)

Finish(o) == Complete(o) \/ Resume(o) \/ Cancel(o) \/ DeadlockVictim(o)

WorkerStep == \/ Execute \/ RecordSuccess \/ RecordFailure \/ ProbeSucceeds \/ ProbeFails
              \/ DeadlockVictim(Worker)

Next == \/ StartDeployment \/ WorkerStep \/ WorkerDies \/ RetryProbe
        \/ \E o \in Operators : Begin(o) \/ Finish(o)

\* A request that has begun is carried on by its thread, a worker polls and
\* executes, and a row is granted to those waiting for it in turn; nobody
\* need confirm anything.
Fairness == /\ \A o \in Operators : SF_vars(Finish(o))
            /\ WF_vars(WorkerStep)

Spec == DeploymentInit /\ [][Next]_vars /\ Fairness

-----------------------------------------------------------------------------
(***************************************************************************)
(* Properties.                                                             *)
(***************************************************************************)

\* The type of the state.
DeploymentTypeOK ==
  /\ run \in {"absent", "running", "awaiting_input", "completed", "failed", "cancelled"}
  /\ step[1] \in {"absent", "queued", "completed", "failed"}
  /\ \A k \in Manual : step[k] \in {"absent", "pending", "awaiting", "completed", "cancelled"}
  /\ \A p \in Parties : tx[p].at \in {0} \cup Steps /\ tx[p].next \in {0} \cup Manual
  /\ requests \in 0..RequestLimit /\ crashes \in 0..CrashLimit
  /\ phase \in [Tasks -> {"absent", "ready", "active", "succeeded", "failed"}]

\* A run reported completed, which opens the gate of the runtime publish,
\* has no manual step that is pending, however stale the look at the next
\* one was; and none that still awaits its confirmation, if each was
\* confirmed in its turn (docs/operations/hardware-bench-deployment.md:34)
\* and none was opened, by a resume, before the probe was recorded.  The
\* code accepts a confirmation of any step that is not over, and ends the
\* run with the last pending one whatever waits before it.
CompletedRunsConfirmed ==
  run = "completed" =>
    \A k \in Manual : /\ step[k] # "pending"
                      /\ outOfTurn \/ step[k] # "awaiting"

\* What an operator has confirmed or a cancellation has closed stays so:
\* neither a resume nor the advance of another transaction, which both set a
\* step they found earlier, opens it again.
ManualStepsFinal ==
  [][\A k \in Manual : step[k] \in {"completed", "cancelled"} => step'[k] = step[k]]_vars

\* A run reported running has a probe that is still to be recorded, also
\* after crashes and aborted recordings: it never waits for nothing.
RunningMeansProbing ==
  run = "running" => phase[Probe] \in {"ready", "active"} /\ step[1] = "queued"

\* The run leaves "running", and no request stays open for ever however the
\* transactions cross.
DeploymentsSettle ==
  /\ (run = "running") ~> (run # "running")
  /\ \A o \in Operators : (tx[o] # NoTx) ~> (tx[o] = NoTx)

=============================================================================
