---------------------------- MODULE TaskLifecycle ----------------------------
(***************************************************************************)
(* What agent.task promises to those who enqueue work, without workers,    *)
(* leases or clocks: a task is ready, active for one attempt at a time,    *)
(* and finished; it starts only on finished prerequisites, gives up only   *)
(* after MaxAttempts attempts, and is reopened by a manual retry alone.    *)
(* AgentTaskQueue implements this module while leases outlive executions.  *)
(***************************************************************************)
EXTENDS Integers

CONSTANTS Tasks, DependsOn, MaxAttempts

VARIABLES phase, tries

lifecycleVars == <<phase, tries>>

LifecycleInit ==
  /\ phase = [t \in Tasks |-> "absent"]
  /\ tries = [t \in Tasks |-> 0]

\* A request creates the tasks S with their prerequisites in place.
Submit(S) ==
  /\ \A t \in S : phase[t] = "absent"
  /\ \A t \in S : \A d \in DependsOn[t] : d \in S \/ phase[d] # "absent"
  /\ phase' = [t \in Tasks |-> IF t \in S THEN "ready" ELSE phase[t]]
  /\ UNCHANGED tries

Start(t) ==
  /\ phase[t] = "ready"
  /\ \A d \in DependsOn[t] : phase[d] = "succeeded"
  /\ phase' = [phase EXCEPT ![t] = "active"]
  /\ tries' = [tries EXCEPT ![t] = @ + 1]

Succeed(t) ==
  /\ phase[t] = "active"
  /\ phase' = [phase EXCEPT ![t] = "succeeded"]
  /\ UNCHANGED tries

\* The attempt failed: another one while the limit allows it.
Fail(t) ==
  /\ phase[t] = "active"
  /\ phase' = [phase EXCEPT ![t] = IF tries[t] < MaxAttempts THEN "ready" ELSE "failed"]
  /\ UNCHANGED tries

\* The attempts S were lost with their workers, and count.
Recover(S) ==
  /\ \A t \in S : phase[t] = "active"
  /\ phase' = [t \in Tasks |-> IF t \in S THEN "ready" ELSE phase[t]]
  /\ UNCHANGED tries

Reopen(t) ==
  /\ phase[t] \in {"succeeded", "failed"}
  /\ phase' = [phase EXCEPT ![t] = "ready"]
  /\ tries' = [tries EXCEPT ![t] = 0]

LifecycleNext ==
  \/ \E S \in SUBSET Tasks : Submit(S) \/ Recover(S)
  \/ \E t \in Tasks : Start(t) \/ Succeed(t) \/ Fail(t) \/ Reopen(t)

LifecycleSpec == LifecycleInit /\ [][LifecycleNext]_lifecycleVars
=============================================================================
