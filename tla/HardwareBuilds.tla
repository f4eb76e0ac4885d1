--------------------------- MODULE HardwareBuilds ---------------------------
(***************************************************************************)
(* The hardware build lane of services/agent-memory.  A build names the    *)
(* units it is made of and is driven through its states by four chained    *)
(* tasks of the queue; a publish request adds a task that registers it     *)
(* with the runtime.  The executor of a task commits its own changes to    *)
(* build and units; a second transaction records the task and writes the   *)
(* build's status again.                                                   *)
(*                                                                         *)
(* Left out: the append-only inventory events and the pointers to the      *)
(* latest event and task, which no operation here reads; and the manual    *)
(* retry of a task, after which a build's status need not follow its       *)
(* tasks: a repeated stage writes its own status whatever came after it.   *)
(***************************************************************************)
EXTENDS AgentTaskQueue

CONSTANTS
  Builds, Units,
  UnitsOf,   \* UnitsOf[b]: base and rover unit of build b
  BuildOf,   \* BuildOf[t]: buildId in the payload of t
  KindOf,    \* KindOf[t]: task kind
  DeviceOf,  \* DeviceOf[t]: runtimeDeviceId in the payload of a register task
  Blank,     \* a device id of white space
  Physical,  \* the builds with a physical or deployable unit
  MaxRequests \* bound on the publish requests of a build

Pipeline == <<"prepare", "reserve", "assemble", "validate">>

ASSUME BuildAssumption ==
  /\ None \notin Builds
  /\ UnitsOf \in [Builds -> SUBSET Units]
  /\ BuildOf \in [Tasks -> Builds]
  /\ KindOf \in [Tasks -> {"prepare", "reserve", "assemble", "validate", "register"}]
  /\ DOMAIN DeviceOf = {t \in Tasks : KindOf[t] = "register"}
  /\ Physical \subseteq Builds

VARIABLES
  buildStatus,    \* buildStatus[b]: inventory.build.status
  runtimeDevice,  \* runtimeDevice[b]: runtime_device_id, Blank for NULL
  unitStatus,     \* unitStatus[u]: inventory.unit.status
  holder,         \* holder[u]: current_build_id
  deployed,       \* the builds with a completed deployment run
  executed        \* executed[w]: the executor in w has committed

buildVars == <<buildStatus, runtimeDevice, unitStatus, holder, deployed, executed>>
allVars == <<vars, buildVars>>

\* The build status each stage leaves behind, in order.
StageStatus == [prepare |-> "prepared", reserve |-> "parts_reserved",
                assemble |-> "assembled", validate |-> "bench_validated"]
Decided == {"runtime_published", "runtime_registration_failed"}
PublishStates == {"runtime_publish_pending"} \cup Decided
BuildStatuses ==
  {"absent", "planned", "failed"} \cup PublishStates
    \cup {StageStatus[k] : k \in DOMAIN StageStatus}

PipelineTasks(b) == {t \in Tasks : BuildOf[t] = b /\ KindOf[t] # "register"}
Registrations(b) == {t \in Tasks : BuildOf[t] = b /\ KindOf[t] = "register"}

\* Each build has one task of each stage, and each depends on the one before.
ASSUME PipelineAssumption ==
  \A b \in Builds :
    /\ \A i \in 1..4 : \E t \in PipelineTasks(b) :
         \A u \in PipelineTasks(b) : KindOf[u] = Pipeline[i] <=> u = t
    /\ \A i \in 1..3 : \A t, u \in PipelineTasks(b) :
         KindOf[t] = Pipeline[i] /\ KindOf[u] = Pipeline[i + 1] => t \in DependsOn[u]

HardwareInit ==
  /\ Init
  /\ buildStatus = [b \in Builds |-> "absent"]
  /\ runtimeDevice = [b \in Builds |-> Blank]
  /\ unitStatus = [u \in Units |-> "available"]
  /\ holder = [u \in Units |-> None]
  /\ deployed = {}
  /\ executed = [w \in Workers |-> FALSE]
-----------------------------------------------------------------------------
\* start_hardware_build: the row and its four tasks in one transaction.  That
\* the units are free is not looked at.
CreateHardwareBuild(b) ==
  /\ buildStatus[b] = "absent"
  /\ EnqueueAgentTask(PipelineTasks(b))
  /\ buildStatus' = [buildStatus EXCEPT ![b] = "planned"]
  /\ UNCHANGED <<runtimeDevice, unitStatus, holder, deployed, executed>>

\* A deployment run of the build reaches its last step.
CompleteDeployment(b) ==
  /\ buildStatus[b] # "absent" /\ b \in Physical \ deployed
  /\ deployed' = deployed \cup {b}
  /\ UNCHANGED <<vars, buildStatus, runtimeDevice, unitStatus, holder, executed>>

\* Mutant: publishing is accepted from the assembled build on.
PublishableEarly(b) ==
  /\ buildStatus[b] \in {"assembled", "bench_validated", "runtime_publish_pending"}
  /\ b \in Physical => b \in deployed

Publishable(b) ==
  /\ buildStatus[b] \in {"bench_validated", "runtime_publish_pending"}
  /\ b \in Physical => b \in deployed

\* trigger_hardware_runtime_publish.  The new task depends on the newest of the
\* build's four tasks; they were created in one transaction, at one time, so
\* DependsOn[t] may hold any of them.
RequestPublish(b, t) ==
  /\ Publishable(b)
  /\ KindOf[t] = "register" /\ BuildOf[t] = b
  /\ Cardinality({g \in Registrations(b) : status[g] # "absent"}) < MaxRequests
  /\ EnqueueAgentTask({t})
  /\ buildStatus' = [buildStatus EXCEPT ![b] = "runtime_publish_pending"]
  /\ runtimeDevice' = [runtimeDevice EXCEPT ![b] = DeviceOf[t]]
  /\ UNCHANGED <<unitStatus, holder, deployed, executed>>
-----------------------------------------------------------------------------
(* The executors.  Each is one transaction that asks nothing of the status *)
(* it replaces.                                                            *)

\* Mutant: reserving leaves the units as they are.
ReservesNothing(t) ==
  CASE KindOf[t] \in {"prepare", "reserve"} -> "in_build"
    [] KindOf[t] = "validate" -> "validated"

\* What task t makes of the units of its build.
UnitStatusAfter(t) ==
  CASE KindOf[t] = "prepare" -> "in_build"
    [] KindOf[t] = "reserve" -> "reserved"
    [] KindOf[t] = "validate" -> "validated"

\* The register task falls back to the device on the build's row.
ResolvedDevice(t) ==
  IF DeviceOf[t] # Blank THEN DeviceOf[t] ELSE runtimeDevice[BuildOf[t]]

ExecuteStage(w) ==
  LET t == job[w]  b == BuildOf[job[w]] IN
  /\ pc[w] = "running" /\ ~executed[w]
  /\ executed' = [executed EXCEPT ![w] = TRUE]
  /\ IF KindOf[t] = "register"
     THEN /\ runtimeDevice' = [runtimeDevice EXCEPT ![b] = ResolvedDevice(t)]
          /\ UNCHANGED buildStatus
     ELSE /\ buildStatus' = [buildStatus EXCEPT ![b] = StageStatus[KindOf[t]]]
          /\ UNCHANGED runtimeDevice
  /\ unitStatus' = [u \in Units |->
       IF u \in UnitsOf[b] /\ KindOf[t] \in {"prepare", "reserve", "validate"}
       THEN UnitStatusAfter(t) ELSE unitStatus[u]]
  /\ holder' = [u \in Units |->
       IF u \in UnitsOf[b] /\ KindOf[t] = "prepare" THEN b ELSE holder[u]]
  /\ UNCHANGED <<vars, deployed>>

\* _apply_hardware_task_side_effects, in the transaction that records success.
CompleteStage(w) ==
  LET t == job[w]  b == BuildOf[job[w]] IN
  /\ executed[w]
  /\ RecordCompletedTask(w)
  /\ executed' = [executed EXCEPT ![w] = FALSE]
  /\ buildStatus' = [buildStatus EXCEPT ![b] =
       IF KindOf[t] # "register" THEN StageStatus[KindOf[t]]
       ELSE IF ResolvedDevice(t) # Blank THEN "runtime_published"
       ELSE "runtime_registration_failed"]
  /\ runtimeDevice' = IF KindOf[t] = "register"
                      THEN [runtimeDevice EXCEPT ![b] = ResolvedDevice(t)]
                      ELSE runtimeDevice
  /\ UNCHANGED <<unitStatus, holder, deployed>>

\* Mutant: the build is never given up.
GivesUpNever(w) == FALSE

GivesUp(w) == Exhausted(w)

\* Only the last attempt fails the build; its units stay as they are.
FailStage(w) ==
  LET b == BuildOf[job[w]] IN
  /\ ~executed[w]
  /\ RecordFailedTask(w)
  /\ buildStatus' =
       IF GivesUp(w)
       THEN [buildStatus EXCEPT ![b] = IF KindOf[job[w]] = "register"
                                       THEN "runtime_registration_failed"
                                       ELSE "failed"]
       ELSE buildStatus
  /\ UNCHANGED <<runtimeDevice, unitStatus, holder, deployed, executed>>

StopInBuild(w) ==
  /\ WorkerStops(w)
  /\ executed' = [executed EXCEPT ![w] = FALSE]
  /\ UNCHANGED <<buildStatus, runtimeDevice, unitStatus, holder, deployed>>
-----------------------------------------------------------------------------
\* The steps of the worker loop that touch no build.
QueueStep(w) ==
  /\ \/ TryRepairLock(w)
     \/ RequeueExpiredTasks(w)
     \/ \E t \in Tasks : ClaimTask(w, t)
     \/ ClaimNothing(w)
     \/ StartAgentRun(w)
  /\ UNCHANGED buildVars

BuildWorkerStep(w) ==
  QueueStep(w) \/ ExecuteStage(w) \/ CompleteStage(w) \/ FailStage(w)

HardwareNext ==
  \/ \E b \in Builds : CreateHardwareBuild(b) \/ CompleteDeployment(b)
  \/ \E b \in Builds, t \in Tasks : RequestPublish(b, t)
  \/ \E w \in Workers : BuildWorkerStep(w) \/ StopInBuild(w)
  \/ \E w \in Workers : WorkerStarts(w) /\ UNCHANGED buildVars
  \/ \E t \in Tasks : (LeaseLapses(t) \/ BackoffElapses(t)) /\ UNCHANGED buildVars

HardwareSpec == HardwareInit /\ [][HardwareNext]_allVars

HardwareFairness ==
  /\ \A w \in Workers : WF_allVars(BuildWorkerStep(w))
  /\ \A t \in Tasks : /\ WF_allVars(LeaseLapses(t) /\ UNCHANGED buildVars)
                       /\ WF_allVars(BackoffElapses(t) /\ UNCHANGED buildVars)

FairHardwareSpec == HardwareSpec /\ HardwareFairness
-----------------------------------------------------------------------------
BuildTypeOK ==
  /\ buildStatus \in [Builds -> BuildStatuses]
  /\ runtimeDevice \in [Builds -> {DeviceOf[t] : t \in DOMAIN DeviceOf} \cup {Blank}]
  /\ unitStatus \in [Units -> {"available", "in_build", "reserved", "validated"}]
  /\ holder \in [Units -> Builds \cup {None}]
  /\ deployed \subseteq Physical
  /\ executed \in [Workers -> BOOLEAN]
  /\ \A w \in Workers : executed[w] => pc[w] = "running"

\* How many stages of the pipeline a build status claims to have behind it.
Reached(s) ==
  IF s \in PublishStates THEN 4
  ELSE LET n == {i \in 1..4 : StageStatus[Pipeline[i]] = s}
       IN  IF n = {} THEN 0 ELSE CHOOSE i \in n : TRUE

StageOf(t) == CHOOSE i \in 1..4 : Pipeline[i] = KindOf[t]

\* Tasks of which an execution was begun and, unless it is recorded, goes on.
Begun == {"leased", "succeeded", "failed"}

\* A registration of b was decided without waiting for task t.
DecidedWithout(b, t) ==
  /\ buildStatus[b] \in Decided
  /\ \E g \in Registrations(b) : status[g] \in Settled /\ t \notin DependsOn[g]

(* The status of a build never runs ahead of its tasks by more than the    *)
(* stage in progress, and never falls behind one that is recorded: crashes *)
(* and repeated executions included.  It is failed only when one of its    *)
(* tasks has used up its attempts, and stays so: but for a validation that *)
(* the publish request did not make the predecessor of its task.  When     *)
(* such a validation fails, the record of the registration overwrites the  *)
(* failed status.                                                          *)
StatusMatchesTasks ==
  /\ BuildTypeOK
  /\ \A b \in Builds :
       /\ buildStatus[b] = "failed" => \E t \in PipelineTasks(b) : status[t] = "failed"
       /\ \A t \in PipelineTasks(b) :
            /\ status[t] = "failed" =>
                 \/ buildStatus[b] = "failed"
                 \/ KindOf[t] = "validate" /\ DecidedWithout(b, t)
            /\ StageOf(t) < Reached(buildStatus[b]) => status[t] = "succeeded"
            /\ status[t] = "succeeded" /\ buildStatus[b] # "failed"
                 => Reached(buildStatus[b]) >= StageOf(t)

\* Unit u is planned into another build that was started: nothing looks.
Contested(b, u) ==
  \E c \in Builds \ {b} : u \in UnitsOf[c] /\ buildStatus[c] # "absent"

\* A build that has its parts reserved, or more, has to itself those units
\* that no other build was started with.
PartsMarkedForBuild ==
  \A b \in Builds : \A u \in UnitsOf[b] :
    Reached(buildStatus[b]) >= 2 =>
      \/ Contested(b, u)
      \/ holder[u] = b /\ unitStatus[u] \in {"reserved", "validated"}

\* A register task starts, and a publication is decided, only after the first
\* three stages are recorded, and after the bench validation was: or, where
\* the request picked another predecessor, was attempted at least.
RegisteredAfterValidation ==
  \A b \in Builds :
    /\ \A g \in Registrations(b), t \in PipelineTasks(b) :
         status[g] \in Begun =>
           \/ status[t] = "succeeded"
           \/ KindOf[t] = "validate" /\ t \notin DependsOn[g] /\ attempts[t] > 0
    /\ buildStatus[b] \in Decided => \E g \in Registrations(b) : status[g] \in Settled

(* What a later stage relies on is there when it runs, whichever stages    *)
(* were executed twice or died between their commit and their record, and  *)
(* whichever predecessor the publish request found: the parts belong to    *)
(* the build, and registration is asked for by no status that the stages   *)
(* before it did not earn, although the request looks at the status alone. *)
StagesRestOnEarlierOnes == PartsMarkedForBuild /\ RegisteredAfterValidation

(* Every build that is started is validated or given up in the end,        *)
(* whichever workers die on the way, and every publish request is decided, *)
(* if the validation is executed again under it or fails then as well.     *)
BuildConcludes ==
  \A b \in Builds :
    /\ buildStatus[b] = "planned"
         ~> buildStatus[b] \in {"bench_validated", "failed"} \cup PublishStates
    /\ buildStatus[b] = "runtime_publish_pending"
         ~> buildStatus[b] \in Decided \cup {"failed"}
=============================================================================
