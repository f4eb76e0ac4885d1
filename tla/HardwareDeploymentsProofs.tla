--------------------- MODULE HardwareDeploymentsProofs ---------------------
(***************************************************************************)
(* Proofs about HardwareDeployments for any number of operators, manual    *)
(* steps and attempts.                                                     *)
(*                                                                         *)
(* Between its halves a transaction relies on what it read: the step it    *)
(* completes is still open, because it holds the row; no step is pending   *)
(* if it found none, because no request makes a step pending again.  The   *)
(* invariant says so of every open transaction (TxOK); with it each second *)
(* half keeps the properties of the run.                                   *)
(***************************************************************************)
EXTENDS HardwareDeployments, TLAPS

Ops == {"none", "complete", "resume", "cancel", "succeed", "fail"}

StateOK ==
  /\ run \in {"absent", "running", "awaiting_input", "completed", "failed", "cancelled"}
  /\ step \in [Steps -> {"absent", "queued", "pending", "awaiting", "completed", "failed", "cancelled"}]
  /\ tx \in [Parties -> [op : Ops, at : {0} \cup Steps, next : {0} \cup Manual]]
  /\ phase \in [Tasks -> {"absent", "ready", "active", "succeeded", "failed"}]
  /\ requests \in 0..RequestLimit /\ crashes \in 0..CrashLimit

\* Before the start there is neither a probe nor a transaction.
AbsentOK ==
  /\ run = "absent" => \A p \in Parties : tx[p] = NoTx
  /\ run = "absent" => \A k \in Steps : step[k] = "absent"
  /\ run = "absent" <=> phase[Probe] = "absent"
  /\ run # "absent" => \A k \in Steps : step[k] # "absent"

StepsOK ==
  /\ step[1] \in {"absent", "queued", "completed", "failed"}
  /\ \A k \in Manual : step[k] \in {"absent", "pending", "awaiting", "completed", "cancelled"}

\* What an open transaction of party p relies on.
TxOK(p) ==
  /\ tx[p].op = "complete" => /\ p \in Operators
                              /\ tx[p].at \in Manual
                              /\ step[tx[p].at] \in {"pending", "awaiting"}
  /\ tx[p].op \in {"succeed", "fail"} => /\ p = Worker
                                         /\ tx[p].at = 1
                                         /\ phase[Probe] = "active"
  /\ tx[p].op \in {"none", "resume", "cancel"} => tx[p].at = 0 /\ tx[p].next = 0
  /\ tx[p].op \in {"complete", "succeed"} /\ tx[p].next = 0
       => \A k \in Manual \ {tx[p].at} : step[k] # "pending"

\* A row is held by one transaction at most.
RowsHeldOnce ==
  \A p, q \in Parties : p # q /\ tx[p].at # 0 => tx[p].at # tx[q].at

\* What a completed run has behind it, in whatever order.
NoPending == run = "completed" => \A k \in Manual : step[k] # "pending"

DeploymentInv ==
  /\ StateOK /\ AbsentOK /\ StepsOK /\ RowsHeldOnce
  /\ \A p \in Parties : TxOK(p)
  /\ NoPending
  /\ RunningMeansProbing

-----------------------------------------------------------------------------
(* Steps are the numbers from 1 on, and 0 is none of them. *)
LEMMA StepNumbers == /\ 0 \notin Steps /\ 1 \in Steps /\ 1 \notin Manual
                     /\ Manual \subseteq Steps
                     /\ Probe \in Tasks /\ Worker \in Parties
                     /\ Operators \subseteq Parties /\ Worker \notin Operators
  BY DeploymentAssumption DEF Steps, Manual, Parties

(* The first step of some status has that status; there is none only if no *)
(* step but the excluded one has it.                                       *)
LEMMA FirstFound ==
  ASSUME NEW S, NEW but, NEW k \in First(S, but)
  PROVE  /\ k # 0 => k \in Steps /\ k # but /\ step[k] \in S
         /\ k = 0 => \A j \in Steps \ {but} : step[j] \notin S
         /\ k \in {0} \cup Steps
  BY StepNumbers DEF First

(* Nothing has happened in an initial state. *)
LEMMA InvInit == DeploymentInit => DeploymentInv
  BY StepNumbers, DeploymentAssumption
  DEF DeploymentInit, LifecycleInit, DeploymentInv, StateOK, AbsentOK, StepsOK, RowsHeldOnce,
      TxOK, NoTx, Ops, NoPending, RunningMeansProbing, Parties

\* Nothing but these is cited for a step that leaves run and steps alone.
USE DEF Ops

(* Opening a transaction: the rows of the run are not touched, and what    *)
(* the newcomer relies on was just read.                                   *)
LEMMA OpensKeepsInv ==
  ASSUME DeploymentInv, NEW p \in Parties, run # "absent",
         NEW op \in Ops, NEW at \in {0} \cup Steps, NEW next \in {0} \cup Manual,
         Opens(p, Tx(op, at, next)),
         op = "complete" => /\ p \in Operators /\ at \in Manual
                            /\ step[at] \in {"pending", "awaiting"},
         op \in {"succeed", "fail"} => p = Worker /\ at = 1 /\ phase[Probe] = "active",
         op \in {"none", "resume", "cancel"} => at = 0 /\ next = 0,
         op \in {"complete", "succeed"} /\ next = 0
           => \A k \in Manual \ {at} : step[k] # "pending",
         at # 0 => StepFree(p, at),
         UNCHANGED <<run, step, phase>>, requests' \in 0..RequestLimit, crashes' \in 0..CrashLimit
  PROVE  DeploymentInv'
<1> USE DEF DeploymentInv
<1>1. tx' = [tx EXCEPT ![p] = Tx(op, at, next)] /\ tx[p] = NoTx
  BY DEF Opens
<1>2. StateOK'
  BY <1>1 DEF StateOK, Tx
<1>3. AbsentOK'
  BY DEF AbsentOK
<1>4. StepsOK'
  BY DEF StepsOK
<1>5. RowsHeldOnce'
  BY <1>1 DEF RowsHeldOnce, StateOK, Tx, StepFree, HoldsStep
<1>6. \A q \in Parties : TxOK(q)'
  <2> TAKE q \in Parties
  <2>1. CASE q = p
    BY <1>1, <2>1 DEF TxOK, StateOK, Tx
  <2>2. CASE q # p
    BY <1>1, <2>2 DEF TxOK, StateOK
  <2> QED BY <2>1, <2>2
<1>7. NoPending' /\ RunningMeansProbing'
  BY DEF NoPending, RunningMeansProbing
<1> QED BY <1>2, <1>3, <1>4, <1>5, <1>6, <1>7

(* Closing a transaction without having written anything. *)
LEMMA AbandonKeepsInv ==
  ASSUME DeploymentInv, NEW p \in Parties,
         tx' = [tx EXCEPT ![p] = NoTx],
         UNCHANGED <<run, step>>, requests' \in 0..RequestLimit, crashes' \in 0..CrashLimit,
         \/ UNCHANGED phase
         \/ p = Worker /\ run # "absent" /\ phase' = [phase EXCEPT ![Probe] = "ready"]
  PROVE  DeploymentInv'
<1> USE DEF DeploymentInv
<1>0. phase' \in [Tasks -> {"absent", "ready", "active", "succeeded", "failed"}]
      /\ (p # Worker => phase' = phase)
      /\ (phase'[Probe] # phase[Probe] => phase'[Probe] = "ready")
  BY StepNumbers DEF StateOK
<1>1. StateOK'
  BY <1>0, StepNumbers DEF StateOK, NoTx
<1>2. AbsentOK'
  BY <1>0, StepNumbers DEF AbsentOK, StateOK
<1>3. StepsOK'
  BY DEF StepsOK
<1>4. RowsHeldOnce'
  BY DEF RowsHeldOnce, StateOK, NoTx
<1>5. \A q \in Parties : TxOK(q)'
  <2> TAKE q \in Parties
  <2>1. CASE q = p
    BY <2>1 DEF TxOK, StateOK, NoTx
  <2>2. CASE q # p
    BY <1>0, <2>2 DEF TxOK, StateOK
  <2> QED BY <2>1, <2>2
<1>6. NoPending' /\ RunningMeansProbing'
  BY <1>0 DEF NoPending, RunningMeansProbing
<1> QED BY <1>1, <1>2, <1>3, <1>4, <1>5, <1>6

(* Completing the held step and opening the one found before. *)
LEMMA AdvanceKeepsInv ==
  ASSUME DeploymentInv, NEW p \in Parties,
         tx[p].op \in {"complete", "succeed"}, ~Blocked(p),
         tx' = [tx EXCEPT ![p] = NoTx],
         Advance(p),
         requests' \in 0..RequestLimit, crashes' \in 0..CrashLimit,
         \/ UNCHANGED phase
         \/ p = Worker /\ phase' = [phase EXCEPT ![Probe] = "succeeded"]
  PROVE  /\ DeploymentInv'
         /\ \A k \in Manual : step[k] \in {"completed", "cancelled"} => step'[k] = step[k]
<1> USE DEF DeploymentInv
<1>0. /\ tx[p].at \in Steps /\ TxOK(p) /\ tx[p].next \in {0} \cup Manual
      /\ run # "absent"
      /\ run' \in {"completed", "awaiting_input"}
      /\ tx[p].next # 0 => run' = "awaiting_input"
  BY StepNumbers DEF TxOK, StateOK, AbsentOK, NoTx, Advance
<1>1. /\ phase' \in [Tasks -> {"absent", "ready", "active", "succeeded", "failed"}]
      /\ phase'[Probe] # "absent"
      /\ p # Worker => phase' = phase
  BY <1>0, StepNumbers DEF StateOK, AbsentOK
<1>2. \A k \in Steps :
        /\ k = tx[p].at => step'[k] = "completed"
        /\ k # tx[p].at => \/ step'[k] = step[k]
                           \/ k = tx[p].next /\ step[k] = "pending" /\ step'[k] = "awaiting"
  BY DEF Advance
<1>3. step' \in [Steps -> {"absent", "queued", "pending", "awaiting", "completed", "failed", "cancelled"}]
  BY <1>0 DEF Advance, StateOK
<1>4. \A q \in Parties \ {p} : tx[q].at # 0 =>
        tx[q].at \in Steps /\ step'[tx[q].at] = step[tx[q].at]
  BY <1>0, <1>2, StepNumbers DEF Blocked, WaitsFor, HoldsStep, RowsHeldOnce, StateOK
<1>5. StateOK'
  BY <1>0, <1>1, <1>3 DEF StateOK, NoTx
<1>6. AbsentOK'
  BY <1>0, <1>1, <1>2 DEF AbsentOK
<1>7. StepsOK'
  BY <1>0, <1>2, StepNumbers DEF StepsOK, TxOK
<1>8. RowsHeldOnce'
  BY DEF RowsHeldOnce, StateOK, NoTx
<1>9. \A q \in Parties : TxOK(q)'
  <2> TAKE q \in Parties
  <2>1. CASE q = p
    BY <2>1 DEF TxOK, StateOK, NoTx
  <2>2. CASE q # p
    <3>1. tx'[q] = tx[q] /\ TxOK(q)
      BY <2>2 DEF StateOK
    <3>2. \A k \in Manual : step[k] # "pending" => step'[k] # "pending"
      BY <1>2, StepNumbers
    <3>3. tx[q].op = "complete" => step'[tx[q].at] \in {"pending", "awaiting"}
      BY <1>4, <2>2, <3>1, StepNumbers DEF TxOK
    <3>4. tx[q].op \in {"succeed", "fail"} => phase' = phase
      BY <1>1, <2>2, <3>1 DEF TxOK
    <3> QED BY <3>1, <3>2, <3>3, <3>4 DEF TxOK
  <2> QED BY <2>1, <2>2
<1>10. NoPending'
  BY <1>0, <1>2, StepNumbers DEF NoPending, TxOK
<1>11. RunningMeansProbing'
  BY <1>0 DEF RunningMeansProbing
<1>12. \A k \in Manual : step[k] \in {"completed", "cancelled"} => step'[k] = step[k]
  BY <1>0, <1>2, StepNumbers DEF TxOK
<1> QED BY <1>5, <1>6, <1>7, <1>8, <1>9, <1>10, <1>11, <1>12

(* What operators confirmed or a cancellation closed, in one step. *)
FinalKept == \A k \in Manual : step[k] \in {"completed", "cancelled"} => step'[k] = step[k]

(* The loss of an execution takes the probe back to the queue. *)
LEMMA RecoverProbe ==
  ASSUME DeploymentInv, Recover({Probe})
  PROVE  phase' = [phase EXCEPT ![Probe] = "ready"] /\ run # "absent"
  BY StepNumbers DEF DeploymentInv, StateOK, AbsentOK, Recover

(* The start writes all rows of the run at once.                           *)
LEMMA StartKeepsInv == DeploymentInv /\ StartDeployment => DeploymentInv' /\ FinalKept
<1> SUFFICES ASSUME DeploymentInv, StartDeployment PROVE DeploymentInv' /\ FinalKept
  OBVIOUS
<1> USE DEF DeploymentInv
<1>1. /\ run' = "running" /\ tx' = tx /\ requests' = requests /\ crashes' = crashes
      /\ step' = [k \in Steps |-> IF k = 1 THEN "queued" ELSE "pending"]
      /\ phase' \in [Tasks -> {"absent", "ready", "active", "succeeded", "failed"}]
      /\ phase'[Probe] = "ready"
      /\ \A p \in Parties : tx[p] = NoTx
      /\ \A k \in Steps : step[k] = "absent"
  BY StepNumbers DEF StartDeployment, Submit, StateOK, AbsentOK
<1>2. StateOK' /\ AbsentOK' /\ StepsOK'
  BY <1>1, StepNumbers DEF StateOK, AbsentOK, StepsOK
<1>3. RowsHeldOnce' /\ \A p \in Parties : TxOK(p)'
  BY <1>1 DEF RowsHeldOnce, TxOK, NoTx
<1>4. NoPending' /\ RunningMeansProbing' /\ FinalKept
  BY <1>1, StepNumbers DEF NoPending, RunningMeansProbing, FinalKept
<1> QED BY <1>2, <1>3, <1>4

(* A request of an operator that opens its transaction.                    *)
LEMMA BeginKeepsInv ==
  ASSUME DeploymentInv, NEW o \in Operators, Begin(o) PROVE DeploymentInv' /\ FinalKept
<1> o \in Parties
  BY StepNumbers
<1>1. requests' \in 0..RequestLimit /\ crashes' \in 0..CrashLimit
      /\ UNCHANGED <<run, step, phase>>
  BY DeploymentAssumption
  DEF Begin, BeginComplete, BeginResume, BeginCancel, Asks, DeploymentInv, StateOK, lifecycleVars
<1>2. FinalKept
  BY <1>1 DEF FinalKept
<1>3. ASSUME NEW k \in Manual, BeginComplete(o, k) PROVE DeploymentInv'
  <2>1. run # "absent" /\ StepFree(o, k) /\ step[k] \in {"pending", "awaiting"} /\ k \in Steps
    BY <1>3, StepNumbers DEF BeginComplete, DeploymentInv, StepsOK, AbsentOK
  <2>2. PICK next \in First({"pending"}, k) : Opens(o, Tx("complete", k, next))
    BY <1>3 DEF BeginComplete, Asks
  <2>3. next \in {0} \cup Manual /\ (next = 0 => \A j \in Manual \ {k} : step[j] # "pending")
    BY FirstFound, StepNumbers DEF DeploymentInv, StepsOK, Steps
  <2> QED BY <1>1, <2>1, <2>2, <2>3, OpensKeepsInv
<1>4. CASE BeginResume(o)
  <2>1. run # "absent" /\ Opens(o, Tx("resume", 0, 0))
    BY <1>4 DEF BeginResume, Asks
  <2> QED BY <1>1, <1>2, <2>1, OpensKeepsInv
<1>5. CASE BeginCancel(o)
  <2>1. run # "absent" /\ Opens(o, Tx("cancel", 0, 0))
    BY <1>5 DEF BeginCancel, Asks
  <2> QED BY <1>1, <1>2, <2>1, OpensKeepsInv
<1> QED BY <1>2, <1>3, <1>4, <1>5 DEF Begin

(* The worker before the rows it means to write: a failure that is not the *)
(* last one writes none.                                                   *)
LEMMA RecordKeepsInv ==
  ASSUME DeploymentInv, RecordSuccess \/ RecordFailure PROVE DeploymentInv' /\ FinalKept
<1>1. /\ phase[Probe] = "active" /\ run # "absent" /\ Worker \in Parties /\ 1 \in Steps
      /\ UNCHANGED <<run, step, requests, crashes>>
      /\ requests' \in 0..RequestLimit /\ crashes' \in 0..CrashLimit
  BY StepNumbers DEF RecordSuccess, RecordFailure, DeploymentInv, StateOK, AbsentOK
<1>2. FinalKept
  BY <1>1 DEF FinalKept
<1>3. CASE RecordSuccess
  <2>1. PICK next \in First({"pending"}, 1) : Opens(Worker, Tx("succeed", 1, next))
    BY <1>3 DEF RecordSuccess
  <2>2. next \in {0} \cup Manual /\ (next = 0 => \A j \in Manual \ {1} : step[j] # "pending")
    BY FirstFound, StepNumbers DEF Steps
  <2>3. StepFree(Worker, 1) /\ phase' = phase
    BY <1>3 DEF RecordSuccess, lifecycleVars
  <2> QED BY <1>1, <1>2, <2>1, <2>2, <2>3, OpensKeepsInv
<1>4. CASE RecordFailure /\ tries[Probe] < MaxAttempts
  <2>1. phase' = [phase EXCEPT ![Probe] = "ready"] /\ tx' = tx /\ tx[Worker] = NoTx
    BY <1>4 DEF RecordFailure, Fail
  <2>2. tx' = [tx EXCEPT ![Worker] = NoTx]
    BY <1>1, <2>1 DEF DeploymentInv, StateOK
  <2> QED BY <1>1, <1>2, <2>1, <2>2, AbandonKeepsInv
<1>5. CASE RecordFailure /\ ~(tries[Probe] < MaxAttempts)
  <2>1. Opens(Worker, Tx("fail", 1, 0)) /\ StepFree(Worker, 1) /\ phase' = phase
    BY <1>5 DEF RecordFailure, lifecycleVars
  <2> QED BY <1>1, <1>2, <2>1, OpensKeepsInv
<1> QED BY <1>3, <1>4, <1>5

(* The second halves that advance the run.                                 *)
LEMMA AdvancesKeepInv ==
  ASSUME DeploymentInv, ProbeSucceeds \/ \E o \in Operators : Complete(o)
  PROVE  DeploymentInv' /\ FinalKept
<1>1. requests' \in 0..RequestLimit /\ crashes' \in 0..CrashLimit
  BY DEF ProbeSucceeds, Complete, DeploymentInv, StateOK
<1>2. CASE ProbeSucceeds
  <2>1. /\ tx[Worker].op = "succeed" /\ ~Blocked(Worker) /\ Advance(Worker)
        /\ tx' = [tx EXCEPT ![Worker] = NoTx]
        /\ phase' = [phase EXCEPT ![Probe] = "succeeded"]
    BY <1>2 DEF ProbeSucceeds, Commits, Succeed
  <2> QED BY <1>1, <2>1, AdvanceKeepsInv, StepNumbers DEF FinalKept
<1>3. ASSUME NEW o \in Operators, Complete(o) PROVE DeploymentInv' /\ FinalKept
  <2>1. /\ tx[o].op = "complete" /\ ~Blocked(o) /\ Advance(o)
        /\ tx' = [tx EXCEPT ![o] = NoTx] /\ phase' = phase
    BY <1>3 DEF Complete, Commits, lifecycleVars
  <2> QED BY <1>1, <2>1, AdvanceKeepsInv, StepNumbers DEF FinalKept
<1> QED BY <1>2, <1>3

(* The probe is given up, and the run with it.                             *)
LEMMA ProbeFailsKeepsInv ==
  ASSUME DeploymentInv, ProbeFails PROVE DeploymentInv' /\ FinalKept
<1> USE DEF DeploymentInv
<1>1. /\ tx[Worker].op = "fail" /\ tx' = [tx EXCEPT ![Worker] = NoTx]
      /\ run' = "failed" /\ step' = [step EXCEPT ![1] = "failed"]
      /\ phase[Probe] = "active" /\ requests' = requests /\ crashes' = crashes
  BY DEF ProbeFails, Commits, Fail
<1>2. phase' \in [Tasks -> {"absent", "ready", "active", "succeeded", "failed"}]
      /\ phase'[Probe] # "absent"
  BY StepNumbers DEF ProbeFails, Fail, StateOK
<1>3. \A k \in Manual : step'[k] = step[k]
  BY <1>1, StepNumbers DEF StateOK
<1>4. StateOK'
  BY <1>1, <1>2, StepNumbers DEF StateOK, NoTx
<1>5. AbsentOK' /\ StepsOK'
  BY <1>1, <1>2, <1>3, StepNumbers DEF StateOK, AbsentOK, StepsOK
<1>6. RowsHeldOnce'
  BY <1>1 DEF RowsHeldOnce, StateOK, NoTx
<1>7. \A q \in Parties : TxOK(q)'
  <2> TAKE q \in Parties
  <2>1. CASE q = Worker
    BY <1>1, <2>1 DEF TxOK, StateOK, NoTx
  <2>2. CASE q # Worker
    <3>1. tx'[q] = tx[q] /\ TxOK(q) /\ tx[q].op \notin {"succeed", "fail"}
      BY <1>1, <2>2 DEF StateOK, TxOK
    <3> QED BY <1>3, <3>1 DEF TxOK
  <2> QED BY <2>1, <2>2
<1>8. NoPending' /\ RunningMeansProbing' /\ FinalKept
  BY <1>1, <1>3 DEF NoPending, RunningMeansProbing, FinalKept
<1> QED BY <1>4, <1>5, <1>6, <1>7, <1>8

(* A resume may find a step that another transaction is completing only if *)
(* that one has not written yet; it opens a step that is open or pending.  *)
LEMMA ResumeKeepsInv ==
  ASSUME DeploymentInv, NEW o \in Operators, Resume(o) PROVE DeploymentInv' /\ FinalKept
<1> USE DEF DeploymentInv
<1> o \in Parties
  BY StepNumbers
<1>1. /\ tx[o].op = "resume" /\ tx' = [tx EXCEPT ![o] = NoTx] /\ run # "absent"
      /\ phase' = phase /\ requests' = requests /\ crashes' = crashes
  BY DEF Resume, Commits, lifecycleVars, AbsentOK, NoTx
<1>2. PICK k \in First({"pending", "awaiting"}, 0) :
        IF k = 0 THEN UNCHANGED <<run, step>>
        ELSE run' = "awaiting_input" /\ step' = [step EXCEPT ![k] = "awaiting"]
  BY DEF Resume
<1>3. CASE k = 0
  <2>1. UNCHANGED <<run, step>> /\ requests' \in 0..RequestLimit /\ crashes' \in 0..CrashLimit
    BY <1>1, <1>2, <1>3 DEF StateOK
  <2> QED BY <1>1, <2>1, AbandonKeepsInv DEF FinalKept
<1>4. CASE k # 0
  <2>1. /\ k \in Manual /\ step[k] \in {"pending", "awaiting"}
        /\ run' = "awaiting_input" /\ step' = [step EXCEPT ![k] = "awaiting"]
    BY <1>2, <1>4, FirstFound DEF Steps, StepsOK
  <2>2. \A j \in Steps : step'[j] = IF j = k THEN "awaiting" ELSE step[j]
    BY <2>1, StepNumbers DEF StateOK
  <2>3. StateOK'
    BY <1>1, <2>1, StepNumbers DEF StateOK, NoTx
  <2>4. AbsentOK' /\ StepsOK'
    BY <1>1, <2>1, <2>2, StepNumbers DEF AbsentOK, StepsOK
  <2>5. RowsHeldOnce'
    BY <1>1 DEF RowsHeldOnce, StateOK, NoTx
  <2>6. \A q \in Parties : TxOK(q)'
    <3> TAKE q \in Parties
    <3>1. CASE q = o
      BY <1>1, <3>1 DEF TxOK, StateOK, NoTx
    <3>2. CASE q # o
      <4>1. tx'[q] = tx[q] /\ TxOK(q)
        BY <1>1, <3>2 DEF StateOK
      <4> QED BY <1>1, <2>2, <4>1, StepNumbers DEF TxOK
    <3> QED BY <3>1, <3>2
  <2>7. NoPending' /\ RunningMeansProbing' /\ FinalKept
    BY <2>1, <2>2, StepNumbers DEF NoPending, RunningMeansProbing, FinalKept
  <2> QED BY <2>3, <2>4, <2>5, <2>6, <2>7
<1> QED BY <1>3, <1>4

(* A cancellation waits until nobody holds a step. *)
LEMMA CancelKeepsInv ==
  ASSUME DeploymentInv, NEW o \in Operators, Cancel(o) PROVE DeploymentInv' /\ FinalKept
<1> USE DEF DeploymentInv
<1> o \in Parties
  BY StepNumbers
<1>1. /\ tx[o].op = "cancel" /\ tx' = [tx EXCEPT ![o] = NoTx] /\ run # "absent"
      /\ phase' = phase /\ requests' = requests /\ crashes' = crashes
      /\ run' = "cancelled" /\ ~Blocked(o)
  BY DEF Cancel, Commits, lifecycleVars, AbsentOK, NoTx
<1>2. step' = [k \in Steps |-> IF step[k] \in {"pending", "awaiting"} THEN "cancelled" ELSE step[k]]
  BY DEF Cancel
<1>3. StateOK'
  BY <1>1, <1>2 DEF StateOK, NoTx
<1>4. AbsentOK' /\ StepsOK'
  BY <1>1, <1>2, StepNumbers DEF AbsentOK, StepsOK
<1>5. RowsHeldOnce'
  BY <1>1 DEF RowsHeldOnce, StateOK, NoTx
<1>6. \A q \in Parties \ {o} : tx[q].at = 0
  BY <1>1 DEF Blocked, WaitsFor
<1>7. \A q \in Parties : TxOK(q)'
  <2> TAKE q \in Parties
  <2>1. CASE q = o
    BY <1>1, <2>1 DEF TxOK, StateOK, NoTx
  <2>2. CASE q # o
    <3>1. tx'[q] = tx[q] /\ TxOK(q) /\ tx[q].op \in {"none", "resume", "cancel"}
      BY <1>1, <1>6, <2>2, StepNumbers DEF StateOK, TxOK
    <3> QED BY <3>1 DEF TxOK
  <2> QED BY <2>1, <2>2
<1>8. NoPending' /\ RunningMeansProbing' /\ FinalKept
  BY <1>1, <1>2, StepNumbers DEF NoPending, RunningMeansProbing, FinalKept
<1> QED BY <1>3, <1>4, <1>5, <1>7, <1>8

(* A transaction lost to a deadlock or with its worker has written nothing. *)
LEMMA LossKeepsInv ==
  ASSUME DeploymentInv, WorkerDies \/ \E p \in Parties : DeadlockVictim(p)
  PROVE  DeploymentInv' /\ FinalKept
<1>1. /\ UNCHANGED <<run, step>>
      /\ requests' \in 0..RequestLimit /\ crashes' \in 0..CrashLimit
  BY DeploymentAssumption DEF WorkerDies, DeadlockVictim, DeploymentInv, StateOK
<1>2. FinalKept
  BY <1>1 DEF FinalKept
<1>3. CASE WorkerDies
  <2>1. tx' = [tx EXCEPT ![Worker] = NoTx] /\ Recover({Probe})
    BY <1>3 DEF WorkerDies
  <2> QED BY <1>1, <1>2, <2>1, RecoverProbe, AbandonKeepsInv, StepNumbers
<1>4. ASSUME NEW p \in Parties, DeadlockVictim(p) PROVE DeploymentInv'
  <2>1. tx' = [tx EXCEPT ![p] = NoTx] /\ (phase' = phase \/ (p = Worker /\ Recover({Probe})))
    BY <1>4 DEF DeadlockVictim, lifecycleVars
  <2> QED BY <1>1, <2>1, RecoverProbe, AbandonKeepsInv
<1> QED BY <1>2, <1>3, <1>4

(* The task starts or is reopened: no transaction of it is open then. *)
LEMMA TaskKeepsInv ==
  ASSUME DeploymentInv, Execute \/ RetryProbe PROVE DeploymentInv' /\ FinalKept
<1> USE DEF DeploymentInv
<1>1. /\ phase[Probe] \in {"ready", "succeeded", "failed"}
      /\ phase' \in [Tasks -> {"absent", "ready", "active", "succeeded", "failed"}]
      /\ phase'[Probe] \in {"ready", "active"}
      /\ UNCHANGED deploymentVars
  BY StepNumbers DEF Execute, RetryProbe, Start, Reopen, StateOK
<1>2. StateOK' /\ AbsentOK' /\ StepsOK' /\ RowsHeldOnce'
  BY <1>1 DEF StateOK, AbsentOK, StepsOK, RowsHeldOnce, deploymentVars
<1>3. \A q \in Parties : TxOK(q)'
  BY <1>1 DEF TxOK, deploymentVars
<1>4. NoPending' /\ RunningMeansProbing' /\ FinalKept
  BY <1>1 DEF NoPending, RunningMeansProbing, FinalKept, deploymentVars
<1> QED BY <1>2, <1>3, <1>4

(* Every step of the specification. *)
LEMMA NextKeepsInv == DeploymentInv /\ [Next]_vars => DeploymentInv' /\ FinalKept
<1> SUFFICES ASSUME DeploymentInv, [Next]_vars PROVE DeploymentInv' /\ FinalKept
  OBVIOUS
<1>1. CASE StartDeployment
  BY <1>1, StartKeepsInv
<1>2. CASE WorkerStep
  BY <1>2, RecordKeepsInv, AdvancesKeepInv, ProbeFailsKeepsInv, LossKeepsInv, TaskKeepsInv, StepNumbers
  DEF WorkerStep
<1>3. CASE WorkerDies \/ RetryProbe
  BY <1>3, LossKeepsInv, TaskKeepsInv
<1>4. ASSUME NEW o \in Operators, Begin(o) \/ Finish(o) PROVE DeploymentInv' /\ FinalKept
  BY <1>4, BeginKeepsInv, AdvancesKeepInv, ResumeKeepsInv, CancelKeepsInv, LossKeepsInv, StepNumbers
  DEF Finish
<1>5. CASE UNCHANGED vars
  BY <1>5 DEF vars, lifecycleVars, deploymentVars, DeploymentInv, StateOK, AbsentOK, StepsOK,
              RowsHeldOnce, TxOK, NoPending, RunningMeansProbing, FinalKept
<1> QED BY <1>1, <1>2, <1>3, <1>4, <1>5 DEF Next

-----------------------------------------------------------------------------
(* While every confirmation comes in its turn, the step that awaits its own *)
(* has none open before it, and a transaction that advances the run has    *)
(* found the first one it leaves open.                                     *)
Closed(k) == step[k] \notin {"pending", "awaiting"}

TxTurn(p) ==
  tx[p].op \in {"complete", "succeed"} =>
    /\ tx[p].op = "complete" => step[tx[p].at] = "awaiting"
    /\ \A j \in Manual \ {tx[p].at} : tx[p].next = 0 \/ j < tx[p].next => Closed(j)

TurnOK ==
  /\ \A k \in Manual : step[k] = "cancelled" => \A j \in Manual : Closed(j)
  /\ ~outOfTurn =>
       /\ \A k \in Manual : step[k] = "awaiting" => \A j \in Manual : j < k => Closed(j)
       /\ \A p \in Parties : TxTurn(p)
       /\ run = "completed" => \A k \in Manual : step[k] # "awaiting"

(* The first step found comes before the others. *)
LEMMA FirstLeast ==
  ASSUME NEW S, NEW but, NEW k \in First(S, but), k # 0, NEW j \in Steps \ {but}, j < k
  PROVE  step[j] \notin S
<1>1. k \in Nat /\ j \in Nat
  BY FirstFound, DeploymentAssumption DEF Steps, Manual
<1>2. QED
  BY <1>1 DEF First

(* Nothing is written: a transaction that opens has just read the steps.   *)
LEMMA TurnUnwritten ==
  ASSUME DeploymentInv, TurnOK, UNCHANGED <<run, step>>, outOfTurn => outOfTurn',
         \A p \in Parties : \/ tx'[p] = tx[p] \/ tx'[p] = NoTx
                            \/ ~outOfTurn' => TxTurn(p)'
  PROVE  TurnOK'
<1>1. \A p \in Parties : ~outOfTurn' => TxTurn(p)'
  BY DEF TurnOK, TxTurn, NoTx, Closed
<1>2. QED
  BY <1>1 DEF TurnOK, Closed

(* A request that opens its transaction.                                   *)
LEMMA BeginKeepsTurn ==
  ASSUME DeploymentInv, TurnOK, NEW o \in Operators, Begin(o) PROVE TurnOK'
<1>0. o \in Parties /\ tx \in [Parties -> [op : Ops, at : {0} \cup Steps, next : {0} \cup Manual]]
      /\ UNCHANGED <<run, step>>
  BY StepNumbers DEF Begin, BeginComplete, BeginResume, BeginCancel, Asks, DeploymentInv, StateOK
<1>o. outOfTurn => outOfTurn'
  BY Zenon DEF Begin, BeginComplete, BeginResume, BeginCancel
<1>1. ASSUME NEW k \in Manual, BeginComplete(o, k) PROVE TurnOK'
  <2>1. PICK next \in First({"pending"}, k) : Opens(o, Tx("complete", k, next))
    BY <1>1 DEF BeginComplete, Asks
  <2>2. tx' = [tx EXCEPT ![o] = Tx("complete", k, next)]
    BY <2>1 DEF Opens
  <2>3. ASSUME ~outOfTurn' PROVE TxTurn(o)'
    <3>1. ~outOfTurn /\ step[k] = "awaiting"
      BY <1>1, <2>3 DEF BeginComplete
    <3>2. ASSUME NEW j \in Manual \ {k}, next = 0 \/ j < next PROVE Closed(j)
      <4>1. step[j] # "pending"
        BY <2>1, <3>2, FirstFound, FirstLeast, StepNumbers
      <4>2. step[j] # "awaiting"
        BY <3>1, <3>2, DeploymentAssumption DEF TurnOK, Closed, Manual
      <4>3. QED
        BY <4>1, <4>2 DEF Closed
    <3>3. tx'[o] = [op |-> "complete", at |-> k, next |-> next]
      BY <1>0, <2>2 DEF Tx
    <3>4. QED
      BY <1>0, <3>1, <3>2, <3>3 DEF TxTurn, Closed
  <2>4. QED
    BY <1>0, <1>o, <2>2, <2>3, TurnUnwritten
<1>2. CASE BeginResume(o) \/ BeginCancel(o)
  <2>1. PICK op \in {"resume", "cancel"} : tx' = [tx EXCEPT ![o] = Tx(op, 0, 0)]
    BY <1>2 DEF BeginResume, BeginCancel, Asks, Opens
  <2>2. TxTurn(o)'
    BY <1>0, <2>1 DEF TxTurn, Tx
  <2>3. QED
    BY <1>0, <1>o, <2>1, <2>2, TurnUnwritten
<1>3. QED
  BY <1>1, <1>2 DEF Begin

(* The record of a probe that finds the first manual step as it was, or    *)
(* cancelled with the others.                                              *)
LEMMA RecordKeepsTurn ==
  ASSUME DeploymentInv, TurnOK, RecordSuccess \/ RecordFailure PROVE TurnOK'
<1>0. Worker \in Parties /\ tx \in [Parties -> [op : Ops, at : {0} \cup Steps, next : {0} \cup Manual]]
      /\ UNCHANGED <<run, step>>
  BY StepNumbers DEF RecordSuccess, RecordFailure, DeploymentInv, StateOK
<1>o. outOfTurn => outOfTurn'
  BY Zenon DEF RecordSuccess, RecordFailure
<1>1. CASE RecordSuccess
  <2>1. PICK next \in First({"pending"}, 1) : Opens(Worker, Tx("succeed", 1, next))
    BY <1>1 DEF RecordSuccess
  <2>2. tx' = [tx EXCEPT ![Worker] = Tx("succeed", 1, next)]
    BY <2>1 DEF Opens
  <2>3. ASSUME ~outOfTurn' PROVE TxTurn(Worker)'
    <3>1. ~outOfTurn /\ step[2] \notin {"awaiting", "completed"}
      BY <1>1, <2>3 DEF RecordSuccess
    <3>2. 2 \in Manual /\ 2 # 1
      BY DeploymentAssumption DEF Manual
    <3>3. run # "absent" /\ step[2] \in {"pending", "cancelled"}
      BY <1>1, <3>1, <3>2, StepNumbers DEF RecordSuccess, DeploymentInv, AbsentOK, StepsOK, StateOK
    <3>4. CASE step[2] = "pending"
      <4>1. next # 0 /\ next \in Steps /\ ~(2 < next)
        BY <2>1, <3>2, <3>4, FirstFound, FirstLeast, StepNumbers
      <4>2. \A j \in Manual : ~(j < next)
        BY <4>1, DeploymentAssumption DEF Steps, Manual
      <4>3. QED
        BY <1>0, <2>2, <4>1, <4>2 DEF TxTurn, Tx
    <3>5. CASE step[2] = "cancelled"
      <4>1. \A j \in Manual : Closed(j)
        BY <3>2, <3>5 DEF TurnOK
      <4>2. QED
        BY <1>0, <2>2, <4>1 DEF TxTurn, Tx, Closed
    <3>6. QED
      BY <3>3, <3>4, <3>5
  <2>4. QED
    BY <1>0, <1>o, <2>2, <2>3, TurnUnwritten
<1>2. CASE RecordFailure
  <2>1. tx' = tx \/ tx' = [tx EXCEPT ![Worker] = Tx("fail", 1, 0)]
    BY <1>2 DEF RecordFailure, Opens
  <2>2. \A p \in Parties : tx'[p] = tx[p] \/ TxTurn(p)'
    BY <1>0, <2>1 DEF TxTurn, Tx
  <2>3. QED
    BY <1>0, <1>o, <2>2, TurnUnwritten
<1>3. QED
  BY <1>1, <1>2

(* What a confirmation or the record of the probe writes: the next step it *)
(* opens is the first one left open.                                       *)
LEMMA AdvanceKeepsTurn ==
  ASSUME DeploymentInv, TurnOK, NEW p \in Parties,
         tx[p].op \in {"complete", "succeed"}, ~Blocked(p),
         tx' = [tx EXCEPT ![p] = NoTx], outOfTurn' = outOfTurn, Advance(p)
  PROVE  TurnOK'
<1>0. /\ tx[p].at \in Steps /\ TxOK(p) /\ tx[p].next \in {0} \cup Manual
      /\ tx \in [Parties -> [op : Ops, at : {0} \cup Steps, next : {0} \cup Manual]]
  BY StepNumbers DEF DeploymentInv, TxOK, StateOK
<1>1. \A k \in Steps :
        /\ k = tx[p].at => step'[k] = "completed"
        /\ k # tx[p].at => \/ step'[k] = step[k]
                           \/ k = tx[p].next /\ step[k] = "pending" /\ step'[k] = "awaiting"
  BY DEF Advance
<1>2. \A k \in Manual : Closed(k) => Closed(k)'
  BY <1>1, StepNumbers DEF Closed
<1>3. \A q \in Parties \ {p} : tx[q].at # 0 =>
        tx[q].at \in Steps /\ step'[tx[q].at] = step[tx[q].at]
  BY <1>0, <1>1, StepNumbers DEF DeploymentInv, Blocked, WaitsFor, HoldsStep, RowsHeldOnce, StateOK
<1>4. ASSUME NEW k \in Manual, step'[k] = "cancelled", NEW j \in Manual PROVE Closed(j)'
  <2>1. step[k] = "cancelled"
    BY <1>1, <1>4, StepNumbers
  <2>2. QED
    BY <1>2, <2>1 DEF TurnOK
<1>5. ASSUME ~outOfTurn, NEW k \in Manual, step'[k] = "awaiting", NEW j \in Manual, j < k
      PROVE  Closed(j)'
  <2>1. CASE j = tx[p].at
    BY <1>1, <2>1, StepNumbers DEF Closed
  <2>2. CASE j # tx[p].at /\ step[k] = "awaiting"
    BY <1>2, <1>5, <2>2 DEF TurnOK
  <2>3. CASE j # tx[p].at /\ step[k] # "awaiting"
    <3>1. k = tx[p].next /\ k # 0
      BY <1>1, <1>5, <2>3, StepNumbers
    <3>2. Closed(j)
      BY <1>5, <2>3, <3>1 DEF TurnOK, TxTurn
    <3>3. QED
      BY <1>2, <3>2
  <2>4. QED
    BY <2>1, <2>2, <2>3
<1>6. ASSUME ~outOfTurn, NEW q \in Parties PROVE TxTurn(q)'
  <2>1. CASE q = p
    BY <1>0, <2>1 DEF TxTurn, NoTx
  <2>2. CASE q # p
    <3>1. tx'[q] = tx[q] /\ TxTurn(q) /\ TxOK(q)
      BY <1>0, <1>6, <2>2 DEF TurnOK, DeploymentInv
    <3>2. tx[q].op = "complete" => tx[q].at # 0
      BY <3>1, StepNumbers DEF TxOK
    <3>3. QED
      BY <1>2, <1>3, <2>2, <3>1, <3>2 DEF TxTurn
  <2>3. QED
    BY <2>1, <2>2
<1>7. ASSUME ~outOfTurn, run' = "completed", NEW k \in Manual PROVE step'[k] # "awaiting"
  <2>1. tx[p].next = 0
    BY <1>7 DEF Advance
  <2>2. k # tx[p].at => Closed(k)
    BY <1>7, <2>1 DEF TurnOK, TxTurn
  <2>3. QED
    BY <1>1, <2>1, <2>2, StepNumbers DEF Closed
<1>8. QED
  BY <1>4, <1>5, <1>6, <1>7 DEF TurnOK

(* A resume opens the first step that is open.                             *)
LEMMA ResumeKeepsTurn ==
  ASSUME DeploymentInv, TurnOK, NEW o \in Operators, Resume(o) PROVE TurnOK'
<1>0. /\ o \in Parties /\ tx' = [tx EXCEPT ![o] = NoTx] /\ outOfTurn' = outOfTurn
      /\ tx \in [Parties -> [op : Ops, at : {0} \cup Steps, next : {0} \cup Manual]]
  BY StepNumbers DEF Resume, Commits, DeploymentInv, StateOK
<1>1. PICK k \in First({"pending", "awaiting"}, 0) :
        IF k = 0 THEN UNCHANGED <<run, step>>
        ELSE run' = "awaiting_input" /\ step' = [step EXCEPT ![k] = "awaiting"]
  BY DEF Resume
<1>2. CASE k = 0
  BY <1>0, <1>1, <1>2, TurnUnwritten
<1>3. CASE k # 0
  <2>1. /\ k \in Manual /\ step[k] \in {"pending", "awaiting"}
        /\ run' = "awaiting_input" /\ step' = [step EXCEPT ![k] = "awaiting"]
    BY <1>1, <1>3, FirstFound DEF Steps, StepsOK, DeploymentInv
  <2>2. \A j \in Steps : step'[j] = IF j = k THEN "awaiting" ELSE step[j]
    BY <2>1, StepNumbers DEF StateOK, DeploymentInv
  <2>3. \A j \in Manual : /\ Closed(j) => Closed(j)'
                          /\ j < k => Closed(j)
    BY <1>3, <2>1, <2>2, FirstLeast, StepNumbers DEF Closed
  <2>4. ASSUME NEW i \in Manual, step'[i] = "cancelled", NEW j \in Manual PROVE Closed(j)'
    <3>1. step[i] = "cancelled"
      BY <2>2, <2>4, StepNumbers
    <3>2. QED
      BY <2>3, <3>1 DEF TurnOK
  <2>5. ASSUME ~outOfTurn, NEW i \in Manual, step'[i] = "awaiting", NEW j \in Manual, j < i
        PROVE  Closed(j)'
    <3>1. CASE i = k
      BY <2>3, <2>5, <3>1
    <3>2. CASE i # k
      <4>1. step[i] = "awaiting"
        BY <2>2, <2>5, <3>2, StepNumbers
      <4>2. QED
        BY <2>3, <2>5, <4>1 DEF TurnOK
    <3>3. QED
      BY <3>1, <3>2
  <2>6. ASSUME ~outOfTurn, NEW q \in Parties PROVE TxTurn(q)'
    <3>1. CASE q = o
      BY <1>0, <3>1 DEF TxTurn, NoTx
    <3>2. CASE q # o
      <4>1. tx'[q] = tx[q] /\ TxTurn(q) /\ TxOK(q)
        BY <1>0, <2>6, <3>2 DEF TurnOK, DeploymentInv
      <4>2. tx[q].op = "complete" => step'[tx[q].at] = "awaiting"
        BY <2>2, <4>1, StepNumbers DEF TxTurn, TxOK
      <4>3. QED
        BY <2>3, <4>1, <4>2 DEF TxTurn
    <3>3. QED
      BY <3>1, <3>2
  <2>7. QED
    BY <1>0, <2>1, <2>4, <2>5, <2>6 DEF TurnOK
<1>4. QED
  BY <1>2, <1>3

(* A cancellation closes all that is open, and nobody is in between.       *)
LEMMA CancelKeepsTurn ==
  ASSUME DeploymentInv, TurnOK, NEW o \in Operators, Cancel(o) PROVE TurnOK'
<1>0. /\ o \in Parties /\ tx' = [tx EXCEPT ![o] = NoTx] /\ run' = "cancelled"
      /\ tx \in [Parties -> [op : Ops, at : {0} \cup Steps, next : {0} \cup Manual]]
      /\ step' = [k \in Steps |-> IF step[k] \in {"pending", "awaiting"} THEN "cancelled" ELSE step[k]]
      /\ tx[o].op = "cancel" /\ ~Blocked(o)
  BY StepNumbers DEF Cancel, Commits, DeploymentInv, StateOK
<1>1. \A k \in Manual : Closed(k)' /\ step'[k] # "awaiting"
  BY <1>0, StepNumbers DEF Closed
<1>2. ASSUME NEW q \in Parties PROVE TxTurn(q)'
  <2>1. CASE q = o
    BY <1>0, <2>1 DEF TxTurn, NoTx
  <2>2. CASE q # o
    <3>1. tx'[q] = tx[q] /\ TxOK(q) /\ tx[q].at = 0
      BY <1>0, <2>2 DEF DeploymentInv, Blocked, WaitsFor
    <3>2. QED
      BY <1>1, <3>1, StepNumbers DEF TxTurn, TxOK
  <2>3. QED
    BY <2>1, <2>2
<1>3. QED
  BY <1>0, <1>1, <1>2 DEF TurnOK

(* The start, and the steps that write no manual step.                     *)
LEMMA OthersKeepTurn ==
  ASSUME DeploymentInv, TurnOK,
         \/ StartDeployment \/ ProbeFails \/ WorkerDies \/ Execute \/ RetryProbe
         \/ \E p \in Parties : DeadlockVictim(p)
         \/ UNCHANGED vars
  PROVE  TurnOK'
<1>0. /\ tx \in [Parties -> [op : Ops, at : {0} \cup Steps, next : {0} \cup Manual]]
      /\ step \in [Steps -> {"absent", "queued", "pending", "awaiting", "completed", "failed", "cancelled"}]
  BY DEF DeploymentInv, StateOK
<1>1. CASE StartDeployment
  <2>1. /\ run' = "running" /\ \A k \in Manual : step'[k] = "pending"
        /\ \A p \in Parties : tx'[p] = NoTx
    BY <1>1, StepNumbers DEF StartDeployment, DeploymentInv, AbsentOK
  <2>2. QED
    BY <2>1 DEF TurnOK, TxTurn, NoTx
<1>2. CASE ProbeFails
  <2>1. /\ run' = "failed" /\ outOfTurn' = outOfTurn
        /\ \A k \in Manual : step'[k] = step[k]
        /\ tx' = [tx EXCEPT ![Worker] = NoTx]
    BY <1>0, <1>2, StepNumbers DEF ProbeFails, Commits
  <2>2. ASSUME ~outOfTurn, NEW q \in Parties PROVE TxTurn(q)'
    <3>1. CASE q = Worker
      BY <1>0, <2>1, <3>1 DEF TxTurn, NoTx
    <3>2. CASE q # Worker
      <4>1. tx'[q] = tx[q] /\ TxTurn(q) /\ TxOK(q)
        BY <1>0, <2>1, <2>2, <3>2 DEF TurnOK, DeploymentInv
      <4>2. QED
        BY <2>1, <4>1 DEF TxTurn, TxOK, Closed
    <3>3. QED
      BY <3>1, <3>2
  <2>3. QED
    BY <2>1, <2>2 DEF TurnOK, Closed
<1>3. CASE WorkerDies \/ \E p \in Parties : DeadlockVictim(p)
  <2>1. /\ UNCHANGED <<run, step, outOfTurn>>
        /\ \A p \in Parties : tx'[p] = tx[p] \/ tx'[p] = NoTx
    BY <1>0, <1>3 DEF WorkerDies, DeadlockVictim
  <2>2. QED
    BY <2>1, TurnUnwritten
<1>4. CASE Execute \/ RetryProbe \/ UNCHANGED vars
  BY <1>4, TurnUnwritten DEF Execute, RetryProbe, vars, deploymentVars
<1>5. QED
  BY <1>1, <1>2, <1>3, <1>4

(* Every step of the specification.                                        *)
LEMMA NextKeepsTurn == DeploymentInv /\ TurnOK /\ [Next]_vars => TurnOK'
<1> SUFFICES ASSUME DeploymentInv, TurnOK, [Next]_vars PROVE TurnOK'
  OBVIOUS
<1>1. ASSUME ProbeSucceeds PROVE TurnOK'
  BY <1>1, AdvanceKeepsTurn, StepNumbers DEF ProbeSucceeds, Commits
<1>2. ASSUME NEW o \in Operators, Complete(o) PROVE TurnOK'
  BY <1>2, AdvanceKeepsTurn, StepNumbers DEF Complete, Commits
<1>3. CASE StartDeployment \/ WorkerDies \/ RetryProbe \/ UNCHANGED vars
  BY <1>3, OthersKeepTurn
<1>4. CASE WorkerStep
  BY <1>1, <1>4, RecordKeepsTurn, OthersKeepTurn, StepNumbers DEF WorkerStep
<1>5. ASSUME NEW o \in Operators, Begin(o) \/ Finish(o) PROVE TurnOK'
  BY <1>2, <1>5, BeginKeepsTurn, ResumeKeepsTurn, CancelKeepsTurn, OthersKeepTurn, StepNumbers
  DEF Finish
<1>6. QED
  BY <1>3, <1>4, <1>5 DEF Next

-----------------------------------------------------------------------------
(* In every reachable state each open transaction may still rely on what   *)
(* it read, and the run tells of its steps and its probe.                  *)
THEOREM InvHolds == Spec => []DeploymentInv
<1>1. DeploymentInv /\ [Next]_vars => DeploymentInv'
  BY NextKeepsInv
<1> QED BY InvInit, <1>1, PTL DEF Spec

(* The state has its type. *)
THEOREM TypesHold == Spec => []DeploymentTypeOK
<1>1. DeploymentInv => DeploymentTypeOK
  BY StepNumbers DEF DeploymentInv, StateOK, StepsOK, DeploymentTypeOK
<1> QED BY InvHolds, <1>1, PTL

(* A completed run has no step that was never opened, and none that still  *)
(* awaits its confirmation unless one was given out of its turn or the     *)
(* first was opened before the probe was recorded (_advance_hardware_      *)
(* deployment), for any number of operators and steps.                     *)
THEOREM CompletedRunsHold == Spec => []CompletedRunsConfirmed
<1>1. DeploymentInit => TurnOK
  BY StepNumbers DEF DeploymentInit, TurnOK, TxTurn, NoTx
<1>2. DeploymentInv /\ TurnOK => CompletedRunsConfirmed
  BY DEF DeploymentInv, NoPending, TurnOK, CompletedRunsConfirmed
<1>3. QED
  BY <1>1, <1>2, NextKeepsTurn, InvHolds, PTL DEF Spec

(* A running run has a probe still to be recorded, through every crash and *)
(* every recording that was rolled back.                                   *)
THEOREM RunningHolds == Spec => []RunningMeansProbing
<1>1. DeploymentInv => RunningMeansProbing
  BY DEF DeploymentInv
<1> QED BY InvHolds, <1>1, PTL

(* Confirmed and cancelled steps stay so. *)
THEOREM FinalStepsHold == Spec => ManualStepsFinal
<1>1. DeploymentInv /\ [Next]_vars
        => [\A k \in Manual : step[k] \in {"completed", "cancelled"} => step'[k] = step[k]]_vars
  BY NextKeepsInv DEF FinalKept
<1> QED BY InvHolds, <1>1, PTL DEF Spec, ManualStepsFinal

(* Each step of the lane takes the probe one step through its lifecycle or *)
(* leaves it alone: also a recording that the database aborts, a worker    *)
(* that dies with a transaction open and a failure that is the last one.   *)
LEMMA LifecycleStep == [Next]_vars => [LifecycleNext]_lifecycleVars
<1> SUFFICES ASSUME [Next]_vars PROVE [LifecycleNext]_lifecycleVars
  OBVIOUS
<1>1. Probe \in Tasks /\ {Probe} \in SUBSET Tasks
  BY DeploymentAssumption
<1>2. CASE StartDeployment
  BY <1>1, <1>2 DEF StartDeployment, LifecycleNext
<1>3. CASE Execute \/ RecordFailure \/ ProbeSucceeds \/ ProbeFails \/ RetryProbe
  BY <1>1, <1>3 DEF Execute, RecordFailure, ProbeSucceeds, ProbeFails, RetryProbe, LifecycleNext
<1>4. CASE RecordSuccess
  BY <1>4 DEF RecordSuccess
<1>5. CASE DeadlockVictim(Worker) \/ WorkerDies
  BY <1>1, <1>5 DEF DeadlockVictim, WorkerDies, LifecycleNext
<1>6. ASSUME NEW o \in Operators, Begin(o) PROVE UNCHANGED lifecycleVars
  BY <1>6 DEF Begin, BeginComplete, BeginResume, BeginCancel, Asks
<1>7. ASSUME NEW o \in Operators, Finish(o) PROVE UNCHANGED lifecycleVars
  <2>1. o # Worker
    BY DeploymentAssumption
  <2>2. QED
    BY <1>7, <2>1 DEF Finish, Complete, Resume, Cancel, DeadlockVictim
<1>8. CASE UNCHANGED vars
  BY <1>8 DEF vars
<1>9. QED
  BY <1>2, <1>3, <1>4, <1>5, <1>6, <1>7, <1>8 DEF Next, WorkerStep

(* The lane does with its task what the queue is proved to let it do, and  *)
(* nothing else.                                                           *)
THEOREM DeploymentsFollowLifecycle == Spec => LifecycleSpec
<1>1. DeploymentInit => LifecycleInit
  BY DEF DeploymentInit
<1>2. QED
  BY <1>1, LifecycleStep, PTL DEF Spec, LifecycleSpec
=============================================================================
