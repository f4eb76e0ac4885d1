----------------------------- MODULE ReviewRuns -----------------------------
(***************************************************************************)
(* The two review lanes of services/agent-memory: UI reviews (capture,     *)
(* analysis, fix drafts and, on request, the promotion of baselines) and   *)
(* presentation previews (render, analysis).  Each run is a chain of tasks *)
(* of the queue, taken as TaskLifecycle promises them, and a row whose     *)
(* status the executors write in transactions of their own, before and     *)
(* after their script; recording the task follows in a third one, and      *)
(* writes the row only when the task is given up.                          *)
(*                                                                         *)
(* A capture or render leaves its summary on disk, where the analysis      *)
(* reads it, and the executor copies it into the row.  The scripts end     *)
(* with the worker that runs them.                                         *)
(*                                                                         *)
(* One finding stands for those of a run: an analysis replaces them all.   *)
(* One baseline stands for those of the panels: the picture on disk, and   *)
(* the run that its active row names.  A unique index keeps one active; a  *)
(* promotion that loses that race is a failed attempt.  Other runs promote *)
(* theirs, once.  Left out: the feedback on previews, drafts, artifacts.   *)
(***************************************************************************)
EXTENDS TaskLifecycle, SequencesExt, ReviewScripts

\* No behaviour has both a lost worker and a manual retry.
CONSTANTS Runs,
          CrashLimit,  \* bound on attempts lost with their worker
          RetryLimit,  \* bound on the tasks retried by hand
          Retriable    \* bound on the stages retried by hand

VARIABLES lane,     \* the table the run is a row of
          run,      \* review.ui_run.status, review.preview_run.status
          at,       \* how far the executor of a task is
          summary,  \* of the capture or render: on disk, and in the row
          found,    \* the findings of the analysis on disk
          judged,   \* the outcome of the run in eval.evaluation_result
          verdict,  \* review.ui_finding.status; "reviewed": accepted or rejected
          baseline, \* whose picture is on disk, and whom the active row names
          others,   \* how far the promotion of another run is
          overlapped, \* two promotions had copied and not committed
          crashes, retried

runVars == <<lane, run, at, verdict>>
scriptVars == <<summary, found, judged>>
baselineVars == <<baseline, others, overlapped>>
boundVars == <<crashes, retried>>
reviewVars == <<runVars, scriptVars, baselineVars, boundVars>>
vars == <<lifecycleVars, reviewVars>>

\* The task kinds of a lane in their order; the promotion is requested later.
Chain == [ui |-> <<"capture", "analyze", "fix_draft", "promote">>,
          preview |-> <<"render", "preview_analyze">>]

ChainOf(r) == Chain[lane[r]]
TasksOf(r) == {<<r, k>> : k \in ToSet(ChainOf(r))}

\* Each task depends on the one before it.
ReviewTasks == Runs \X UNION {ToSet(Chain[l]) : l \in DOMAIN Chain}
Predecessors(t) ==
  {u \in ReviewTasks : u[1] = t[1] /\ \E l \in DOMAIN Chain : \E i \in 1..(Len(Chain[l]) - 1) :
                          Chain[l][i] = u[2] /\ Chain[l][i + 1] = t[2]}

ASSUME ReviewAssumption ==
  /\ Tasks = ReviewTasks
  /\ DependsOn = [t \in Tasks |-> Predecessors(t)]
  /\ CrashLimit \in Nat /\ RetryLimit \in Nat /\ MaxAttempts \in Nat \ {0}

\* What the executor writes before its script, if it has one, and after.
\* Drafts and promotions are one transaction: nobody sees that they run.
Running == [capture |-> "capture_running", analyze |-> "analysis_running",
            render |-> "render_running", preview_analyze |-> "analysis_running"]
Final == [capture |-> "captured", analyze |-> "analyzed", fix_draft |-> "ready_for_review",
          promote |-> "baseline_promoted",
          render |-> "rendered", preview_analyze |-> "ready_for_review"]

NoSummary == [steps |-> -1, error |-> FALSE, seen |-> {}]

ReviewInit ==
  /\ LifecycleInit
  /\ lane \in [Runs -> DOMAIN Chain]
  /\ run = [r \in Runs |-> "absent"]
  /\ at = [t \in Tasks |-> "start"]
  /\ verdict = [r \in Runs |-> "none"]
  /\ summary = [r \in Runs |-> [disk |-> NoSummary, row |-> NoSummary]]
  /\ found = [r \in Runs |-> {}]
  /\ judged = [r \in Runs |-> "none"]
  /\ \E b \in {"none", "other"} : baseline = [file |-> b, row |-> b]
  /\ others = "idle" /\ overlapped = FALSE
  /\ crashes = 0 /\ retried = {}

\* start_ui_review, start_preview_run
StartRun(r) ==
  /\ run[r] = "absent"
  /\ Submit(TasksOf(r) \ {<<r, "promote">>})
  /\ run' = [run EXCEPT ![r] = "planned"]
  /\ UNCHANGED <<lane, at, verdict, scriptVars, baselineVars, boundVars>>

(***************************************************************************)
(* The executor of task t of run r.                                        *)
(***************************************************************************)
Claim(t) == Start(t) /\ UNCHANGED reviewVars

Begin(r, k) ==
  /\ phase[<<r, k>>] = "active" /\ at[<<r, k>>] = "start"
  /\ k \in DOMAIN Running
  /\ run' = [run EXCEPT ![r] = Running[k]]
  /\ at' = [at EXCEPT ![<<r, k>>] = "begun"]
  /\ UNCHANGED <<lifecycleVars, lane, verdict, scriptVars, baselineVars, boundVars>>

\* The script of a stage has ended: what it leaves on disk.
EndScript(r, k) ==
  /\ phase[<<r, k>>] = "active" /\ at[<<r, k>>] = "begun"
  /\ CASE k = "capture" -> /\ \E c \in Captures : summary' = [summary EXCEPT ![r].disk = c]
                           /\ UNCHANGED found
       [] k = "render"  -> /\ \E m \in Renders : summary' = [summary EXCEPT ![r].disk = m]
                           /\ UNCHANGED found
       [] k = "analyze" -> /\ \E f \in Analyses(summary[r].disk, baseline.file # "none") :
                                found' = [found EXCEPT ![r] = f]
                           /\ UNCHANGED summary
       [] OTHER         -> /\ \E w \in PreviewWarnings : found' = [found EXCEPT ![r] = w]
                           /\ UNCHANGED summary
  /\ at' = [at EXCEPT ![<<r, k>>] = "scripted"]
  /\ UNCHANGED <<lifecycleVars, lane, run, verdict, judged, baselineVars, boundVars>>

\* A promotion needs a step in the summary of its run.  It copies the
\* picture before it closes the row of the baseline that was active.
CopyBaseline(r) ==
  /\ phase[<<r, "promote">>] = "active" /\ at[<<r, "promote">>] = "start"
  /\ summary[r].row.steps > 0
  /\ baseline' = [baseline EXCEPT !.file = "own"]
  /\ overlapped' = (overlapped \/ others = "copied")
  /\ at' = [at EXCEPT ![<<r, "promote">>] = "copied"]
  /\ UNCHANGED <<lifecycleVars, lane, run, verdict, scriptVars, others, boundVars>>

\* The next attempt makes an analysis of its own.
ForgetAnalysis(r, k) ==
  found' = IF k \in {"analyze", "preview_analyze"} THEN [found EXCEPT ![r] = {}] ELSE found

\* Where an executor is when it commits its stage.
Ready(k) == CASE k \in DOMAIN Running -> "scripted" [] k = "promote" -> "copied" [] OTHER -> "start"

\* What the transaction of a stage writes beside the status of its run.  The
\* analysis of a UI review deletes the findings and inserts new ones, with
\* the error of the capture that the row has on record.
SummaryAfter(r, k) ==
  IF k \in {"capture", "render"} THEN [summary EXCEPT ![r].row = summary[r].disk] ELSE summary

JudgedAfter(r, k) ==
  CASE k = "analyze" -> [judged EXCEPT ![r] = IF summary[r].row.error THEN "failed" ELSE Outcome(found[r])]
    [] k = "preview_analyze" -> [judged EXCEPT ![r] = IF found[r] # {} THEN "warning" ELSE "passed"]
    [] OTHER -> judged

FindingsOf(r) == IF found[r] = {} /\ ~summary[r].row.error THEN "none" ELSE "proposed"
\* As if the drafts came with findings of their own.
VerdictAnew(r, k) ==
  IF k \in {"analyze", "fix_draft"} THEN [verdict EXCEPT ![r] = FindingsOf(r)] ELSE verdict
VerdictAfter(r, k) == IF k = "analyze" THEN [verdict EXCEPT ![r] = FindingsOf(r)] ELSE verdict

\* As if a promotion that closes a row inserted none.
BaselineUnlisted(k) ==
  IF k = "promote" /\ baseline.row = "none" THEN [baseline EXCEPT !.row = "own"] ELSE baseline
BaselineAfter(k) == IF k = "promote" THEN [baseline EXCEPT !.row = "own"] ELSE baseline

Finish(r, k) ==
  /\ phase[<<r, k>>] = "active" /\ at[<<r, k>>] = Ready(k)
  /\ run' = [run EXCEPT ![r] = Final[k]]
  /\ at' = [at EXCEPT ![<<r, k>>] = "done"]
  /\ summary' = SummaryAfter(r, k) /\ judged' = JudgedAfter(r, k)
  /\ verdict' = VerdictAfter(r, k) /\ baseline' = BaselineAfter(k)
  /\ ForgetAnalysis(r, k)
  /\ UNCHANGED <<lifecycleVars, lane, others, overlapped, boundVars>>

Complete(t) ==
  /\ at[t] = "done"
  /\ Succeed(t)
  /\ at' = [at EXCEPT ![t] = "start"]
  /\ UNCHANGED <<lane, run, verdict, scriptVars, baselineVars, boundVars>>

\* As if every failed attempt were the last one; as if none were.
GivesUpAtOnce(t) == TRUE
GivesUpNever(t) == FALSE

\* The attempt that failed was the last one.
GivesUp(t) == tries[t] >= MaxAttempts

FailAttempt(t) ==
  /\ at[t] # "done"
  /\ Fail(t)
  /\ at' = [at EXCEPT ![t] = "start"]
  /\ run' = IF GivesUp(t) THEN [run EXCEPT ![t[1]] = "failed"] ELSE run
  /\ ForgetAnalysis(t[1], t[2])
  /\ UNCHANGED <<lane, verdict, summary, judged, baselineVars, boundVars>>

\* As if the next attempt went on where the lost one was.
WorkerDiesResumably(t) ==
  /\ crashes < CrashLimit /\ retried = {} /\ crashes' = crashes + 1
  /\ phase[t] = "active" /\ Recover({t})
  /\ UNCHANGED <<runVars, scriptVars, baselineVars, retried>>

\* The lease repair returns the task, whatever its executor has committed.
WorkerDies(t) ==
  /\ crashes < CrashLimit /\ retried = {} /\ crashes' = crashes + 1
  /\ phase[t] = "active" /\ Recover({t})
  /\ at' = [at EXCEPT ![t] = "start"]
  /\ ForgetAnalysis(t[1], t[2])
  /\ UNCHANGED <<lane, run, verdict, summary, judged, baselineVars, retried>>

(***************************************************************************)
(* Operators.                                                              *)
(***************************************************************************)
\* review_ui_finding asks neither for the status of the run nor whether the
\* finding has a verdict already.
ReviewFinding(r) ==
  /\ verdict[r] # "none"
  /\ verdict' = [verdict EXCEPT ![r] = "reviewed"]
  /\ UNCHANGED <<lifecycleVars, lane, run, at, scriptVars, baselineVars, boundVars>>

\* trigger_ui_review_baseline_promotion; one request for each run.
RequestPromotion(r) ==
  /\ lane[r] = "ui"
  /\ run[r] \in {"analyzed", "ready_for_review", "baseline_promoted"}
  /\ Submit({<<r, "promote">>})
  /\ UNCHANGED reviewVars

\* The row of the run is not told of a manual retry.
Retry(t) ==
  /\ t[2] \in Retriable /\ t \notin retried
  /\ crashes = 0 /\ Cardinality(retried) < RetryLimit
  /\ retried' = retried \cup {t}
  /\ Reopen(t)
  /\ UNCHANGED <<runVars, scriptVars, baselineVars, crashes>>

(***************************************************************************)
(* The promotion of another run: it copies, and commits or is given up.    *)
(* Earlier ones are in the initial states.                                 *)
(***************************************************************************)
OthersCopy ==
  /\ others = "idle" /\ \E r \in Runs : phase[<<r, "promote">>] # "absent"
  /\ others' = "copied"
  /\ baseline' = [baseline EXCEPT !.file = "other"]
  /\ overlapped' = (overlapped \/ \E r \in Runs : at[<<r, "promote">>] = "copied")
  /\ UNCHANGED <<lifecycleVars, runVars, scriptVars, boundVars>>

OthersEnd ==
  /\ others = "copied"
  /\ \/ others' = "committed" /\ baseline' = [baseline EXCEPT !.row = "other"]
     \/ others' = "given_up" /\ UNCHANGED baseline
  /\ UNCHANGED <<lifecycleVars, runVars, scriptVars, overlapped, boundVars>>

-----------------------------------------------------------------------------
TaskStep(t) == \/ Claim(t) \/ Begin(t[1], t[2]) \/ EndScript(t[1], t[2])
               \/ (t[2] = "promote" /\ CopyBaseline(t[1]))
               \/ Finish(t[1], t[2]) \/ Complete(t) \/ FailAttempt(t)

Next == \/ \E r \in Runs : StartRun(r) \/ ReviewFinding(r) \/ RequestPromotion(r)
        \/ \E t \in Tasks : TaskStep(t) \/ WorkerDies(t) \/ Retry(t)
        \/ OthersCopy \/ OthersEnd

\* Workers poll, scripts end or are given up, and every attempt is recorded.
Fairness == \A t \in Tasks : WF_vars(TaskStep(t))

Spec == ReviewInit /\ [][Next]_vars /\ Fairness

-----------------------------------------------------------------------------
(***************************************************************************)
(* Properties.                                                             *)
(***************************************************************************)

\* Progress belongs to the attempt that made it, and so does an analysis.
Shape ==
  /\ run \in [Runs -> {"absent", "planned", "failed"}
                        \cup {Running[k] : k \in DOMAIN Running} \cup {Final[k] : k \in DOMAIN Final}]
  /\ \A t \in Tasks : at[t] # "start" => phase[t] = "active"
  /\ \A r \in Runs : found[r] # {} => \E t \in TasksOf(r) : at[t] = "scripted"
  /\ verdict \in [Runs -> {"none", "proposed", "reviewed"}]

\* How many stages of its chain the status of a run claims to be over.
Claimed(r) ==
  LET over == {i \in 1..Len(ChainOf(r)) : Final[ChainOf(r)[i]] = run[r]}
      now  == {i \in 1..Len(ChainOf(r)) : ChainOf(r)[i] \in DOMAIN Running
                                            /\ Running[ChainOf(r)[i]] = run[r]}
  IN  CASE over # {} -> CHOOSE i \in over : TRUE
        [] now # {}  -> (CHOOSE i \in now : TRUE) - 1
        [] OTHER     -> 0

\* Until something is retried by hand, the status and the tasks of a run,
\* written in different transactions, tell one story: it claims a stage
\* ahead of the record at most, never one less, through deaths between the
\* two and stages executed again; it is failed exactly when a task is.
StatusTellsTasks ==
  /\ Shape
  /\ retried = {} =>
    \A r \in Runs :
      /\ run[r] = "failed" <=> \E t \in TasksOf(r) : phase[t] = "failed"
      /\ \A i \in 1..Len(ChainOf(r)) : LET t == <<r, ChainOf(r)[i]>> IN
           /\ i < Claimed(r) => phase[t] = "succeeded"
           /\ phase[t] = "succeeded" /\ run[r] # "failed" => i <= Claimed(r)

\* A run whose capture nobody retried by hand is judged by what it shows.  Its
\* row has the summary the analysis read from disk; no capture that stopped
\* early, or saw an error, passes, though its script and its task succeed; and
\* one that stopped early has a finding until someone reviews it.
JudgedAsCaptured ==
  \A r \in Runs : LET first == <<r, ChainOf(r)[1]>>  judge == <<r, ChainOf(r)[2]>> IN
    first \notin retried =>
      /\ phase[first] = "succeeded" => summary[r].row = summary[r].disk /\ summary[r].row # NoSummary
      /\ phase[judge] = "succeeded" =>
           /\ judged[r] # "none"
           /\ judged[r] = "passed" /\ lane[r] = "ui" =>
                /\ summary[r].row.steps = Panels
                /\ \A f \in summary[r].row.seen : Severity[f] = "warning"
           /\ lane[r] = "ui" /\ summary[r].row.steps < Panels => verdict[r] # "none"

\* The picture on disk is that of the run the active baseline names, or of a
\* run whose promotion is under way, was interrupted or has failed; a
\* promotion on record is whole.  Promotions that overlap are excepted: the
\* last to copy need not be the last to commit.
BaselineAsPromoted ==
  ~overlapped /\ baseline.file # baseline.row =>
    \/ baseline.file = "own" /\ \E r \in Runs : phase[<<r, "promote">>] \in {"ready", "active", "failed"}
    \/ baseline.file = "other" /\ others \in {"copied", "given_up"}

\* Once the analysis is on record, no stage after it and no death or
\* repetition takes a verdict back: only a manual retry of the analysis may.
VerdictsKept ==
  [][\A r \in Runs :
       lane[r] = "ui" /\ phase[<<r, "analyze">>] = "succeeded" /\ verdict[r] = "reviewed"
         => verdict'[r] = "reviewed"]_vars

\* Every run ends up ready for review or failed.  A promotion that was
\* accepted is carried out or fails with the run, unless a manual retry takes
\* one of its prerequisites back.
ReviewsConclude ==
  /\ \A r \in Runs :
       (run[r] = "planned") ~> (run[r] \in {"ready_for_review", "baseline_promoted", "failed"})
  /\ \A r \in Runs : lane[r] = "ui" =>
       ((phase[<<r, "promote">>] = "ready")
          ~> (phase[<<r, "promote">>] = "succeeded" \/ run[r] = "failed" \/ retried # {}))

=============================================================================
