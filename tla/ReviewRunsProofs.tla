-------------------------- MODULE ReviewRunsProofs --------------------------
(***************************************************************************)
(* Proofs about ReviewRuns for any number of runs, panels, attempts, lost  *)
(* workers and manual retries.                                             *)
(*                                                                         *)
(* Runs share nothing but the baselines.  What holds of one run is said of *)
(* its own state: the phases p of its tasks and where their executors are, *)
(* a, as functions of the kind of task.  As long as none of them is        *)
(* retried by hand the tasks of its chain succeed in their order, so that  *)
(* one of them at most is active, and the status of the run is that of the *)
(* stage it began or ended last (Story).  What a capture left on disk is   *)
(* in the row once the capture is on record, and the analysis that follows *)
(* judges just that (Judgement).                                           *)
(***************************************************************************)
EXTENDS ReviewRuns, TLAPS

Phases == {"absent", "ready", "active", "succeeded", "failed"}
Places == {"start", "begun", "scripted", "copied", "done"}
Lanes == {"ui", "preview"}
Kinds == {"capture", "analyze", "fix_draft", "promote", "render", "preview_analyze"}
KindsOf(l) == IF l = "ui" THEN {"capture", "analyze", "fix_draft", "promote"}
              ELSE {"render", "preview_analyze"}
No == [capture |-> 1, analyze |-> 2, fix_draft |-> 3, promote |-> 4, render |-> 1, preview_analyze |-> 2]
First(l) == IF l = "ui" THEN "capture" ELSE "render"
Judge(l) == IF l = "ui" THEN "analyze" ELSE "preview_analyze"
StatusesOf(l) == {"absent", "planned", "failed"} \cup {Final[k] : k \in KindsOf(l)}
                   \cup {Running[k] : k \in KindsOf(l) \cap DOMAIN Running}
Statuses == StatusesOf("ui") \cup StatusesOf("preview")
Findings == DOMAIN Severity \cup {"missing_libraries", "no_browser"}
Summaries == [steps : -1 .. Panels, error : BOOLEAN, seen : SUBSET DOMAIN Severity]
\* Beyond the first, stages have no script whose end is left on disk.
Scripted == {"capture", "analyze", "render", "preview_analyze"}

StateOK ==
  /\ lane \in [Runs -> Lanes]
  /\ phase \in [Tasks -> Phases] /\ tries \in [Tasks -> Nat]
  /\ at \in [Tasks -> Places]
  /\ run \in [Runs -> Statuses] /\ \A r \in Runs : run[r] \in StatusesOf(lane[r])
  /\ verdict \in [Runs -> {"none", "proposed", "reviewed"}]
  /\ judged \in [Runs -> {"none", "passed", "warning", "failed"}]
  /\ summary \in [Runs -> [disk : Summaries, row : Summaries]]
  /\ found \in [Runs -> SUBSET Findings]
  /\ baseline \in [file : {"none", "own", "other"}, row : {"none", "own", "other"}]
  /\ overlapped \in BOOLEAN
  /\ retried \subseteq Tasks

-----------------------------------------------------------------------------
(* What holds of a run, of its own state *)

TasksFine(l, p, a) ==
  \A k \in Kinds : /\ p[k] # "absent" => k \in KindsOf(l)
                   /\ a[k] # "start" => p[k] = "active"
                   /\ a[k] \in {"begun", "scripted"} => k \in Scripted

\* f with x for k.
Moved(f, g, k, x) == \A m \in Kinds : g[m] = IF m = k THEN x ELSE f[m]

\* A task is begun only when those before it have succeeded.
InOrder(l, p) ==
  \A k, m \in KindsOf(l) :
    No[k] < No[m] /\ p[m] \in {"active", "succeeded", "failed"} => p[k] = "succeeded"

\* The chain has come to task k.
Reached(l, p, k) ==
  \A m \in KindsOf(l) : /\ No[m] < No[k] => p[m] = "succeeded"
                        /\ No[m] > No[k] => p[m] # "succeeded"

Story(l, st, p, a) ==
  /\ InOrder(l, p)
  /\ st = "absent" => \A k \in KindsOf(l) : p[k] = "absent"
  /\ st = "planned" => \A k \in KindsOf(l) : p[k] # "succeeded"
  /\ st = "failed" <=> \E k \in KindsOf(l) : p[k] = "failed"
  /\ \A k \in KindsOf(l) :
       /\ a[k] = "done" => st = Final[k]
       /\ k \in Scripted /\ st = Running[k] => p[k] # "succeeded" /\ Reached(l, p, k)
       /\ st = Final[k] => Reached(l, p, k)

\* The summary of a script that has ended.
Whole(l, s) == s # NoSummary /\ (l = "ui" => s.error = (s.steps < Panels))
OnRecord(l, s) == s.row = s.disk /\ Whole(l, s.row)

\* What is said of a run fits what its row has on record.
Judged(l, s, j, v) ==
  /\ j # "none"
  /\ j = "passed" /\ l = "ui" =>
       /\ s.row.steps = Panels
       /\ \A f \in s.row.seen : Severity[f] = "warning"
  /\ l = "ui" /\ s.row.steps < Panels => v # "none"

Judgement(l, p, a, s, f, j, v, again) ==
  /\ a[First(l)] = "scripted" => Whole(l, s.disk)
  /\ a[First(l)] = "done" => OnRecord(l, s)
  /\ First(l) \notin again =>
       /\ p[First(l)] = "succeeded" => OnRecord(l, s)
       /\ p[Judge(l)] \in {"active", "succeeded", "failed"} => p[First(l)] = "succeeded"
       /\ a[Judge(l)] = "scripted" /\ l = "ui" => s.disk.seen \subseteq f
       /\ a[Judge(l)] = "done" \/ p[Judge(l)] = "succeeded" => Judged(l, s, j, v)

PhaseOf(r) == [k \in Kinds |-> phase[<<r, k>>]]
AtOf(r) == [k \in Kinds |-> at[<<r, k>>]]
AgainOf(r) == {k \in Kinds : <<r, k>> \in retried}

RunOK(r) ==
  /\ TasksFine(lane[r], PhaseOf(r), AtOf(r))
  /\ found[r] # {} => AtOf(r)[Judge(lane[r])] = "scripted"
  /\ AgainOf(r) = {} => Story(lane[r], run[r], PhaseOf(r), AtOf(r))
  /\ Judgement(lane[r], PhaseOf(r), AtOf(r), summary[r], found[r], judged[r], verdict[r], AgainOf(r))

\* A promotion of run r that may have left its picture is not on record yet.
Promoting(r) ==
  \/ PhaseOf(r)["promote"] \in {"ready", "failed"}
  \/ PhaseOf(r)["promote"] = "active" /\ AtOf(r)["promote"] # "done"

BaselineOK ==
  ~overlapped =>
    /\ baseline.file = "none" => baseline.row = "none"
    /\ others = "copied" => baseline.file = "other"
    /\ \A r \in Runs : AtOf(r)["promote"] = "copied" => baseline.file = "own"
    /\ baseline.file = "own" /\ baseline.row # "own" => \E r \in Runs : Promoting(r)
    /\ baseline.file = "other" /\ baseline.row # "other" => others \in {"copied", "given_up"}

ReviewInv == StateOK /\ BaselineOK /\ \A r \in Runs : RunOK(r)

-----------------------------------------------------------------------------
(* The kinds of tasks and their chains *)

(* The kinds of a lane are numbered along its chain, and each has statuses *)
(* of its own.                                                             *)
LEMMA KindsOK ==
  ASSUME NEW l \in Lanes
  PROVE  /\ KindsOf(l) \subseteq Kinds /\ \A k \in KindsOf(l) : No[k] \in Nat
         /\ \A k, m \in KindsOf(l) : /\ No[k] = No[m] => k = m
                                     /\ Final[k] = Final[m] => k = m
                                     /\ k \in Scripted /\ m \in Scripted /\ Running[k] = Running[m] => k = m
                                     /\ m \in Scripted => Final[k] # Running[m]
         /\ \A k \in KindsOf(l) : /\ Final[k] \notin {"absent", "planned", "failed"}
                                  /\ k \in Scripted => Running[k] \notin {"absent", "planned", "failed"}
  BY DEF Lanes, KindsOf, Kinds, No, Final, Running, Scripted

(* A lane begins with a capture or a render, and an analysis of it.        *)
LEMMA EndsOK ==
  ASSUME NEW l \in Lanes
  PROVE  /\ First(l) \in KindsOf(l) /\ Judge(l) \in KindsOf(l) /\ First(l) # Judge(l)
         /\ No[First(l)] = 1 /\ No[Judge(l)] = 2 /\ First(l) \in Scripted /\ Judge(l) \in Scripted
  BY DEF Lanes, KindsOf, First, Judge, No, Scripted

(* The kinds that write a status before their script.                      *)
LEMMA ScriptedOK == DOMAIN Running = Scripted /\ Scripted \subseteq Kinds /\ DOMAIN Final = Kinds
  BY DEF Running, Scripted, Final, Kinds

(* The chain of a lane holds its kinds in their order.                     *)
LEMMA ChainOK ==
  /\ DOMAIN Chain = Lanes
  /\ \A l \in Lanes : /\ ToSet(Chain[l]) = KindsOf(l)
                      /\ Len(Chain[l]) = (IF l = "ui" THEN 4 ELSE 2)
                      /\ \A i \in 1 .. Len(Chain[l]) : Chain[l][i] \in KindsOf(l) /\ No[Chain[l][i]] = i
                      /\ \A k \in KindsOf(l) : No[k] \in 1 .. Len(Chain[l]) /\ Chain[l][No[k]] = k
<1>1. DOMAIN Chain = Lanes
  BY DEF Chain, Lanes
<1>2. /\ Chain["ui"] = <<"capture", "analyze", "fix_draft", "promote">>
      /\ Chain["preview"] = <<"render", "preview_analyze">>
  BY DEF Chain
<1>3. ToSet(Chain["ui"]) = KindsOf("ui") /\ ToSet(Chain["preview"]) = KindsOf("preview")
  BY <1>2 DEF ToSet, KindsOf
<1>4. Len(Chain["ui"]) = 4 /\ Len(Chain["preview"]) = 2
  BY <1>2
<1>5. /\ \A i \in 1 .. 4 : Chain["ui"][i] \in KindsOf("ui") /\ No[Chain["ui"][i]] = i
      /\ \A i \in 1 .. 2 : Chain["preview"][i] \in KindsOf("preview") /\ No[Chain["preview"][i]] = i
  BY <1>2 DEF KindsOf, No
<1>6. /\ \A k \in KindsOf("ui") : No[k] \in 1 .. 4 /\ Chain["ui"][No[k]] = k
      /\ \A k \in KindsOf("preview") : No[k] \in 1 .. 2 /\ Chain["preview"][No[k]] = k
  BY <1>2 DEF KindsOf, No
<1> QED BY <1>1, <1>3, <1>4, <1>5, <1>6 DEF Lanes

(* A task has a run and a kind.                                            *)
LEMMA TasksAre == Tasks = Runs \X Kinds
<1>1. UNION {ToSet(Chain[l]) : l \in DOMAIN Chain} = Kinds
  <2>1. KindsOf("ui") \cup KindsOf("preview") = Kinds
    BY DEF KindsOf, Kinds
  <2> QED BY <2>1, ChainOK DEF Lanes
<1> QED BY <1>1, ReviewAssumption DEF ReviewTasks

(* Each task but the first depends on the one before it.                   *)
LEMMA Prerequisite ==
  ASSUME NEW r \in Runs, NEW l \in Lanes, NEW k \in KindsOf(l), No[k] # 1
  PROVE  \E m \in KindsOf(l) : No[m] = No[k] - 1 /\ <<r, m>> \in DependsOn[<<r, k>>]
<1>1. /\ No[k] \in 2 .. Len(Chain[l]) /\ Chain[l][No[k]] = k /\ l \in DOMAIN Chain
      /\ Len(Chain[l]) \in Nat
  BY ChainOK DEF Lanes
<1> DEFINE i == No[k] - 1  m == Chain[l][i]
<1>2. i \in 1 .. (Len(Chain[l]) - 1) /\ i + 1 = No[k] /\ i \in 1 .. Len(Chain[l])
  BY <1>1
<1>3. m \in KindsOf(l) /\ No[m] = i
  BY <1>2, ChainOK
<1>4. m \in Kinds /\ k \in Kinds
  BY <1>3, KindsOK
<1>5. <<r, m>> \in Tasks /\ <<r, k>> \in Tasks
  BY <1>4, TasksAre
<1>6. <<r, m>> \in Predecessors(<<r, k>>)
  <2>1. Chain[l][i] = m /\ Chain[l][i + 1] = k
    BY <1>1, <1>2
  <2> QED BY <1>1, <1>2, <1>5, <2>1, ReviewAssumption DEF Predecessors
<1>7. <<r, m>> \in DependsOn[<<r, k>>]
  BY <1>5, <1>6, ReviewAssumption
<1> QED BY <1>3, <1>7

-----------------------------------------------------------------------------
(* The story of a run, step by step *)

(* Of the tasks of a run, those before an active one have succeeded, and   *)
(* those behind it wait.                                                   *)
LEMMA ActiveAlone ==
  ASSUME NEW l \in Lanes, NEW p \in [Kinds -> Phases], InOrder(l, p),
         NEW k \in KindsOf(l), p[k] = "active"
  PROVE  \A m \in KindsOf(l) : /\ No[m] < No[k] => p[m] = "succeeded"
                               /\ No[m] > No[k] => p[m] \in {"absent", "ready"}
                               /\ m # k => p[m] \notin {"active", "failed"}
<1>1. \A m \in KindsOf(l) : /\ No[m] \in Nat /\ p[m] \in Phases
                            /\ No[m] < No[k] \/ No[m] > No[k] \/ m = k
  BY KindsOK
<1>2. \A m \in KindsOf(l) : No[m] < No[k] => p[m] = "succeeded"
  BY DEF InOrder
<1>3. \A m \in KindsOf(l) : No[k] < No[m] => p[m] \notin {"active", "succeeded", "failed"}
  BY DEF InOrder
<1> QED BY <1>1, <1>2, <1>3 DEF Phases

(* The attempt that is started.                                            *)
LEMMA StoryStarts ==
  ASSUME NEW l \in Lanes, NEW st, NEW p \in [Kinds -> Phases], NEW a \in [Kinds -> Places],
         Story(l, st, p, a), NEW k \in KindsOf(l), p[k] = "ready",
         No[k] # 1 => \E m \in KindsOf(l) : No[m] = No[k] - 1 /\ p[m] = "succeeded",
         NEW q \in [Kinds -> Phases], Moved(p, q, k, "active")
  PROVE  /\ Story(l, st, q, a)
         /\ \A m \in KindsOf(l) : No[m] < No[k] => p[m] = "succeeded"
<1>0. k \in Kinds /\ KindsOf(l) \subseteq Kinds /\ \A m \in KindsOf(l) : No[m] \in Nat
  BY KindsOK
<1>1. \A m \in KindsOf(l) : q[m] = IF m = k THEN "active" ELSE p[m]
  BY <1>0 DEF Moved
<1>2. \A m \in KindsOf(l) : No[m] < No[k] => p[m] = "succeeded"
  <2> SUFFICES ASSUME NEW m \in KindsOf(l), No[m] < No[k] PROVE p[m] = "succeeded"
    OBVIOUS
  <2>1. No[m] # 0
    BY DEF KindsOf, No
  <2>2. PICK n \in KindsOf(l) : No[n] = No[k] - 1 /\ p[n] = "succeeded"
    BY <1>0, <2>1
  <2>3. No[m] < No[n] \/ No[m] = No[n]
    BY <1>0, <2>2
  <2> QED BY <2>2, <2>3, KindsOK DEF Story, InOrder
<1>3. InOrder(l, q)
  <2> SUFFICES ASSUME NEW m \in KindsOf(l), NEW n \in KindsOf(l), No[m] < No[n],
                      q[n] \in {"active", "succeeded", "failed"}
               PROVE  q[m] = "succeeded"
    BY DEF InOrder
  <2>1. p[m] = "succeeded"
    BY <1>1, <1>2 DEF Story, InOrder
  <2> QED BY <1>1, <2>1
<1>4. \A x \in KindsOf(l) : Reached(l, p, x) => Reached(l, q, x)
  BY <1>1 DEF Reached
<1>5. \A m \in KindsOf(l) : /\ q[m] = "succeeded" <=> p[m] = "succeeded"
                            /\ q[m] = "failed" <=> p[m] = "failed"
  BY <1>1
<1>6. st # "absent"
  BY DEF Story
<1> QED BY <1>2, <1>3, <1>4, <1>5, <1>6 DEF Story

(* The executor writes the status of its stage, before its script or when  *)
(* it commits.                                                             *)
LEMMA StoryWrites ==
  ASSUME NEW l \in Lanes, NEW st, NEW new, NEW p \in [Kinds -> Phases], NEW a \in [Kinds -> Places],
         Story(l, st, p, a), TasksFine(l, p, a), NEW k \in KindsOf(l), p[k] = "active",
         NEW place \in Places,
         \/ place = "done" /\ new = Final[k]
         \/ place = "begun" /\ k \in Scripted /\ new = Running[k],
         NEW b \in [Kinds -> Places], Moved(a, b, k, place)
  PROVE  Story(l, new, p, b)
<1>0. k \in Kinds /\ KindsOf(l) \subseteq Kinds
  BY KindsOK
<1>1. \A m \in KindsOf(l) : b[m] = IF m = k THEN place ELSE a[m]
  BY <1>0 DEF Moved
<1>2. InOrder(l, p)
  BY DEF Story
<1>3. \A m \in KindsOf(l) : /\ No[m] < No[k] => p[m] = "succeeded"
                            /\ No[m] > No[k] => p[m] \in {"absent", "ready"}
                            /\ m # k => p[m] \notin {"active", "failed"}
  BY <1>2, ActiveAlone
<1>4. \A m \in KindsOf(l) : m # k => a[m] # "done"
  BY <1>0, <1>3 DEF TasksFine
<1>5. Reached(l, p, k)
  BY <1>3 DEF Reached
<1>6. /\ new \notin {"absent", "planned", "failed"} /\ (place = "done" => new = Final[k])
      /\ \A m \in KindsOf(l) : m \in Scripted /\ new = Running[m] => m = k
      /\ \A m \in KindsOf(l) : new = Final[m] => m = k
  BY KindsOK
<1>7. \A m \in KindsOf(l) : p[m] # "failed"
  BY <1>3
<1> QED BY <1>1, <1>2, <1>4, <1>5, <1>6, <1>7 DEF Story

(* The executor goes on.                                                   *)
LEMMA StoryGoesOn ==
  ASSUME NEW l \in Lanes, NEW st, NEW p \in [Kinds -> Phases], NEW a \in [Kinds -> Places],
         Story(l, st, p, a), NEW k \in KindsOf(l), NEW place \in Places \ {"done"},
         NEW b \in [Kinds -> Places], Moved(a, b, k, place)
  PROVE  Story(l, st, p, b)
<1>0. k \in Kinds /\ KindsOf(l) \subseteq Kinds
  BY KindsOK
<1>1. \A m \in KindsOf(l) : b[m] = IF m = k THEN place ELSE a[m]
  BY <1>0 DEF Moved
<1> QED BY <1>1 DEF Story

(* The attempt is recorded: as a success of the stage that was committed,  *)
(* as one to be repeated, or as the last one, which fails the run.         *)
LEMMA StoryRecords ==
  ASSUME NEW l \in Lanes, NEW st, NEW new, NEW p \in [Kinds -> Phases], NEW a \in [Kinds -> Places],
         Story(l, st, p, a), TasksFine(l, p, a), NEW k \in KindsOf(l), p[k] = "active",
         NEW x \in Phases,
         \/ x = "succeeded" /\ a[k] = "done" /\ new = st
         \/ x = "ready" /\ new = st
         \/ x = "failed" /\ new = "failed",
         NEW q \in [Kinds -> Phases], Moved(p, q, k, x),
         NEW b \in [Kinds -> Places], Moved(a, b, k, "start")
  PROVE  Story(l, new, q, b)
<1>0. k \in Kinds /\ KindsOf(l) \subseteq Kinds /\ \A m \in KindsOf(l) : No[m] \in Nat
  BY KindsOK
<1>1. \A m \in KindsOf(l) : /\ q[m] = IF m = k THEN x ELSE p[m]
                            /\ b[m] = IF m = k THEN "start" ELSE a[m]
  BY <1>0 DEF Moved
<1>2. InOrder(l, p)
  BY DEF Story
<1>3. \A m \in KindsOf(l) : /\ No[m] < No[k] => p[m] = "succeeded"
                            /\ No[m] > No[k] => p[m] \in {"absent", "ready"}
                            /\ m # k => p[m] \notin {"active", "failed"}
  BY <1>2, ActiveAlone
<1>4. \A m \in KindsOf(l) : b[m] # "done"
  BY <1>0, <1>1, <1>3 DEF TasksFine
<1>5. InOrder(l, q)
  <2> SUFFICES ASSUME NEW m \in KindsOf(l), NEW n \in KindsOf(l), No[m] < No[n],
                      q[n] \in {"active", "succeeded", "failed"}
               PROVE  q[m] = "succeeded"
    BY DEF InOrder
  <2>1. n = k \/ (No[n] < No[k] /\ p[n] = "succeeded")
    BY <1>0, <1>1, <1>3, KindsOK
  <2>2. No[m] < No[k] /\ m # k
    BY <1>0, <2>1
  <2> QED BY <1>1, <1>3, <2>2
<1>6. st \notin {"absent", "failed"}
  BY <1>3 DEF Story
<1>7. \A m \in KindsOf(l) : q[m] = "failed" <=> m = k /\ x = "failed"
  BY <1>1, <1>3
<1>8. ASSUME NEW m \in KindsOf(l), Reached(l, p, m), x \in {"ready", "failed"} \/ m = k
      PROVE  Reached(l, q, m)
  <2> SUFFICES ASSUME NEW n \in KindsOf(l)
               PROVE  /\ No[n] < No[m] => q[n] = "succeeded"
                      /\ No[n] > No[m] => q[n] # "succeeded"
    BY DEF Reached
  <2>1. /\ No[n] < No[m] => p[n] = "succeeded"
        /\ No[n] > No[m] => p[n] # "succeeded"
    BY <1>8 DEF Reached
  <2> QED BY <1>0, <1>1, <1>8, <2>1
<1>9. CASE x = "succeeded"
  <2>1. st = Final[k] /\ new = st
    BY <1>9 DEF Story
  <2>2. Reached(l, q, k)
    BY <1>8, <2>1 DEF Story
  <2>3. /\ new \notin {"absent", "planned", "failed"}
        /\ \A m \in KindsOf(l) : /\ m \in Scripted => new # Running[m]
                                 /\ new = Final[m] => m = k
    BY <2>1, KindsOK
  <2> QED BY <1>4, <1>5, <1>7, <1>9, <2>2, <2>3 DEF Story
<1>10. CASE x = "ready"
  <2>1. \A m \in KindsOf(l) : q[m] = "succeeded" => p[m] = "succeeded"
    BY <1>1, <1>10
  <2>2. \A m \in KindsOf(l) : Reached(l, p, m) => Reached(l, q, m)
    BY <1>8, <1>10
  <2>3. new = st /\ \A m \in KindsOf(l) : q[m] # "failed"
    BY <1>7, <1>10
  <2> QED BY <1>4, <1>5, <1>6, <2>1, <2>2, <2>3 DEF Story
<1>11. CASE x = "failed"
  <2>1. new = "failed" /\ \A m \in KindsOf(l) : new # Final[m] /\ (m \in Scripted => new # Running[m])
    BY <1>11, KindsOK
  <2> QED BY <1>4, <1>5, <1>7, <1>11, <2>1 DEF Story
<1> QED BY <1>9, <1>10, <1>11

(* A request adds tasks that wait.                                         *)
LEMMA StoryAdds ==
  ASSUME NEW l \in Lanes, NEW st, NEW new, NEW p \in [Kinds -> Phases], NEW q \in [Kinds -> Phases],
         NEW a \in [Kinds -> Places], Story(l, st, p, a), TasksFine(l, p, a),
         \A m \in Kinds : q[m] = p[m] \/ (p[m] = "absent" /\ q[m] = "ready"),
         \/ new = st /\ st # "absent"
         \/ new = "planned" /\ st = "absent"
  PROVE  Story(l, new, q, a)
<1>0. KindsOf(l) \subseteq Kinds
  BY KindsOK
<1>1. \A m \in KindsOf(l) : /\ q[m] = "succeeded" <=> p[m] = "succeeded"
                            /\ q[m] = "failed" <=> p[m] = "failed"
                            /\ q[m] = "active" <=> p[m] = "active"
  BY <1>0
<1>2. InOrder(l, q)
  BY <1>1 DEF Story, InOrder
<1>3. \A m \in KindsOf(l) : Reached(l, p, m) => Reached(l, q, m)
  BY <1>1 DEF Reached
<1>4. CASE new = st /\ st # "absent"
  BY <1>1, <1>2, <1>3, <1>4 DEF Story
<1>5. CASE new = "planned" /\ st = "absent"
  <2>1. \A m \in KindsOf(l) : p[m] = "absent"
    BY <1>5 DEF Story
  <2>2. \A m \in KindsOf(l) : a[m] # "done"
    BY <1>0, <2>1 DEF TasksFine
  <2>3. \A m \in KindsOf(l) : new # Final[m] /\ (m \in Scripted => new # Running[m])
    BY <1>5, KindsOK
  <2> QED BY <1>1, <1>2, <1>5, <2>1, <2>2, <2>3 DEF Story
<1> QED BY <1>4, <1>5

-----------------------------------------------------------------------------
(* What a run is judged by, step by step *)

(* The attempt that is started, on the tasks it depends on.                *)
LEMMA JudgementStarts ==
  ASSUME NEW l \in Lanes, NEW p \in [Kinds -> Phases], NEW a \in [Kinds -> Places],
         NEW s, NEW f, NEW j, NEW v, NEW again, Judgement(l, p, a, s, f, j, v, again),
         TasksFine(l, p, a), NEW k \in KindsOf(l), p[k] = "ready",
         No[k] # 1 => \E m \in KindsOf(l) : No[m] = No[k] - 1 /\ p[m] = "succeeded",
         NEW q \in [Kinds -> Phases], Moved(p, q, k, "active")
  PROVE  Judgement(l, q, a, s, f, j, v, again)
<1>1. First(l) \in Kinds /\ Judge(l) \in Kinds /\ First(l) # Judge(l) /\ k \in Kinds
  BY EndsOK, KindsOK
<1>2. \A m \in Kinds : q[m] = IF m = k THEN "active" ELSE p[m]
  BY DEF Moved
<1>3. k = Judge(l) => p[First(l)] = "succeeded"
  BY EndsOK, KindsOK
<1>4. a[k] = "start"
  BY <1>1 DEF TasksFine
<1> QED BY <1>1, <1>2, <1>3, <1>4 DEF Judgement

(* The executor goes on, but neither ends a script nor commits.            *)
LEMMA JudgementGoesOn ==
  ASSUME NEW l \in Lanes, NEW p \in [Kinds -> Phases], NEW a \in [Kinds -> Places],
         NEW s, NEW f, NEW j, NEW v, NEW again, Judgement(l, p, a, s, f, j, v, again),
         NEW k \in KindsOf(l), p[k] = "active", NEW place \in {"begun", "copied"},
         NEW b \in [Kinds -> Places], Moved(a, b, k, place)
  PROVE  Judgement(l, p, b, s, f, j, v, again)
<1>1. First(l) \in Kinds /\ Judge(l) \in Kinds /\ k \in Kinds
  BY EndsOK, KindsOK
<1>2. \A m \in Kinds : b[m] = IF m = k THEN place ELSE a[m]
  BY DEF Moved
<1> QED BY <1>1, <1>2 DEF Judgement

(* The attempt is recorded: as a success once it has committed, as one to  *)
(* be repeated or as the last one.  An analysis that ends is forgotten.    *)
LEMMA JudgementRecords ==
  ASSUME NEW l \in Lanes, NEW p \in [Kinds -> Phases], NEW a \in [Kinds -> Places],
         NEW s, NEW f, NEW g, NEW j, NEW v, NEW again, Judgement(l, p, a, s, f, j, v, again),
         TasksFine(l, p, a), NEW k \in KindsOf(l), p[k] = "active", NEW x \in Phases,
         (x = "succeeded" /\ a[k] = "done") \/ x \in {"ready", "failed"},
         g = f \/ k = Judge(l),
         NEW q \in [Kinds -> Phases], Moved(p, q, k, x),
         NEW b \in [Kinds -> Places], Moved(a, b, k, "start")
  PROVE  Judgement(l, q, b, s, g, j, v, again)
<1>1. First(l) \in Kinds /\ Judge(l) \in Kinds /\ First(l) # Judge(l) /\ k \in Kinds
  BY EndsOK, KindsOK
<1>2. \A m \in Kinds : /\ q[m] = IF m = k THEN x ELSE p[m]
                       /\ b[m] = IF m = k THEN "start" ELSE a[m]
  BY DEF Moved
<1>3. CASE k = First(l)
  <2>1. First(l) \notin again => p[Judge(l)] \notin {"active", "succeeded", "failed"} /\ a[Judge(l)] = "start"
    BY <1>1, <1>3 DEF Judgement, TasksFine
  <2> QED BY <1>1, <1>2, <1>3, <2>1 DEF Judgement
<1>4. CASE k = Judge(l)
  BY <1>1, <1>2, <1>4 DEF Judgement
<1>5. CASE k # First(l) /\ k # Judge(l)
  BY <1>1, <1>2, <1>5 DEF Judgement
<1> QED BY <1>3, <1>4, <1>5

(* A script ends: a capture or render leaves its summary, an analysis what *)
(* it found in it.                                                         *)
LEMMA JudgementScripted ==
  ASSUME NEW l \in Lanes, NEW p \in [Kinds -> Phases], NEW a \in [Kinds -> Places],
         NEW s \in [disk : Summaries, row : Summaries], NEW c \in Summaries,
         NEW t, NEW f, NEW g, NEW j, NEW v, NEW again,
         Judgement(l, p, a, s, f, j, v, again),
         TasksFine(l, p, a), NEW k \in KindsOf(l), p[k] = "active",
         \/ k = First(l) /\ t.disk = c /\ Whole(l, c) /\ g = f
         \/ k = Judge(l) /\ t = s /\ (l = "ui" => s.disk.seen \subseteq g),
         NEW b \in [Kinds -> Places], Moved(a, b, k, "scripted")
  PROVE  Judgement(l, p, b, t, g, j, v, again)
<1>1. First(l) \in Kinds /\ Judge(l) \in Kinds /\ First(l) # Judge(l) /\ k \in Kinds
  BY EndsOK, KindsOK
<1>2. \A m \in Kinds : b[m] = IF m = k THEN "scripted" ELSE a[m]
  BY DEF Moved
<1>3. CASE k = First(l) /\ t.disk = c /\ Whole(l, c) /\ g = f
  <2>1. First(l) \notin again => p[Judge(l)] \notin {"active", "succeeded", "failed"} /\ a[Judge(l)] = "start"
    BY <1>1, <1>3 DEF Judgement, TasksFine
  <2>2. t.disk = c
    BY <1>3
  <2> QED BY <1>1, <1>2, <1>3, <2>1, <2>2 DEF Judgement
<1>4. CASE k = Judge(l) /\ t = s /\ (l = "ui" => s.disk.seen \subseteq g)
  BY <1>1, <1>2, <1>4 DEF Judgement
<1> QED BY <1>3, <1>4

(* A stage commits: the row has what the script left, the run is judged,   *)
(* or neither.                                                             *)
LEMMA JudgementCommits ==
  ASSUME NEW l \in Lanes, NEW p \in [Kinds -> Phases], NEW a \in [Kinds -> Places],
         NEW s \in [disk : Summaries, row : Summaries], NEW t, NEW f, NEW g, NEW j, NEW w, NEW v, NEW u,
         NEW again, Judgement(l, p, a, s, f, j, v, again),
         TasksFine(l, p, a), NEW k \in KindsOf(l), p[k] = "active",
         \/ /\ k = First(l) /\ a[k] = "scripted"
            /\ t.disk = s.disk /\ t.row = s.disk /\ g = f /\ w = j /\ u = v
         \/ /\ k = Judge(l) /\ a[k] = "scripted" /\ t = s
            /\ OnRecord(l, s) /\ (l = "ui" => s.disk.seen \subseteq f) => Judged(l, s, w, u)
         \/ k # First(l) /\ k # Judge(l) /\ t = s /\ g = f /\ w = j /\ u = v,
         NEW b \in [Kinds -> Places], Moved(a, b, k, "done")
  PROVE  Judgement(l, p, b, t, g, w, u, again)
<1>1. First(l) \in Kinds /\ Judge(l) \in Kinds /\ First(l) # Judge(l) /\ k \in Kinds
  BY EndsOK, KindsOK
<1>2. \A m \in Kinds : b[m] = IF m = k THEN "done" ELSE a[m]
  BY DEF Moved
<1>3. CASE k = First(l) /\ a[k] = "scripted" /\ t.disk = s.disk /\ t.row = s.disk /\ g = f /\ w = j /\ u = v
  <2>1. First(l) \notin again => p[Judge(l)] \notin {"active", "succeeded", "failed"} /\ a[Judge(l)] = "start"
    BY <1>1, <1>3 DEF Judgement, TasksFine
  <2>2. t.disk = s.disk /\ t.row = s.disk
    BY <1>3
  <2>3. OnRecord(l, t)
    BY <1>3, <2>2 DEF Judgement, OnRecord
  <2> QED BY <1>1, <1>2, <1>3, <2>1, <2>3 DEF Judgement
<1>4. CASE /\ k = Judge(l) /\ a[k] = "scripted" /\ t = s
           /\ OnRecord(l, s) /\ (l = "ui" => s.disk.seen \subseteq f) => Judged(l, s, w, u)
  BY <1>1, <1>2, <1>4 DEF Judgement
<1>5. CASE k # First(l) /\ k # Judge(l) /\ t = s /\ g = f /\ w = j /\ u = v
  BY <1>1, <1>2, <1>5 DEF Judgement
<1> QED BY <1>3, <1>4, <1>5

(* A request adds tasks that wait.                                         *)
LEMMA JudgementAdds ==
  ASSUME NEW l \in Lanes, NEW p \in [Kinds -> Phases], NEW q \in [Kinds -> Phases],
         NEW a \in [Kinds -> Places], NEW s, NEW f, NEW j, NEW v, NEW again,
         Judgement(l, p, a, s, f, j, v, again),
         \A m \in Kinds : q[m] = p[m] \/ (p[m] = "absent" /\ q[m] = "ready")
  PROVE  Judgement(l, q, a, s, f, j, v, again)
<1>1. First(l) \in Kinds /\ Judge(l) \in Kinds
  BY EndsOK, KindsOK
<1> QED BY <1>1 DEF Judgement

(* A task retried by hand waits again; nothing is said of a run whose      *)
(* capture or render is.                                                   *)
LEMMA JudgementReopens ==
  ASSUME NEW l \in Lanes, NEW p \in [Kinds -> Phases], NEW a \in [Kinds -> Places],
         NEW s, NEW f, NEW j, NEW v, NEW again, Judgement(l, p, a, s, f, j, v, again),
         TasksFine(l, p, a), NEW k \in KindsOf(l), p[k] \in {"succeeded", "failed"},
         NEW q \in [Kinds -> Phases], Moved(p, q, k, "ready")
  PROVE  Judgement(l, q, a, s, f, j, v, again \cup {k})
<1>1. First(l) \in Kinds /\ Judge(l) \in Kinds /\ First(l) # Judge(l) /\ k \in Kinds
  BY EndsOK, KindsOK
<1>2. \A m \in Kinds : q[m] = IF m = k THEN "ready" ELSE p[m]
  BY DEF Moved
<1>3. a[k] = "start"
  BY <1>1 DEF TasksFine
<1> QED BY <1>1, <1>2, <1>3 DEF Judgement

(* A finding that is reviewed has a verdict.                               *)
LEMMA JudgementReviewed ==
  ASSUME NEW l \in Lanes, NEW p, NEW a, NEW s, NEW f, NEW j, NEW v, NEW again,
         Judgement(l, p, a, s, f, j, v, again)
  PROVE  Judgement(l, p, a, s, f, j, "reviewed", again)
  BY DEF Judgement, Judged

-----------------------------------------------------------------------------
(* The scripts *)

(* A capture says of itself whether it stopped early.                      *)
LEMMA CapturesWhole == \A c \in Captures : c \in Summaries /\ Whole("ui", c)
<1>1. ASSUME NEW n \in 0 .. Panels, NEW z \in SUBSET DOMAIN Severity
      PROVE  Captured(n, z) \in Summaries /\ Whole("ui", Captured(n, z))
  <2>1. Captured(n, z) = [steps |-> n, error |-> n < Panels, seen |-> z]
    BY DEF Captured
  <2>2. n \in -1 .. Panels /\ n # -1
    BY ScriptsAssumption
  <2>3. (n < Panels) \in BOOLEAN
    OBVIOUS
  <2>4. [steps |-> n, error |-> n < Panels, seen |-> z] \in Summaries
    BY <2>2, <2>3 DEF Summaries
  <2>5. [steps |-> n, error |-> n < Panels, seen |-> z] # NoSummary
    BY <2>2 DEF NoSummary
  <2> QED BY <2>1, <2>4, <2>5 DEF Whole
<1>2. 0 \in 0 .. Panels /\ {} \in SUBSET DOMAIN Severity /\ Noises \subseteq SUBSET DOMAIN Severity
  BY ScriptsAssumption
<1>3. \A c \in Captures : \E n \in 0 .. Panels : \E z \in SUBSET DOMAIN Severity : c = Captured(n, z)
  BY <1>2 DEF Captures
<1> QED BY <1>1, <1>3

(* A render has a step for each slide, and no error.                       *)
LEMMA RendersWhole == \A c \in Renders : c \in Summaries /\ Whole("preview", c)
<1>1. \A c \in Renders : \E n \in 0 .. Panels : c = [steps |-> n, error |-> FALSE, seen |-> {}]
  BY ScriptsAssumption DEF Renders, Decks
<1>2. ASSUME NEW n \in 0 .. Panels
      PROVE  /\ [steps |-> n, error |-> FALSE, seen |-> {}] \in Summaries
             /\ [steps |-> n, error |-> FALSE, seen |-> {}] # NoSummary
  <2>1. n \in -1 .. Panels /\ n # -1
    BY ScriptsAssumption
  <2> QED BY <2>1 DEF Summaries, NoSummary
<1> QED BY <1>1, <1>2 DEF Whole

(* An analysis finds what the capture has seen.                            *)
LEMMA AnalysesFind ==
  ASSUME NEW c \in Summaries, NEW b, NEW f \in Analyses(c, b)
  PROVE  c.seen \subseteq f /\ f \subseteq Findings
<1>1. PICK drift \in (IF b /\ c.steps > 0 THEN Drifts ELSE {{}}) :
        f = (IF c.error THEN {"capture_error"} ELSE {}) \cup c.seen \cup drift
  BY DEF Analyses
<1>2. drift \subseteq {"visual_drift", "visual_diff"}
  BY <1>1 DEF Drifts
<1>3. {"visual_drift", "visual_diff", "capture_error"} \subseteq DOMAIN Severity
  BY DEF Severity
<1>4. c.seen \subseteq DOMAIN Severity
  BY DEF Summaries
<1> QED BY <1>1, <1>2, <1>3, <1>4 DEF Findings

(* A run passes only if all its capture has seen are warnings.             *)
LEMMA JudgedWell ==
  ASSUME NEW s \in [disk : Summaries, row : Summaries], NEW f, OnRecord("ui", s), s.disk.seen \subseteq f
  PROVE  Judged("ui", s, IF s.row.error THEN "failed" ELSE Outcome(f),
                IF f = {} /\ ~s.row.error THEN "none" ELSE "proposed")
<1>1. /\ s.row \in Summaries /\ s.row.error = (s.row.steps < Panels) /\ s.row.seen \subseteq f
      /\ s.row.steps \in -1 .. Panels /\ s.row.seen \subseteq DOMAIN Severity
  BY DEF OnRecord, Whole, Summaries
<1>2. \A x \in DOMAIN Severity : Severity[x] \in {"critical", "error", "warning"}
  BY DEF Severity
<1>3. Outcome(f) \in {"failed", "passed"}
  BY DEF Outcome
<1>4. Outcome(f) = "passed" => \A x \in s.row.seen : Severity[x] = "warning"
  BY <1>1, <1>2 DEF Outcome
<1>5. ~s.row.error => s.row.steps = Panels
  <2>1. ~s.row.error => ~(s.row.steps < Panels)
    BY <1>1, Zenon
  <2>2. ~(s.row.steps < Panels) => s.row.steps = Panels
    BY <1>1, ScriptsAssumption
  <2> QED BY <2>1, <2>2
<1>6. s.row.steps < Panels => s.row.error
  BY <1>1
<1> QED BY <1>3, <1>4, <1>5, <1>6 DEF Judged

-----------------------------------------------------------------------------
(* Steps of one run *)

\* A step that run s has no part in.
Untouched(s) ==
  /\ lane'[s] = lane[s] /\ run'[s] = run[s] /\ PhaseOf(s)' = PhaseOf(s) /\ AtOf(s)' = AtOf(s)
  /\ summary'[s] = summary[s] /\ found'[s] = found[s] /\ judged'[s] = judged[s]
  /\ verdict'[s] = verdict[s] /\ AgainOf(s)' = AgainOf(s)

(* A step of one run is none of the others.                                *)
LEMMA Elsewhere ==
  ASSUME NEW r \in Runs, \A s \in Runs : RunOK(s), \A s \in Runs : s # r => Untouched(s), RunOK(r)'
  PROVE  \A s \in Runs : RunOK(s)'
<1> SUFFICES ASSUME NEW s \in Runs, s # r PROVE RunOK(s)'
  OBVIOUS
<1>1. Untouched(s) /\ RunOK(s)
  OBVIOUS
<1> QED BY <1>1 DEF Untouched, RunOK

(* The baselines stay in order while none is copied or committed, and no   *)
(* promotion that has copied is forgotten.                                 *)
LEMMA BaselineKept ==
  ASSUME BaselineOK, NEW r \in Runs, \A s \in Runs : s # r => Untouched(s), UNCHANGED baselineVars,
         Promoting(r) => Promoting(r)', AtOf(r)'["promote"] = "copied" => AtOf(r)["promote"] = "copied"
  PROVE  BaselineOK'
<1>1. \A s \in Runs : Promoting(s) => Promoting(s)'
  BY DEF Untouched, Promoting
<1>2. \A s \in Runs : AtOf(s)'["promote"] = "copied" => AtOf(s)["promote"] = "copied"
  BY DEF Untouched
<1>3. baseline' = baseline /\ others' = others /\ overlapped' = overlapped
  BY DEF baselineVars
<1> QED BY <1>1, <1>2, <1>3 DEF BaselineOK

(* A step of one task changes its phase and its place.                     *)
LEMMA TaskMoves ==
  ASSUME StateOK, NEW r \in Runs, NEW k \in Kinds, NEW x \in Phases, NEW y \in Places,
         phase' = [phase EXCEPT ![<<r, k>>] = x], at' = [at EXCEPT ![<<r, k>>] = y]
  PROVE  /\ PhaseOf(r)' \in [Kinds -> Phases] /\ Moved(PhaseOf(r), PhaseOf(r)', k, x)
         /\ AtOf(r)' \in [Kinds -> Places] /\ Moved(AtOf(r), AtOf(r)', k, y)
         /\ \A s \in Runs : s # r => PhaseOf(s)' = PhaseOf(s) /\ AtOf(s)' = AtOf(s)
         /\ phase' \in [Tasks -> Phases] /\ at' \in [Tasks -> Places]
<1>1. phase \in [Tasks -> Phases] /\ at \in [Tasks -> Places]
  BY DEF StateOK
<1>2. \A s \in Runs, m \in Kinds : <<s, m>> \in Tasks
  BY TasksAre
<1>3. \A s \in Runs, m \in Kinds : /\ phase'[<<s, m>>] = IF s = r /\ m = k THEN x ELSE phase[<<s, m>>]
                                   /\ at'[<<s, m>>] = IF s = r /\ m = k THEN y ELSE at[<<s, m>>]
  BY <1>1, <1>2
<1>4. phase' \in [Tasks -> Phases] /\ at' \in [Tasks -> Places]
  BY <1>1
<1>5. PhaseOf(r)' \in [Kinds -> Phases] /\ Moved(PhaseOf(r), PhaseOf(r)', k, x)
  BY <1>2, <1>3, <1>4 DEF PhaseOf, Moved
<1>6. AtOf(r)' \in [Kinds -> Places] /\ Moved(AtOf(r), AtOf(r)', k, y)
  BY <1>2, <1>3, <1>4 DEF AtOf, Moved
<1>7. \A s \in Runs : s # r => PhaseOf(s)' = PhaseOf(s)
  BY <1>3 DEF PhaseOf
<1>8. \A s \in Runs : s # r => AtOf(s)' = AtOf(s)
  BY <1>3 DEF AtOf
<1> QED BY <1>4, <1>5, <1>6, <1>7, <1>8

(* What is known of run r and of its tasks.                                *)
LEMMA RunFacts ==
  ASSUME StateOK, NEW r \in Runs, RunOK(r)
  PROVE  /\ lane[r] \in Lanes /\ PhaseOf(r) \in [Kinds -> Phases] /\ AtOf(r) \in [Kinds -> Places]
         /\ \A k \in Kinds : /\ PhaseOf(r)[k] = phase[<<r, k>>] /\ AtOf(r)[k] = at[<<r, k>>]
                             /\ <<r, k>> \in Tasks
                             /\ phase[<<r, k>>] # "absent" => k \in KindsOf(lane[r])
                             /\ at[<<r, k>>] # "start" => phase[<<r, k>>] = "active"
                             /\ at[<<r, k>>] \in {"begun", "scripted"} => k \in Scripted
         /\ summary[r] \in [disk : Summaries, row : Summaries] /\ found[r] \subseteq Findings
         /\ run[r] \in StatusesOf(lane[r]) /\ KindsOf(lane[r]) \subseteq Kinds
<1>1. /\ lane[r] \in Lanes /\ summary[r] \in [disk : Summaries, row : Summaries]
      /\ found[r] \subseteq Findings /\ run[r] \in StatusesOf(lane[r])
  BY DEF StateOK
<1>2. phase \in [Tasks -> Phases] /\ at \in [Tasks -> Places]
  BY DEF StateOK
<1>3. \A k \in Kinds : <<r, k>> \in Tasks
  BY TasksAre
<1>4. PhaseOf(r) \in [Kinds -> Phases] /\ \A k \in Kinds : PhaseOf(r)[k] = phase[<<r, k>>]
  BY <1>2, <1>3 DEF PhaseOf
<1>5. AtOf(r) \in [Kinds -> Places] /\ \A k \in Kinds : AtOf(r)[k] = at[<<r, k>>]
  BY <1>2, <1>3 DEF AtOf
<1>6. TasksFine(lane[r], PhaseOf(r), AtOf(r))
  BY DEF RunOK
<1> QED BY <1>1, <1>3, <1>4, <1>5, <1>6, KindsOK DEF TasksFine

(* The task of a run that is tried, if it has prerequisites, has one just  *)
(* before it.                                                              *)
LEMMA StartsOnSuccess ==
  ASSUME StateOK, NEW r \in Runs, RunOK(r), NEW k \in KindsOf(lane[r]), Start(<<r, k>>)
  PROVE  No[k] # 1 => \E m \in KindsOf(lane[r]) : No[m] = No[k] - 1 /\ PhaseOf(r)[m] = "succeeded"
<1> SUFFICES ASSUME No[k] # 1
             PROVE  \E m \in KindsOf(lane[r]) : No[m] = No[k] - 1 /\ PhaseOf(r)[m] = "succeeded"
  OBVIOUS
<1>0. lane[r] \in Lanes
  BY RunFacts
<1>1. PICK m \in KindsOf(lane[r]) : No[m] = No[k] - 1 /\ <<r, m>> \in DependsOn[<<r, k>>]
  BY <1>0, Prerequisite
<1>2. phase[<<r, m>>] = "succeeded"
  BY <1>1 DEF Start
<1>3. PhaseOf(r)[m] = phase[<<r, m>>]
  BY <1>1, RunFacts
<1> QED BY <1>1, <1>2, <1>3

-----------------------------------------------------------------------------
(* Each action keeps the invariant *)

\* A step of run r alone keeps what is known of the state and of the run.
StepOK(r) == StateOK' /\ RunOK(r)' /\ \A s \in Runs : s # r => Untouched(s)

(* The phase and the place of a task fit each other.                       *)
LEMMA FineMoves ==
  ASSUME NEW l \in Lanes, NEW p \in [Kinds -> Phases], NEW a \in [Kinds -> Places],
         TasksFine(l, p, a), NEW k \in KindsOf(l), NEW x \in Phases, NEW y \in Places,
         y # "start" => x = "active", y \in {"begun", "scripted"} => k \in Scripted,
         NEW q, Moved(p, q, k, x), NEW b, Moved(a, b, k, y)
  PROVE  TasksFine(l, q, b)
  BY DEF TasksFine, Moved

(* A request adds tasks of one run that wait.                              *)
LEMMA Submitted ==
  ASSUME StateOK, NEW r \in Runs, RunOK(r), NEW S, Submit(S), UNCHANGED at,
         \A t \in S : \E k \in KindsOf(lane[r]) : t = <<r, k>>
  PROVE  /\ phase' \in [Tasks -> Phases] /\ tries' = tries
         /\ PhaseOf(r)' \in [Kinds -> Phases] /\ AtOf(r)' = AtOf(r)
         /\ \A m \in Kinds : PhaseOf(r)'[m] = PhaseOf(r)[m] \/ (PhaseOf(r)[m] = "absent" /\ PhaseOf(r)'[m] = "ready")
         /\ TasksFine(lane[r], PhaseOf(r)', AtOf(r)')
         /\ \A s \in Runs : s # r => PhaseOf(s)' = PhaseOf(s) /\ AtOf(s)' = AtOf(s)
         /\ Promoting(r) => Promoting(r)'
<1>1. /\ phase' = [t \in Tasks |-> IF t \in S THEN "ready" ELSE phase[t]]
      /\ \A t \in S : phase[t] = "absent"
      /\ tries' = tries
  BY DEF Submit
<1>2. phase \in [Tasks -> Phases] /\ \A s \in Runs, m \in Kinds : <<s, m>> \in Tasks
  BY TasksAre DEF StateOK
<1>3. phase' \in [Tasks -> Phases]
  BY <1>1, <1>2 DEF Phases
<1>4. \A s \in Runs, m \in Kinds : phase'[<<s, m>>] = IF <<s, m>> \in S THEN "ready" ELSE phase[<<s, m>>]
  BY <1>1, <1>2
<1>5. \A s \in Runs, m \in Kinds : <<s, m>> \in S => s = r /\ m \in KindsOf(lane[r])
  OBVIOUS
<1>6. \A s \in Runs : s # r => PhaseOf(s)' = PhaseOf(s) /\ AtOf(s)' = AtOf(s)
  BY <1>4, <1>5 DEF PhaseOf, AtOf
<1>7. PhaseOf(r)' \in [Kinds -> Phases] /\ AtOf(r)' = AtOf(r)
  BY <1>2, <1>3 DEF PhaseOf, AtOf
<1>8. \A m \in Kinds : PhaseOf(r)'[m] = IF <<r, m>> \in S THEN "ready" ELSE PhaseOf(r)[m]
  BY <1>4 DEF PhaseOf
<1>9. \A m \in Kinds : <<r, m>> \in S => PhaseOf(r)[m] = "absent"
  BY <1>1 DEF PhaseOf
<1>10. TasksFine(lane[r], PhaseOf(r)', AtOf(r)')
  BY <1>5, <1>7, <1>8, <1>9 DEF TasksFine, RunOK
<1>11. Promoting(r) => Promoting(r)'
  <2>1. "promote" \in Kinds
    BY DEF Kinds
  <2>2. PhaseOf(r)'["promote"] = PhaseOf(r)["promote"] \/ PhaseOf(r)'["promote"] = "ready"
    BY <1>8, <2>1
  <2> QED BY <1>7, <2>2 DEF Promoting
<1> QED BY <1>1, <1>3, <1>6, <1>7, <1>8, <1>9, <1>10, <1>11

(* A status is written into the row of one run.                            *)
LEMMA StatusWritten ==
  ASSUME StateOK, NEW r \in Runs, NEW x \in StatusesOf(lane[r]), run' = [run EXCEPT ![r] = x], lane' = lane
  PROVE  /\ run' \in [Runs -> Statuses] /\ \A s \in Runs : run'[s] \in StatusesOf(lane'[s])
         /\ run'[r] = x /\ \A s \in Runs : s # r => run'[s] = run[s]
<1>1. run \in [Runs -> Statuses] /\ \A s \in Runs : run[s] \in StatusesOf(lane[s])
  BY DEF StateOK
<1>2. x \in Statuses
  BY DEF Statuses, StateOK, Lanes
<1>3. run' \in [Runs -> Statuses] /\ \A s \in Runs : run'[s] = IF s = r THEN x ELSE run[s]
  BY <1>1, <1>2
<1> QED BY <1>1, <1>3

(* A run is started.                                                       *)
LEMMA StartRunKeeps ==
  ASSUME StateOK, NEW r \in Runs, RunOK(r), StartRun(r)
  PROVE  /\ StepOK(r) /\ UNCHANGED baselineVars
         /\ Promoting(r) => Promoting(r)'
         /\ AtOf(r)' = AtOf(r)
<1> DEFINE l == lane[r]  p == PhaseOf(r)  q == PhaseOf(r)'  a == AtOf(r)
           S == TasksOf(r) \ {<<r, "promote">>}
<1>0. /\ run[r] = "absent" /\ Submit(S) /\ run' = [run EXCEPT ![r] = "planned"]
      /\ lane' = lane /\ at' = at /\ verdict' = verdict /\ summary' = summary /\ found' = found
      /\ judged' = judged /\ UNCHANGED baselineVars /\ retried' = retried
  BY DEF StartRun, scriptVars, boundVars
<1>1. l \in Lanes /\ p \in [Kinds -> Phases] /\ a \in [Kinds -> Places]
  BY RunFacts
<1>2. \A t \in S : \E k \in KindsOf(l) : t = <<r, k>>
  BY <1>1, ChainOK DEF TasksOf, ChainOf
<1>3. /\ phase' \in [Tasks -> Phases] /\ tries' = tries /\ q \in [Kinds -> Phases] /\ AtOf(r)' = a
      /\ \A m \in Kinds : q[m] = p[m] \/ (p[m] = "absent" /\ q[m] = "ready")
      /\ TasksFine(l, q, a)
      /\ \A s \in Runs : s # r => PhaseOf(s)' = PhaseOf(s) /\ AtOf(s)' = AtOf(s)
      /\ Promoting(r) => Promoting(r)'
  BY <1>0, <1>2, Submitted
<1>4. "planned" \in StatusesOf(l)
  BY DEF StatusesOf
<1>5. /\ run' \in [Runs -> Statuses] /\ \A s \in Runs : run'[s] \in StatusesOf(lane'[s])
      /\ run'[r] = "planned" /\ \A s \in Runs : s # r => run'[s] = run[s]
  BY <1>0, <1>4, StatusWritten
<1>6. AgainOf(r)' = AgainOf(r) /\ \A s \in Runs : AgainOf(s)' = AgainOf(s)
  BY <1>0 DEF AgainOf
<1>7. StateOK'
  BY <1>0, <1>3, <1>5 DEF StateOK, baselineVars
<1>8. \A s \in Runs : s # r => Untouched(s)
  BY <1>0, <1>3, <1>5, <1>6 DEF Untouched
<1>9. AgainOf(r) = {} => Story(l, "planned", q, a)
  <2> SUFFICES ASSUME AgainOf(r) = {} PROVE Story(l, "planned", q, a)
    OBVIOUS
  <2>1. Story(l, run[r], p, a) /\ TasksFine(l, p, a)
    BY DEF RunOK
  <2> QED BY <1>0, <1>1, <1>3, <2>1, StoryAdds
<1>10. Judgement(l, q, a, summary[r], found[r], judged[r], verdict[r], AgainOf(r))
  <2>1. Judgement(l, p, a, summary[r], found[r], judged[r], verdict[r], AgainOf(r))
    BY DEF RunOK
  <2> QED BY <1>1, <1>3, <2>1, JudgementAdds
<1>11. RunOK(r)'
  BY <1>0, <1>3, <1>5, <1>6, <1>9, <1>10 DEF RunOK
<1> QED BY <1>0, <1>3, <1>7, <1>8, <1>11 DEF StepOK

(* The promotion of the baselines is requested.                            *)
LEMMA RequestKeeps ==
  ASSUME StateOK, NEW r \in Runs, RunOK(r), RequestPromotion(r)
  PROVE  /\ StepOK(r) /\ UNCHANGED baselineVars
         /\ Promoting(r) => Promoting(r)'
         /\ AtOf(r)' = AtOf(r)
<1> DEFINE l == lane[r]  p == PhaseOf(r)  q == PhaseOf(r)'  a == AtOf(r)
<1>0. /\ lane[r] = "ui" /\ run[r] \in {"analyzed", "ready_for_review", "baseline_promoted"}
      /\ Submit({<<r, "promote">>}) /\ run' = run
      /\ lane' = lane /\ at' = at /\ verdict' = verdict /\ summary' = summary /\ found' = found
      /\ judged' = judged /\ UNCHANGED baselineVars /\ retried' = retried
  BY DEF RequestPromotion, reviewVars, runVars, scriptVars, boundVars
<1>1. l \in Lanes /\ p \in [Kinds -> Phases] /\ a \in [Kinds -> Places]
  BY RunFacts
<1>2. \A t \in {<<r, "promote">>} : \E k \in KindsOf(l) : t = <<r, k>>
  BY <1>0 DEF KindsOf
<1>3. /\ phase' \in [Tasks -> Phases] /\ tries' = tries /\ q \in [Kinds -> Phases] /\ AtOf(r)' = a
      /\ \A m \in Kinds : q[m] = p[m] \/ (p[m] = "absent" /\ q[m] = "ready")
      /\ TasksFine(l, q, a)
      /\ \A s \in Runs : s # r => PhaseOf(s)' = PhaseOf(s) /\ AtOf(s)' = AtOf(s)
      /\ Promoting(r) => Promoting(r)'
  BY <1>0, <1>2, Submitted
<1>6. AgainOf(r)' = AgainOf(r) /\ \A s \in Runs : AgainOf(s)' = AgainOf(s)
  BY <1>0 DEF AgainOf
<1>7. StateOK'
  BY <1>0, <1>3 DEF StateOK, baselineVars
<1>8. \A s \in Runs : s # r => Untouched(s)
  BY <1>0, <1>3, <1>6 DEF Untouched
<1>9. AgainOf(r) = {} => Story(l, run[r], q, a)
  <2> SUFFICES ASSUME AgainOf(r) = {} PROVE Story(l, run[r], q, a)
    OBVIOUS
  <2>1. Story(l, run[r], p, a) /\ TasksFine(l, p, a)
    BY DEF RunOK
  <2>2. run[r] # "absent"
    BY <1>0
  <2> QED BY <1>1, <1>3, <2>1, <2>2, StoryAdds
<1>10. Judgement(l, q, a, summary[r], found[r], judged[r], verdict[r], AgainOf(r))
  <2>1. Judgement(l, p, a, summary[r], found[r], judged[r], verdict[r], AgainOf(r))
    BY DEF RunOK
  <2> QED BY <1>1, <1>3, <2>1, JudgementAdds
<1>11. RunOK(r)'
  BY <1>0, <1>3, <1>6, <1>9, <1>10 DEF RunOK
<1> QED BY <1>0, <1>3, <1>7, <1>8, <1>11 DEF StepOK

(* A finding is reviewed.                                                  *)
LEMMA ReviewFindingKeeps ==
  ASSUME StateOK, NEW r \in Runs, RunOK(r), ReviewFinding(r)
  PROVE  /\ StepOK(r) /\ UNCHANGED baselineVars
         /\ PhaseOf(r)' = PhaseOf(r) /\ AtOf(r)' = AtOf(r)
<1>0. /\ verdict' = [verdict EXCEPT ![r] = "reviewed"]
      /\ phase' = phase /\ tries' = tries /\ run' = run
      /\ lane' = lane /\ at' = at /\ summary' = summary /\ found' = found
      /\ judged' = judged /\ UNCHANGED baselineVars /\ retried' = retried
  BY DEF ReviewFinding, lifecycleVars, scriptVars, boundVars
<1>1. /\ verdict' \in [Runs -> {"none", "proposed", "reviewed"}] /\ verdict'[r] = "reviewed"
      /\ \A s \in Runs : s # r => verdict'[s] = verdict[s]
  BY <1>0 DEF StateOK
<1>2. \A s \in Runs : AgainOf(s)' = AgainOf(s) /\ PhaseOf(s)' = PhaseOf(s) /\ AtOf(s)' = AtOf(s)
  BY <1>0 DEF AgainOf, PhaseOf, AtOf
<1>3. StateOK'
  BY <1>0, <1>1 DEF StateOK, baselineVars
<1>4. \A s \in Runs : s # r => Untouched(s)
  BY <1>0, <1>1, <1>2 DEF Untouched
<1>5. Judgement(lane[r], PhaseOf(r), AtOf(r), summary[r], found[r], judged[r], "reviewed", AgainOf(r))
  <2>1. Judgement(lane[r], PhaseOf(r), AtOf(r), summary[r], found[r], judged[r], verdict[r], AgainOf(r))
    BY DEF RunOK
  <2>2. lane[r] \in Lanes
    BY RunFacts
  <2> QED BY <2>1, <2>2, JudgementReviewed
<1>6. RunOK(r)'
  BY <1>0, <1>1, <1>2, <1>5 DEF RunOK
<1> QED BY <1>0, <1>2, <1>3, <1>4, <1>6 DEF StepOK

(* A task is retried by hand.                                              *)
LEMMA RetryKeeps ==
  ASSUME StateOK, NEW r \in Runs, RunOK(r), NEW k \in Kinds, Retry(<<r, k>>)
  PROVE  /\ StepOK(r) /\ UNCHANGED baselineVars
         /\ Promoting(r) => Promoting(r)'
         /\ AtOf(r)' = AtOf(r)
<1> DEFINE l == lane[r]  p == PhaseOf(r)  a == AtOf(r)
<1>0. /\ phase[<<r, k>>] \in {"succeeded", "failed"}
      /\ phase' = [phase EXCEPT ![<<r, k>>] = "ready"] /\ tries' = [tries EXCEPT ![<<r, k>>] = 0]
      /\ retried' = retried \cup {<<r, k>>}
      /\ run' = run /\ lane' = lane /\ at' = at /\ verdict' = verdict /\ summary' = summary
      /\ found' = found /\ judged' = judged /\ UNCHANGED baselineVars
  BY DEF Retry, Reopen, runVars, scriptVars
<1>1. /\ l \in Lanes /\ p \in [Kinds -> Phases] /\ a \in [Kinds -> Places] /\ k \in KindsOf(l)
      /\ p[k] = phase[<<r, k>>] /\ a[k] = at[<<r, k>>] /\ at[<<r, k>>] = "start" /\ <<r, k>> \in Tasks
  BY <1>0, RunFacts
<1>2. at' = [at EXCEPT ![<<r, k>>] = "start"]
  BY <1>0, <1>1 DEF StateOK
<1>3. "ready" \in Phases /\ "start" \in Places
  BY DEF Phases, Places
<1>4. /\ PhaseOf(r)' \in [Kinds -> Phases] /\ Moved(p, PhaseOf(r)', k, "ready")
      /\ AtOf(r)' \in [Kinds -> Places] /\ Moved(a, AtOf(r)', k, "start")
      /\ \A s \in Runs : s # r => PhaseOf(s)' = PhaseOf(s) /\ AtOf(s)' = AtOf(s)
      /\ phase' \in [Tasks -> Phases] /\ at' \in [Tasks -> Places]
  BY <1>0, <1>2, <1>3, TaskMoves
<1>5. AtOf(r)' = a
  BY <1>0 DEF AtOf
<1>6. /\ AgainOf(r)' = AgainOf(r) \cup {k}
      /\ \A s \in Runs : s # r => AgainOf(s)' = AgainOf(s)
  BY <1>0 DEF AgainOf
<1>7. tries' \in [Tasks -> Nat] /\ retried' \subseteq Tasks
  BY <1>0, <1>1 DEF StateOK
<1>8. StateOK'
  BY <1>0, <1>4, <1>7 DEF StateOK, baselineVars
<1>9. \A s \in Runs : s # r => Untouched(s)
  BY <1>0, <1>4, <1>6 DEF Untouched
<1>10. TasksFine(l, p, a) /\ Judgement(l, p, a, summary[r], found[r], judged[r], verdict[r], AgainOf(r))
  BY DEF RunOK
<1>11. TasksFine(l, PhaseOf(r)', a)
  BY <1>1, <1>3, <1>4, <1>5, <1>10, FineMoves
<1>12. Judgement(l, PhaseOf(r)', a, summary[r], found[r], judged[r], verdict[r], AgainOf(r)')
  BY <1>0, <1>1, <1>4, <1>6, <1>10, JudgementReopens
<1>13. AgainOf(r)' # {}
  BY <1>6
<1>14. RunOK(r)'
  BY <1>0, <1>5, <1>11, <1>12, <1>13 DEF RunOK
<1>15. Promoting(r) => Promoting(r)'
  <2>1. "promote" \in Kinds
    BY DEF Kinds
  <2>2. PhaseOf(r)'["promote"] = p["promote"] \/ PhaseOf(r)'["promote"] = "ready"
    BY <1>1, <1>4, <2>1 DEF Moved
  <2> QED BY <1>5, <2>2 DEF Promoting
<1> QED BY <1>0, <1>5, <1>8, <1>9, <1>14, <1>15 DEF StepOK

(* An attempt is started.                                                  *)
LEMMA ClaimKeeps ==
  ASSUME StateOK, NEW r \in Runs, RunOK(r), NEW k \in Kinds, Claim(<<r, k>>)
  PROVE  /\ StepOK(r) /\ UNCHANGED baselineVars
         /\ Promoting(r) => Promoting(r)'
         /\ AtOf(r)' = AtOf(r)
<1> DEFINE l == lane[r]  p == PhaseOf(r)  a == AtOf(r)
<1>0. /\ phase[<<r, k>>] = "ready" /\ Start(<<r, k>>)
      /\ phase' = [phase EXCEPT ![<<r, k>>] = "active"] /\ tries' = [tries EXCEPT ![<<r, k>>] = @ + 1]
      /\ retried' = retried
      /\ run' = run /\ lane' = lane /\ at' = at /\ verdict' = verdict /\ summary' = summary
      /\ found' = found /\ judged' = judged /\ UNCHANGED baselineVars
  BY DEF Claim, Start, reviewVars, runVars, scriptVars, boundVars
<1>1. /\ l \in Lanes /\ p \in [Kinds -> Phases] /\ a \in [Kinds -> Places] /\ k \in KindsOf(l)
      /\ p[k] = phase[<<r, k>>] /\ a[k] = at[<<r, k>>] /\ at[<<r, k>>] = "start" /\ <<r, k>> \in Tasks
  BY <1>0, RunFacts
<1>2. at' = [at EXCEPT ![<<r, k>>] = "start"]
  BY <1>0, <1>1 DEF StateOK
<1>3. "active" \in Phases /\ "start" \in Places
  BY DEF Phases, Places
<1>4. /\ PhaseOf(r)' \in [Kinds -> Phases] /\ Moved(p, PhaseOf(r)', k, "active")
      /\ AtOf(r)' \in [Kinds -> Places] /\ Moved(a, AtOf(r)', k, "start")
      /\ \A s \in Runs : s # r => PhaseOf(s)' = PhaseOf(s) /\ AtOf(s)' = AtOf(s)
      /\ phase' \in [Tasks -> Phases] /\ at' \in [Tasks -> Places]
  BY <1>0, <1>2, <1>3, TaskMoves
<1>5. AtOf(r)' = a
  BY <1>0 DEF AtOf
<1>6. \A s \in Runs : AgainOf(s)' = AgainOf(s)
  BY <1>0 DEF AgainOf
<1>7. tries' \in [Tasks -> Nat]
  BY <1>0, <1>1 DEF StateOK
<1>8. StateOK'
  BY <1>0, <1>4, <1>7 DEF StateOK, baselineVars
<1>9. \A s \in Runs : s # r => Untouched(s)
  BY <1>0, <1>4, <1>6 DEF Untouched
<1>10. /\ TasksFine(l, p, a) /\ Judgement(l, p, a, summary[r], found[r], judged[r], verdict[r], AgainOf(r))
       /\ AgainOf(r) = {} => Story(l, run[r], p, a)
  BY DEF RunOK
<1>11. No[k] # 1 => \E m \in KindsOf(l) : No[m] = No[k] - 1 /\ p[m] = "succeeded"
  BY <1>0, <1>1, StartsOnSuccess
<1>12. TasksFine(l, PhaseOf(r)', a)
  BY <1>1, <1>3, <1>4, <1>5, <1>10, FineMoves
<1>13. Judgement(l, PhaseOf(r)', a, summary[r], found[r], judged[r], verdict[r], AgainOf(r))
  BY <1>0, <1>1, <1>4, <1>10, <1>11, JudgementStarts
<1>14. AgainOf(r) = {} => Story(l, run[r], PhaseOf(r)', a)
  BY <1>0, <1>1, <1>4, <1>10, <1>11, StoryStarts
<1>15. RunOK(r)'
  BY <1>0, <1>5, <1>6, <1>10, <1>12, <1>13, <1>14 DEF RunOK
<1>16. Promoting(r) => Promoting(r)'
  <2>1. "promote" \in Kinds
    BY DEF Kinds
  <2>2. \/ PhaseOf(r)'["promote"] = p["promote"]
        \/ PhaseOf(r)'["promote"] = "active" /\ a["promote"] = "start"
    BY <1>1, <1>4, <2>1 DEF Moved
  <2> QED BY <1>5, <2>2 DEF Promoting
<1> QED BY <1>0, <1>5, <1>8, <1>9, <1>15, <1>16 DEF StepOK

(* An executor writes the status of its stage, and runs its script.        *)
LEMMA BeginKeeps ==
  ASSUME StateOK, NEW r \in Runs, RunOK(r), NEW k \in Kinds, Begin(r, k)
  PROVE  /\ StepOK(r) /\ UNCHANGED baselineVars
         /\ Promoting(r) => Promoting(r)'
         /\ AtOf(r)'["promote"] = "copied" => AtOf(r)["promote"] = "copied"
<1> DEFINE l == lane[r]  p == PhaseOf(r)  a == AtOf(r)
<1>0. /\ phase[<<r, k>>] = "active" /\ at[<<r, k>>] = "start" /\ k \in DOMAIN Running
      /\ run' = [run EXCEPT ![r] = Running[k]] /\ at' = [at EXCEPT ![<<r, k>>] = "begun"]
      /\ phase' = phase /\ tries' = tries /\ retried' = retried
      /\ lane' = lane /\ verdict' = verdict /\ summary' = summary
      /\ found' = found /\ judged' = judged /\ UNCHANGED baselineVars
  BY DEF Begin, lifecycleVars, scriptVars, boundVars
<1>1. /\ l \in Lanes /\ p \in [Kinds -> Phases] /\ a \in [Kinds -> Places] /\ k \in KindsOf(l)
      /\ p[k] = phase[<<r, k>>] /\ a[k] = at[<<r, k>>] /\ <<r, k>> \in Tasks
  BY <1>0, RunFacts
<1>2. phase' = [phase EXCEPT ![<<r, k>>] = "active"]
  BY <1>0, <1>1 DEF StateOK
<1>3. "active" \in Phases /\ "begun" \in Places /\ "begun" # "done"
  BY DEF Phases, Places
<1>4. /\ PhaseOf(r)' \in [Kinds -> Phases] /\ Moved(p, PhaseOf(r)', k, "active")
      /\ AtOf(r)' \in [Kinds -> Places] /\ Moved(a, AtOf(r)', k, "begun")
      /\ \A s \in Runs : s # r => PhaseOf(s)' = PhaseOf(s) /\ AtOf(s)' = AtOf(s)
      /\ phase' \in [Tasks -> Phases] /\ at' \in [Tasks -> Places]
  BY <1>0, <1>2, <1>3, TaskMoves
<1>5. PhaseOf(r)' = p
  BY <1>0 DEF PhaseOf
<1>6. \A s \in Runs : AgainOf(s)' = AgainOf(s)
  BY <1>0 DEF AgainOf
<1>7. k \in Scripted /\ Running[k] \in StatusesOf(l)
  BY <1>0, <1>1, ScriptedOK DEF StatusesOf
<1>8. /\ run' \in [Runs -> Statuses] /\ \A s \in Runs : run'[s] \in StatusesOf(lane'[s])
      /\ run'[r] = Running[k] /\ \A s \in Runs : s # r => run'[s] = run[s]
  BY <1>0, <1>7, StatusWritten
<1>9. StateOK'
  BY <1>0, <1>4, <1>8 DEF StateOK, baselineVars
<1>10. \A s \in Runs : s # r => Untouched(s)
  BY <1>0, <1>4, <1>6, <1>8 DEF Untouched
<1>11. /\ TasksFine(l, p, a) /\ Judgement(l, p, a, summary[r], found[r], judged[r], verdict[r], AgainOf(r))
       /\ AgainOf(r) = {} => Story(l, run[r], p, a)
       /\ found[r] # {} => a[Judge(l)] = "scripted"
  BY DEF RunOK
<1>12. TasksFine(l, p, AtOf(r)')
  BY <1>1, <1>3, <1>4, <1>5, <1>7, <1>11, FineMoves
<1>13. Judgement(l, p, AtOf(r)', summary[r], found[r], judged[r], verdict[r], AgainOf(r))
  BY <1>0, <1>1, <1>4, <1>11, JudgementGoesOn
<1>14. AgainOf(r) = {} => Story(l, Running[k], p, AtOf(r)')
  BY <1>0, <1>1, <1>3, <1>4, <1>7, <1>11, StoryWrites
<1>15. found[r] # {} => AtOf(r)'[Judge(l)] = "scripted"
  <2>1. Judge(l) \in Kinds
    BY <1>1, EndsOK, KindsOK
  <2> QED BY <1>0, <1>1, <1>4, <1>11, <2>1 DEF Moved
<1>16. RunOK(r)'
  BY <1>0, <1>5, <1>6, <1>8, <1>12, <1>13, <1>14, <1>15 DEF RunOK
<1>17. "promote" \in Kinds /\ "promote" \notin Scripted
  BY DEF Kinds, Scripted
<1>18. AtOf(r)'["promote"] = a["promote"]
  BY <1>1, <1>4, <1>7, <1>17 DEF Moved
<1>19. Promoting(r) => Promoting(r)'
  BY <1>5, <1>18 DEF Promoting
<1> QED BY <1>0, <1>9, <1>10, <1>16, <1>18, <1>19 DEF StepOK

(* What a script leaves on disk: the summary of a capture or a render is   *)
(* whole, and an analysis finds what the capture has seen.                 *)
LEMMA ScriptLeaves ==
  ASSUME StateOK, NEW r \in Runs, RunOK(r), NEW k \in KindsOf(lane[r]), k \in Scripted, EndScript(r, k)
  PROVE  /\ summary' \in [Runs -> [disk : Summaries, row : Summaries]]
         /\ found' \in [Runs -> SUBSET Findings]
         /\ \A s \in Runs : s # r => summary'[s] = summary[s] /\ found'[s] = found[s]
         /\ \/ /\ k = First(lane[r]) /\ found'[r] = found[r]
               /\ \E c \in Summaries : summary'[r].disk = c /\ Whole(lane[r], c)
            \/ /\ k = Judge(lane[r]) /\ summary'[r] = summary[r]
               /\ lane[r] = "ui" => summary[r].disk.seen \subseteq found'[r]
<1>1. /\ summary \in [Runs -> [disk : Summaries, row : Summaries]] /\ found \in [Runs -> SUBSET Findings]
      /\ lane[r] \in Lanes
  BY DEF StateOK
<1>2. ASSUME NEW c \in Summaries, summary' = [summary EXCEPT ![r].disk = c]
      PROVE  /\ summary' \in [Runs -> [disk : Summaries, row : Summaries]] /\ summary'[r].disk = c
             /\ \A s \in Runs : s # r => summary'[s] = summary[s]
  BY <1>1, <1>2
<1>3. ASSUME NEW f \in SUBSET Findings, found' = [found EXCEPT ![r] = f]
      PROVE  /\ found' \in [Runs -> SUBSET Findings] /\ found'[r] = f
             /\ \A s \in Runs : s # r => found'[s] = found[s]
  BY <1>1, <1>3
<1>4. CASE k = "capture"
  <2>1. lane[r] = "ui" /\ k = First(lane[r])
    BY <1>1, <1>4 DEF Lanes, KindsOf, First
  <2>2. PICK c \in Captures : summary' = [summary EXCEPT ![r].disk = c]
    BY <1>4 DEF EndScript
  <2>3. c \in Summaries /\ Whole("ui", c)
    BY CapturesWhole
  <2>4. found' = found
    BY <1>4 DEF EndScript
  <2> QED BY <1>1, <1>2, <2>1, <2>2, <2>3, <2>4
<1>5. CASE k = "render"
  <2>1. lane[r] = "preview" /\ k = First(lane[r])
    BY <1>1, <1>5 DEF Lanes, KindsOf, First
  <2>2. PICK c \in Renders : summary' = [summary EXCEPT ![r].disk = c]
    BY <1>5 DEF EndScript
  <2>3. c \in Summaries /\ Whole("preview", c)
    BY RendersWhole
  <2>4. found' = found
    BY <1>5 DEF EndScript
  <2> QED BY <1>1, <1>2, <2>1, <2>2, <2>3, <2>4
<1>6. CASE k = "analyze"
  <2>1. lane[r] = "ui" /\ k = Judge(lane[r])
    BY <1>1, <1>6 DEF Lanes, KindsOf, Judge
  <2>2. PICK f \in Analyses(summary[r].disk, baseline.file # "none") : found' = [found EXCEPT ![r] = f]
    BY <1>6 DEF EndScript
  <2>3. summary[r].disk \in Summaries
    BY <1>1
  <2>4. summary[r].disk.seen \subseteq f /\ f \subseteq Findings
    BY <2>3, AnalysesFind
  <2>5. summary' = summary
    BY <1>6 DEF EndScript
  <2> QED BY <1>1, <1>3, <2>1, <2>2, <2>4, <2>5
<1>7. CASE k = "preview_analyze"
  <2>1. lane[r] = "preview" /\ k = Judge(lane[r])
    BY <1>1, <1>7 DEF Lanes, KindsOf, Judge
  <2>2. PICK f \in PreviewWarnings : found' = [found EXCEPT ![r] = f]
    BY <1>7 DEF EndScript
  <2>3. f \subseteq Findings
    BY DEF PreviewWarnings, Findings
  <2>4. summary' = summary
    BY <1>7 DEF EndScript
  <2> QED BY <1>1, <1>3, <2>1, <2>2, <2>3, <2>4
<1> QED BY <1>4, <1>5, <1>6, <1>7 DEF Scripted

(* A script ends.                                                          *)
LEMMA EndScriptKeeps ==
  ASSUME StateOK, NEW r \in Runs, RunOK(r), NEW k \in Kinds, EndScript(r, k)
  PROVE  /\ StepOK(r) /\ UNCHANGED baselineVars
         /\ Promoting(r) => Promoting(r)'
         /\ AtOf(r)'["promote"] = "copied" => AtOf(r)["promote"] = "copied"
<1> DEFINE l == lane[r]  p == PhaseOf(r)  a == AtOf(r)
<1>0. /\ phase[<<r, k>>] = "active" /\ at[<<r, k>>] = "begun"
      /\ at' = [at EXCEPT ![<<r, k>>] = "scripted"]
      /\ phase' = phase /\ tries' = tries /\ retried' = retried /\ run' = run
      /\ lane' = lane /\ verdict' = verdict /\ judged' = judged /\ UNCHANGED baselineVars
  BY DEF EndScript, lifecycleVars, boundVars
<1>1. /\ l \in Lanes /\ p \in [Kinds -> Phases] /\ a \in [Kinds -> Places] /\ k \in KindsOf(l)
      /\ p[k] = phase[<<r, k>>] /\ a[k] = at[<<r, k>>] /\ <<r, k>> \in Tasks /\ k \in Scripted
      /\ summary[r] \in [disk : Summaries, row : Summaries]
  BY <1>0, RunFacts
<1>2. phase' = [phase EXCEPT ![<<r, k>>] = "active"]
  BY <1>0, <1>1 DEF StateOK
<1>3. "active" \in Phases /\ "scripted" \in Places \ {"done"}
  BY DEF Phases, Places
<1>4. /\ PhaseOf(r)' \in [Kinds -> Phases] /\ Moved(p, PhaseOf(r)', k, "active")
      /\ AtOf(r)' \in [Kinds -> Places] /\ Moved(a, AtOf(r)', k, "scripted")
      /\ \A s \in Runs : s # r => PhaseOf(s)' = PhaseOf(s) /\ AtOf(s)' = AtOf(s)
      /\ phase' \in [Tasks -> Phases] /\ at' \in [Tasks -> Places]
  BY <1>0, <1>2, <1>3, TaskMoves
<1>5. PhaseOf(r)' = p
  BY <1>0 DEF PhaseOf
<1>6. \A s \in Runs : AgainOf(s)' = AgainOf(s)
  BY <1>0 DEF AgainOf
<1>7. /\ summary' \in [Runs -> [disk : Summaries, row : Summaries]]
      /\ found' \in [Runs -> SUBSET Findings]
      /\ \A s \in Runs : s # r => summary'[s] = summary[s] /\ found'[s] = found[s]
  BY <1>1, ScriptLeaves
<1>8. \/ /\ k = First(l) /\ found'[r] = found[r]
         /\ \E c \in Summaries : summary'[r].disk = c /\ Whole(l, c)
      \/ /\ k = Judge(l) /\ summary'[r] = summary[r]
         /\ l = "ui" => summary[r].disk.seen \subseteq found'[r]
  BY <1>1, ScriptLeaves
<1>9. StateOK'
  BY <1>0, <1>4, <1>7 DEF StateOK, baselineVars
<1>10. \A s \in Runs : s # r => Untouched(s)
  BY <1>0, <1>4, <1>6, <1>7 DEF Untouched
<1>11. /\ TasksFine(l, p, a) /\ Judgement(l, p, a, summary[r], found[r], judged[r], verdict[r], AgainOf(r))
       /\ AgainOf(r) = {} => Story(l, run[r], p, a)
       /\ found[r] # {} => a[Judge(l)] = "scripted"
  BY DEF RunOK
<1>12. TasksFine(l, p, AtOf(r)')
  BY <1>1, <1>3, <1>4, <1>5, <1>11, FineMoves
<1>13. Judgement(l, p, AtOf(r)', summary'[r], found'[r], judged[r], verdict[r], AgainOf(r))
  <2>1. NoSummary \in Summaries
    BY ScriptsAssumption DEF NoSummary, Summaries
  <2>2. CASE /\ k = First(l) /\ found'[r] = found[r]
             /\ \E c \in Summaries : summary'[r].disk = c /\ Whole(l, c)
    <3>1. PICK c \in Summaries : summary'[r].disk = c /\ Whole(l, c)
      BY <2>2
    <3> QED BY <1>0, <1>1, <1>4, <1>11, <2>2, <3>1, JudgementScripted
  <2>3. CASE /\ k = Judge(l) /\ summary'[r] = summary[r]
             /\ l = "ui" => summary[r].disk.seen \subseteq found'[r]
    BY <1>0, <1>1, <1>4, <1>11, <2>1, <2>3, JudgementScripted
  <2> QED BY <1>8, <2>2, <2>3
<1>14. AgainOf(r) = {} => Story(l, run[r], p, AtOf(r)')
  BY <1>0, <1>1, <1>3, <1>4, <1>11, StoryGoesOn
<1>15. found'[r] # {} => AtOf(r)'[Judge(l)] = "scripted"
  <2>1. Judge(l) \in Kinds
    BY <1>1, EndsOK, KindsOK
  <2> QED BY <1>0, <1>1, <1>4, <1>8, <1>11, <2>1 DEF Moved
<1>16. RunOK(r)'
  BY <1>0, <1>5, <1>6, <1>12, <1>13, <1>14, <1>15 DEF RunOK
<1>17. "promote" \in Kinds /\ "promote" \notin Scripted
  BY DEF Kinds, Scripted
<1>18. AtOf(r)'["promote"] = a["promote"]
  BY <1>1, <1>4, <1>17 DEF Moved
<1>19. Promoting(r) => Promoting(r)'
  BY <1>5, <1>18 DEF Promoting
<1> QED BY <1>0, <1>9, <1>10, <1>16, <1>18, <1>19 DEF StepOK

(* A promotion copies the picture.                                         *)
LEMMA CopyBaselineKeeps ==
  ASSUME ReviewInv, NEW r \in Runs, CopyBaseline(r)
  PROVE  StepOK(r) /\ BaselineOK'
<1> DEFINE l == lane[r]  p == PhaseOf(r)  a == AtOf(r)  k == "promote"
<1>0. /\ phase[<<r, k>>] = "active" /\ at[<<r, k>>] = "start"
      /\ at' = [at EXCEPT ![<<r, k>>] = "copied"]
      /\ baseline' = [baseline EXCEPT !.file = "own"]
      /\ overlapped' = (overlapped \/ others = "copied") /\ others' = others
      /\ phase' = phase /\ tries' = tries /\ retried' = retried /\ run' = run
      /\ lane' = lane /\ verdict' = verdict /\ judged' = judged /\ summary' = summary /\ found' = found
  BY DEF CopyBaseline, lifecycleVars, boundVars, scriptVars
<1>a. StateOK /\ RunOK(r) /\ BaselineOK /\ k \in Kinds
  BY DEF ReviewInv, Kinds
<1>1. /\ l \in Lanes /\ p \in [Kinds -> Phases] /\ a \in [Kinds -> Places] /\ k \in KindsOf(l)
      /\ p[k] = phase[<<r, k>>] /\ a[k] = at[<<r, k>>] /\ <<r, k>> \in Tasks
  BY <1>0, <1>a, RunFacts
<1>2. phase' = [phase EXCEPT ![<<r, k>>] = "active"]
  BY <1>0, <1>1, <1>a DEF StateOK
<1>3. "active" \in Phases /\ "copied" \in Places \ {"done"}
  BY DEF Phases, Places
<1>4. /\ PhaseOf(r)' \in [Kinds -> Phases] /\ Moved(p, PhaseOf(r)', k, "active")
      /\ AtOf(r)' \in [Kinds -> Places] /\ Moved(a, AtOf(r)', k, "copied")
      /\ \A s \in Runs : s # r => PhaseOf(s)' = PhaseOf(s) /\ AtOf(s)' = AtOf(s)
      /\ phase' \in [Tasks -> Phases] /\ at' \in [Tasks -> Places]
  BY <1>0, <1>2, <1>3, <1>a, TaskMoves
<1>5. PhaseOf(r)' = p
  BY <1>0 DEF PhaseOf
<1>6. \A s \in Runs : AgainOf(s)' = AgainOf(s)
  BY <1>0 DEF AgainOf
<1>7. /\ baseline' \in [file : {"none", "own", "other"}, row : {"none", "own", "other"}]
      /\ baseline'.file = "own" /\ baseline'.row = baseline.row
  BY <1>0, <1>a DEF StateOK
<1>8. overlapped' \in BOOLEAN
  BY <1>0, <1>a DEF StateOK
<1>9. StateOK'
  BY <1>0, <1>4, <1>7, <1>8, <1>a DEF StateOK
<1>10. \A s \in Runs : s # r => Untouched(s)
  BY <1>0, <1>4, <1>6 DEF Untouched
<1>11. /\ TasksFine(l, p, a) /\ Judgement(l, p, a, summary[r], found[r], judged[r], verdict[r], AgainOf(r))
       /\ AgainOf(r) = {} => Story(l, run[r], p, a)
       /\ found[r] # {} => a[Judge(l)] = "scripted"
  BY <1>a DEF RunOK
<1>12. TasksFine(l, p, AtOf(r)')
  BY <1>1, <1>3, <1>4, <1>5, <1>11, FineMoves
<1>13. Judgement(l, p, AtOf(r)', summary[r], found[r], judged[r], verdict[r], AgainOf(r))
  BY <1>0, <1>1, <1>4, <1>11, JudgementGoesOn
<1>14. AgainOf(r) = {} => Story(l, run[r], p, AtOf(r)')
  BY <1>0, <1>1, <1>3, <1>4, <1>11, StoryGoesOn
<1>15. found[r] # {} => AtOf(r)'[Judge(l)] = "scripted"
  <2>1. Judge(l) \in Kinds /\ Judge(l) # k
    BY DEF Judge, Kinds
  <2> QED BY <1>4, <1>11, <2>1 DEF Moved
<1>16. RunOK(r)'
  BY <1>0, <1>5, <1>6, <1>12, <1>13, <1>14, <1>15 DEF RunOK
<1>17. Promoting(r)'
  BY <1>0, <1>1, <1>4, <1>5 DEF Promoting, Moved
<1>18. BaselineOK'
  BY <1>0, <1>7, <1>17 DEF BaselineOK
<1> QED BY <1>9, <1>10, <1>16, <1>18 DEF StepOK

(* What the transaction of a stage writes: the summary that is on disk, the *)
(* judgement of a capture on record, or neither.                           *)
LEMMA FinishWrites ==
  ASSUME StateOK, NEW r \in Runs, RunOK(r), NEW k \in KindsOf(lane[r]), Finish(r, k)
  PROVE  /\ summary' \in [Runs -> [disk : Summaries, row : Summaries]]
         /\ found' \in [Runs -> SUBSET Findings]
         /\ judged' \in [Runs -> {"none", "passed", "warning", "failed"}]
         /\ verdict' \in [Runs -> {"none", "proposed", "reviewed"}]
         /\ \A s \in Runs : s # r => /\ summary'[s] = summary[s] /\ found'[s] = found[s]
                                     /\ judged'[s] = judged[s] /\ verdict'[s] = verdict[s]
         /\ found'[r] # {} => found'[r] = found[r] /\ k # Judge(lane[r])
         /\ \/ /\ k = First(lane[r]) /\ AtOf(r)[k] = "scripted"
               /\ summary'[r].disk = summary[r].disk /\ summary'[r].row = summary[r].disk
               /\ found'[r] = found[r] /\ judged'[r] = judged[r] /\ verdict'[r] = verdict[r]
            \/ /\ k = Judge(lane[r]) /\ AtOf(r)[k] = "scripted" /\ summary'[r] = summary[r]
               /\ OnRecord(lane[r], summary[r]) /\ (lane[r] = "ui" => summary[r].disk.seen \subseteq found[r])
                    => Judged(lane[r], summary[r], judged'[r], verdict'[r])
            \/ /\ k # First(lane[r]) /\ k # Judge(lane[r]) /\ summary'[r] = summary[r]
               /\ found'[r] = found[r] /\ judged'[r] = judged[r] /\ verdict'[r] = verdict[r]
<1>0. /\ at[<<r, k>>] = Ready(k) /\ summary' = SummaryAfter(r, k) /\ judged' = JudgedAfter(r, k)
      /\ verdict' = VerdictAfter(r, k)
      /\ found' = IF k \in {"analyze", "preview_analyze"} THEN [found EXCEPT ![r] = {}] ELSE found
  BY DEF Finish, ForgetAnalysis
<1>1. /\ summary \in [Runs -> [disk : Summaries, row : Summaries]] /\ found \in [Runs -> SUBSET Findings]
      /\ judged \in [Runs -> {"none", "passed", "warning", "failed"}]
      /\ verdict \in [Runs -> {"none", "proposed", "reviewed"}]
      /\ lane[r] \in Lanes
  BY DEF StateOK
<1>2. k \in Kinds /\ AtOf(r)[k] = at[<<r, k>>]
  BY <1>1, KindsOK, RunFacts
<1>3. k \in Scripted => AtOf(r)[k] = "scripted"
  <2>1. k \in Scripted => k \in DOMAIN Running /\ k # "promote"
    BY ScriptedOK DEF Scripted
  <2>2. k \in DOMAIN Running /\ k # "promote" => Ready(k) = "scripted"
    BY DEF Ready
  <2> QED BY <1>0, <1>2, <2>1, <2>2
<1>4. CASE k \in {"capture", "render"}
  <2>1. k = First(lane[r]) /\ k # Judge(lane[r]) /\ k \in Scripted /\ k \notin {"analyze", "preview_analyze"}
    BY <1>1, <1>4 DEF Lanes, KindsOf, First, Judge, Scripted
  <2>2. summary' = [summary EXCEPT ![r].row = summary[r].disk]
    BY <1>0, <1>4 DEF SummaryAfter
  <2>3. /\ summary' \in [Runs -> [disk : Summaries, row : Summaries]]
        /\ summary'[r].disk = summary[r].disk /\ summary'[r].row = summary[r].disk
        /\ \A s \in Runs : s # r => summary'[s] = summary[s]
    BY <1>1, <2>2
  <2>4. found' = found /\ judged' = judged /\ verdict' = verdict
    BY <1>0, <2>1, <1>4 DEF JudgedAfter, VerdictAfter
  <2> QED BY <1>1, <1>3, <2>1, <2>3, <2>4
<1>5. CASE k = "analyze"
  <2>1. lane[r] = "ui" /\ k = Judge(lane[r]) /\ k \in Scripted
    BY <1>1, <1>5 DEF Lanes, KindsOf, Judge, Scripted
  <2> DEFINE w == IF summary[r].row.error THEN "failed" ELSE Outcome(found[r])
             u == IF found[r] = {} /\ ~summary[r].row.error THEN "none" ELSE "proposed"
  <2>2. /\ summary' = summary /\ found' = [found EXCEPT ![r] = {}]
        /\ judged' = [judged EXCEPT ![r] = w] /\ verdict' = [verdict EXCEPT ![r] = u]
    BY <1>0, <1>5 DEF SummaryAfter, JudgedAfter, VerdictAfter, FindingsOf
  <2>3. w \in {"none", "passed", "warning", "failed"} /\ u \in {"none", "proposed", "reviewed"}
    BY DEF Outcome
  <2>4. OnRecord("ui", summary[r]) /\ summary[r].disk.seen \subseteq found[r] => Judged("ui", summary[r], w, u)
    BY <1>1, JudgedWell
  <2> HIDE DEF w, u
  <2>5. /\ found' \in [Runs -> SUBSET Findings] /\ found'[r] = {}
        /\ \A s \in Runs : s # r => found'[s] = found[s]
    BY <1>1, <2>2
  <2>6. /\ judged' \in [Runs -> {"none", "passed", "warning", "failed"}] /\ judged'[r] = w
        /\ verdict' \in [Runs -> {"none", "proposed", "reviewed"}] /\ verdict'[r] = u
        /\ \A s \in Runs : s # r => judged'[s] = judged[s] /\ verdict'[s] = verdict[s]
    BY <1>1, <2>2, <2>3
  <2> QED BY <1>1, <1>3, <2>1, <2>2, <2>4, <2>5, <2>6
<1>6. CASE k = "preview_analyze"
  <2>1. lane[r] = "preview" /\ k = Judge(lane[r]) /\ k \in Scripted
    BY <1>1, <1>6 DEF Lanes, KindsOf, Judge, Scripted
  <2> DEFINE w == IF found[r] # {} THEN "warning" ELSE "passed"
  <2>2. /\ summary' = summary /\ found' = [found EXCEPT ![r] = {}]
        /\ judged' = [judged EXCEPT ![r] = w] /\ verdict' = verdict
    BY <1>0, <1>6 DEF SummaryAfter, JudgedAfter, VerdictAfter
  <2>3. w \in {"none", "passed", "warning", "failed"} /\ w # "none"
    OBVIOUS
  <2> HIDE DEF w
  <2>5. /\ found' \in [Runs -> SUBSET Findings] /\ found'[r] = {}
        /\ \A s \in Runs : s # r => found'[s] = found[s]
    BY <1>1, <2>2
  <2>6. /\ judged' \in [Runs -> {"none", "passed", "warning", "failed"}] /\ judged'[r] = w
        /\ \A s \in Runs : s # r => judged'[s] = judged[s]
    BY <1>1, <2>2, <2>3
  <2>7. Judged(lane[r], summary[r], judged'[r], verdict'[r])
    BY <2>1, <2>3, <2>6 DEF Judged
  <2> QED BY <1>1, <1>3, <2>1, <2>2, <2>5, <2>6, <2>7
<1>7. CASE k \in {"fix_draft", "promote"}
  <2>1. k # First(lane[r]) /\ k # Judge(lane[r])
    BY <1>7 DEF First, Judge
  <2>2. summary' = summary /\ found' = found /\ judged' = judged /\ verdict' = verdict
    BY <1>0, <1>7 DEF SummaryAfter, JudgedAfter, VerdictAfter
  <2> QED BY <1>1, <2>1, <2>2
<1> QED BY <1>2, <1>4, <1>5, <1>6, <1>7 DEF Kinds

(* A stage commits.                                                        *)
LEMMA FinishKeeps ==
  ASSUME ReviewInv, NEW r \in Runs, NEW k \in Kinds, Finish(r, k)
  PROVE  StepOK(r) /\ BaselineOK'
<1> DEFINE l == lane[r]  p == PhaseOf(r)  a == AtOf(r)
<1>0. /\ phase[<<r, k>>] = "active" /\ at[<<r, k>>] = Ready(k)
      /\ run' = [run EXCEPT ![r] = Final[k]] /\ at' = [at EXCEPT ![<<r, k>>] = "done"]
      /\ baseline' = BaselineAfter(k) /\ others' = others /\ overlapped' = overlapped
      /\ phase' = phase /\ tries' = tries /\ retried' = retried /\ lane' = lane
  BY DEF Finish, lifecycleVars, boundVars
<1>a. StateOK /\ RunOK(r) /\ BaselineOK
  BY DEF ReviewInv
<1>1. /\ l \in Lanes /\ p \in [Kinds -> Phases] /\ a \in [Kinds -> Places] /\ k \in KindsOf(l)
      /\ p[k] = phase[<<r, k>>] /\ a[k] = at[<<r, k>>] /\ <<r, k>> \in Tasks
      /\ summary[r] \in [disk : Summaries, row : Summaries]
  BY <1>0, <1>a, RunFacts
<1>2. phase' = [phase EXCEPT ![<<r, k>>] = "active"]
  BY <1>0, <1>1, <1>a DEF StateOK
<1>3. "active" \in Phases /\ "done" \in Places
  BY DEF Phases, Places
<1>4. /\ PhaseOf(r)' \in [Kinds -> Phases] /\ Moved(p, PhaseOf(r)', k, "active")
      /\ AtOf(r)' \in [Kinds -> Places] /\ Moved(a, AtOf(r)', k, "done")
      /\ \A s \in Runs : s # r => PhaseOf(s)' = PhaseOf(s) /\ AtOf(s)' = AtOf(s)
      /\ phase' \in [Tasks -> Phases] /\ at' \in [Tasks -> Places]
  BY <1>0, <1>2, <1>3, <1>a, TaskMoves
<1>5. PhaseOf(r)' = p
  BY <1>0 DEF PhaseOf
<1>6. \A s \in Runs : AgainOf(s)' = AgainOf(s)
  BY <1>0 DEF AgainOf
<1>7. Final[k] \in StatusesOf(l)
  BY <1>1 DEF StatusesOf
<1>8. /\ run' \in [Runs -> Statuses] /\ \A s \in Runs : run'[s] \in StatusesOf(lane'[s])
      /\ run'[r] = Final[k] /\ \A s \in Runs : s # r => run'[s] = run[s]
  BY <1>0, <1>7, <1>a, StatusWritten
<1>9. /\ summary' \in [Runs -> [disk : Summaries, row : Summaries]]
      /\ found' \in [Runs -> SUBSET Findings]
      /\ judged' \in [Runs -> {"none", "passed", "warning", "failed"}]
      /\ verdict' \in [Runs -> {"none", "proposed", "reviewed"}]
      /\ \A s \in Runs : s # r => /\ summary'[s] = summary[s] /\ found'[s] = found[s]
                                  /\ judged'[s] = judged[s] /\ verdict'[s] = verdict[s]
      /\ found'[r] # {} => found'[r] = found[r] /\ k # Judge(l)
  BY <1>1, <1>a, FinishWrites
<1>10. \/ /\ k = First(l) /\ a[k] = "scripted"
          /\ summary'[r].disk = summary[r].disk /\ summary'[r].row = summary[r].disk
          /\ found'[r] = found[r] /\ judged'[r] = judged[r] /\ verdict'[r] = verdict[r]
       \/ /\ k = Judge(l) /\ a[k] = "scripted" /\ summary'[r] = summary[r]
          /\ OnRecord(l, summary[r]) /\ (l = "ui" => summary[r].disk.seen \subseteq found[r])
               => Judged(l, summary[r], judged'[r], verdict'[r])
       \/ /\ k # First(l) /\ k # Judge(l) /\ summary'[r] = summary[r]
          /\ found'[r] = found[r] /\ judged'[r] = judged[r] /\ verdict'[r] = verdict[r]
  BY <1>1, <1>a, FinishWrites
<1>11. /\ baseline' \in [file : {"none", "own", "other"}, row : {"none", "own", "other"}]
       /\ baseline'.file = baseline.file
       /\ IF k = "promote" THEN baseline'.row = "own" ELSE baseline' = baseline
  BY <1>0, <1>a DEF BaselineAfter, StateOK
<1>12. StateOK'
  BY <1>0, <1>4, <1>8, <1>9, <1>11, <1>a DEF StateOK
<1>13. \A s \in Runs : s # r => Untouched(s)
  BY <1>0, <1>4, <1>6, <1>8, <1>9 DEF Untouched
<1>14. /\ TasksFine(l, p, a) /\ Judgement(l, p, a, summary[r], found[r], judged[r], verdict[r], AgainOf(r))
       /\ AgainOf(r) = {} => Story(l, run[r], p, a)
       /\ found[r] # {} => a[Judge(l)] = "scripted"
  BY <1>a DEF RunOK
<1>15. TasksFine(l, p, AtOf(r)')
  BY <1>1, <1>0, <1>3, <1>4, <1>5, <1>14, FineMoves
<1>16. Judgement(l, p, AtOf(r)', summary'[r], found'[r], judged'[r], verdict'[r], AgainOf(r))
  BY <1>0, <1>1, <1>4, <1>10, <1>14, JudgementCommits
<1>17. AgainOf(r) = {} => Story(l, Final[k], p, AtOf(r)')
  BY <1>0, <1>1, <1>3, <1>4, <1>14, StoryWrites
<1>18. found'[r] # {} => AtOf(r)'[Judge(l)] = "scripted"
  <2>1. Judge(l) \in Kinds
    BY <1>1, EndsOK, KindsOK
  <2> QED BY <1>4, <1>9, <1>14, <2>1 DEF Moved
<1>19. RunOK(r)'
  BY <1>0, <1>5, <1>6, <1>8, <1>15, <1>16, <1>17, <1>18 DEF RunOK
<1>20. "promote" \in Kinds
  BY DEF Kinds
<1>21. CASE k = "promote"
  <2>1. at[<<r, k>>] = "copied"
    BY <1>0, <1>21 DEF Ready, Running
  <2>2. ~overlapped => baseline.file = "own"
    BY <1>1, <1>21, <1>a, <2>1 DEF BaselineOK
  <2>3. baseline'.row = "own" /\ baseline'.file = baseline.file
    BY <1>11, <1>21
  <2>4. \A s \in Runs : AtOf(s)'["promote"] = "copied" => AtOf(s)["promote"] = "copied"
    BY <1>4, <1>20, <1>21 DEF Moved
  <2> QED BY <1>0, <1>12, <1>13, <1>19, <1>a, <2>2, <2>3, <2>4 DEF BaselineOK, StepOK
<1>22. CASE k # "promote"
  <2>1. UNCHANGED baselineVars
    BY <1>0, <1>11, <1>22 DEF baselineVars
  <2>2. AtOf(r)'["promote"] = a["promote"]
    BY <1>4, <1>20, <1>22 DEF Moved
  <2>3. Promoting(r) => Promoting(r)'
    BY <1>5, <2>2 DEF Promoting
  <2>4. BaselineOK'
    BY <1>13, <1>a, <2>1, <2>2, <2>3, BaselineKept
  <2> QED BY <1>12, <1>13, <1>19, <2>4 DEF StepOK
<1> QED BY <1>21, <1>22

\* The task is recorded, and its executor is done with it.
Recorded(t, x) ==
  /\ phase[t] = "active" /\ phase' = [phase EXCEPT ![t] = x] /\ at' = [at EXCEPT ![t] = "start"]
  /\ tries' = tries /\ UNCHANGED <<lane, verdict, summary, judged, baselineVars, retried>>
FailsRun(r) == run' = [run EXCEPT ![r] = "failed"]

(* An attempt ends: on record as a success of a stage that has committed,  *)
(* to be repeated, or as the last one, which fails the run.                *)
LEMMA RecordKeeps ==
  ASSUME ReviewInv, NEW r \in Runs, NEW k \in Kinds, NEW x \in Phases, Recorded(<<r, k>>, x),
         \/ x = "succeeded" /\ at[<<r, k>>] = "done" /\ run' = run /\ found' = found
         \/ x = "ready" /\ run' = run /\ ForgetAnalysis(r, k)
         \/ x = "failed" /\ FailsRun(r) /\ ForgetAnalysis(r, k)
  PROVE  StepOK(r) /\ BaselineOK'
<1> DEFINE l == lane[r]  p == PhaseOf(r)  a == AtOf(r)
           st == IF x = "failed" THEN "failed" ELSE run[r]
<1>0. /\ retried' = retried /\ lane' = lane /\ verdict' = verdict /\ summary' = summary /\ judged' = judged
      /\ UNCHANGED baselineVars /\ tries' = tries
      /\ phase[<<r, k>>] = "active" /\ phase' = [phase EXCEPT ![<<r, k>>] = x]
      /\ at' = [at EXCEPT ![<<r, k>>] = "start"]
  BY DEF Recorded
<1>a. StateOK /\ RunOK(r) /\ BaselineOK
  BY DEF ReviewInv
<1>1. /\ l \in Lanes /\ p \in [Kinds -> Phases] /\ a \in [Kinds -> Places] /\ k \in KindsOf(l)
      /\ p[k] = phase[<<r, k>>] /\ a[k] = at[<<r, k>>] /\ <<r, k>> \in Tasks /\ run[r] \in StatusesOf(l)
  BY <1>0, <1>a, RunFacts
<1>2. "start" \in Places
  BY DEF Places
<1>3. /\ PhaseOf(r)' \in [Kinds -> Phases] /\ Moved(p, PhaseOf(r)', k, x)
      /\ AtOf(r)' \in [Kinds -> Places] /\ Moved(a, AtOf(r)', k, "start")
      /\ \A s \in Runs : s # r => PhaseOf(s)' = PhaseOf(s) /\ AtOf(s)' = AtOf(s)
      /\ phase' \in [Tasks -> Phases] /\ at' \in [Tasks -> Places]
  BY <1>0, <1>2, <1>a, TaskMoves
<1>4. \A s \in Runs : AgainOf(s)' = AgainOf(s)
  BY <1>0 DEF AgainOf
<1>5. "failed" \in StatusesOf(l)
  BY DEF StatusesOf
<1>6. /\ run' \in [Runs -> Statuses] /\ \A s \in Runs : run'[s] \in StatusesOf(lane'[s])
      /\ run'[r] = st /\ \A s \in Runs : s # r => run'[s] = run[s]
  <2>1. CASE run' = run /\ x # "failed"
    BY <1>0, <1>a, <2>1 DEF StateOK
  <2>2. CASE FailsRun(r) /\ x = "failed"
    BY <1>0, <1>5, <1>a, <2>2, StatusWritten DEF FailsRun
  <2> QED BY <2>1, <2>2
<1>7. k \in {"analyze", "preview_analyze"} <=> k = Judge(l)
  BY <1>1 DEF Lanes, KindsOf, Judge
<1>8. /\ found' \in [Runs -> SUBSET Findings] /\ \A s \in Runs : s # r => found'[s] = found[s]
      /\ found'[r] = found[r] \/ k = Judge(l)
      /\ x # "succeeded" /\ k = Judge(l) => found'[r] = {}
      /\ x = "succeeded" => found'[r] = found[r]
  <2>1. found \in [Runs -> SUBSET Findings]
    BY <1>a DEF StateOK
  <2>2. found' = found \/ (found' = [found EXCEPT ![r] = {}] /\ k = Judge(l))
    BY <1>7 DEF ForgetAnalysis
  <2>3. x # "succeeded" /\ k = Judge(l) => found' = [found EXCEPT ![r] = {}]
    BY <1>7 DEF ForgetAnalysis
  <2>4. x = "succeeded" => found' = found
    OBVIOUS
  <2> QED BY <2>1, <2>2, <2>3, <2>4
<1>9. StateOK'
  BY <1>0, <1>3, <1>6, <1>8, <1>a DEF StateOK, baselineVars
<1>10. \A s \in Runs : s # r => Untouched(s)
  BY <1>0, <1>3, <1>4, <1>6, <1>8 DEF Untouched
<1>11. /\ TasksFine(l, p, a) /\ Judgement(l, p, a, summary[r], found[r], judged[r], verdict[r], AgainOf(r))
       /\ AgainOf(r) = {} => Story(l, run[r], p, a)
       /\ found[r] # {} => a[Judge(l)] = "scripted"
  BY <1>a DEF RunOK
<1>12. TasksFine(l, PhaseOf(r)', AtOf(r)')
  BY <1>1, <1>2, <1>3, <1>11, FineMoves
<1>13. (x = "succeeded" /\ a[k] = "done") \/ x \in {"ready", "failed"}
  BY <1>1
<1> HIDE DEF st
<1>14. Judgement(l, PhaseOf(r)', AtOf(r)', summary[r], found'[r], judged[r], verdict[r], AgainOf(r))
  BY <1>0, <1>1, <1>3, <1>8, <1>11, <1>13, JudgementRecords
<1>15. \/ x = "succeeded" /\ a[k] = "done" /\ st = run[r]
       \/ x = "ready" /\ st = run[r]
       \/ x = "failed" /\ st = "failed"
  BY <1>1 DEF st
<1>16. AgainOf(r) = {} => Story(l, st, PhaseOf(r)', AtOf(r)')
  BY <1>0, <1>1, <1>3, <1>11, <1>15, StoryRecords
<1>17. found'[r] # {} => AtOf(r)'[Judge(l)] = "scripted"
  <2>1. Judge(l) \in Kinds
    BY <1>1, EndsOK, KindsOK
  <2>2. found'[r] # {} => found'[r] = found[r] /\ (k = Judge(l) => a[k] = "done")
    BY <1>1, <1>8, <1>13
  <2> QED BY <1>3, <1>11, <2>1, <2>2 DEF Moved
<1>18. RunOK(r)'
  BY <1>0, <1>4, <1>6, <1>12, <1>14, <1>16, <1>17 DEF RunOK
<1>19. "promote" \in Kinds
  BY DEF Kinds
<1>20. AtOf(r)'["promote"] = "copied" => a["promote"] = "copied"
  BY <1>3, <1>19 DEF Moved
<1>21. Promoting(r) => Promoting(r)'
  BY <1>0, <1>1, <1>3, <1>13, <1>19 DEF Promoting, Moved
<1>22. BaselineOK'
  BY <1>0, <1>10, <1>20, <1>21, <1>a, BaselineKept
<1> QED BY <1>9, <1>10, <1>18, <1>22 DEF StepOK

(* A stage that has committed is recorded.                                 *)
LEMMA CompleteKeeps ==
  ASSUME ReviewInv, NEW r \in Runs, NEW k \in Kinds, Complete(<<r, k>>)
  PROVE  StepOK(r) /\ BaselineOK'
<1>1. /\ at[<<r, k>>] = "done" /\ run' = run /\ found' = found
      /\ Recorded(<<r, k>>, "succeeded")
  BY DEF Complete, Succeed, scriptVars, boundVars, Recorded
<1>2. "succeeded" \in Phases
  BY DEF Phases
<1> QED BY <1>1, <1>2, RecordKeeps

(* An attempt fails before its stage has committed.                        *)
LEMMA FailAttemptKeeps ==
  ASSUME ReviewInv, NEW r \in Runs, NEW k \in Kinds, FailAttempt(<<r, k>>)
  PROVE  StepOK(r) /\ BaselineOK'
<1> DEFINE t == <<r, k>>
<1>1. /\ Recorded(t, IF tries[t] < MaxAttempts THEN "ready" ELSE "failed")
      /\ IF tries[t] >= MaxAttempts THEN FailsRun(r) ELSE run' = run
      /\ ForgetAnalysis(r, k)
  BY DEF FailAttempt, Fail, GivesUp, boundVars, Recorded, FailsRun
<1>2. tries[t] \in Nat /\ MaxAttempts \in Nat
  BY TasksAre, ReviewAssumption DEF ReviewInv, StateOK
<1>3. "ready" \in Phases /\ "failed" \in Phases
  BY DEF Phases
<1> HIDE DEF t
<1>4. CASE tries[t] < MaxAttempts
  <2>1. Recorded(t, "ready") /\ run' = run
    BY <1>1, <1>2, <1>4
  <2> QED BY <1>1, <1>3, <2>1, RecordKeeps DEF t
<1>5. CASE ~(tries[t] < MaxAttempts)
  <2>1. Recorded(t, "failed") /\ FailsRun(r)
    BY <1>1, <1>2, <1>5
  <2> QED BY <1>1, <1>3, <2>1, RecordKeeps DEF t
<1> QED BY <1>4, <1>5

(* An attempt is lost with its worker.                                     *)
LEMMA WorkerDiesKeeps ==
  ASSUME ReviewInv, NEW r \in Runs, NEW k \in Kinds, WorkerDies(<<r, k>>)
  PROVE  StepOK(r) /\ BaselineOK'
<1> DEFINE t == <<r, k>>
<1>1. /\ phase[t] = "active" /\ t[1] = r /\ t[2] = k
      /\ phase' = [u \in Tasks |-> IF u \in {t} THEN "ready" ELSE phase[u]]
      /\ at' = [at EXCEPT ![t] = "start"] /\ run' = run
      /\ ForgetAnalysis(r, k)
      /\ tries' = tries /\ UNCHANGED <<lane, verdict, summary, judged, baselineVars, retried>>
  BY DEF WorkerDies, Recover
<1>2. t \in Tasks /\ phase \in [Tasks -> Phases] /\ "ready" \in Phases
  BY TasksAre DEF ReviewInv, StateOK, Phases
<1> HIDE DEF t
<1>3. phase' = [phase EXCEPT ![t] = "ready"]
  BY <1>1, <1>2
<1>4. Recorded(t, "ready")
  BY <1>1, <1>3 DEF Recorded
<1> QED BY <1>1, <1>2, <1>4, RecordKeeps DEF t

(* The promotion of another run disturbs the baselines alone.              *)
LEMMA OthersKeep ==
  ASSUME ReviewInv, OthersCopy \/ OthersEnd
  PROVE  ReviewInv'
<1>1. /\ phase' = phase /\ tries' = tries /\ lane' = lane /\ run' = run /\ at' = at /\ verdict' = verdict
      /\ summary' = summary /\ found' = found /\ judged' = judged /\ retried' = retried
  BY DEF OthersCopy, OthersEnd, lifecycleVars, runVars, scriptVars, boundVars
<1>2. \A r \in Runs : PhaseOf(r)' = PhaseOf(r) /\ AtOf(r)' = AtOf(r) /\ AgainOf(r)' = AgainOf(r)
  BY <1>1 DEF PhaseOf, AtOf, AgainOf
<1>3. \A r \in Runs : RunOK(r)'
  BY <1>1, <1>2 DEF ReviewInv, RunOK
<1>4. \A r \in Runs : Promoting(r)' = Promoting(r)
  BY <1>2 DEF Promoting
<1>5. \A r \in Runs : AtOf(r)["promote"] = at[<<r, "promote">>]
  BY DEF AtOf, Kinds
<1>6. StateOK /\ BaselineOK /\ baseline \in [file : {"none", "own", "other"}, row : {"none", "own", "other"}]
  BY DEF ReviewInv, StateOK
<1>7. CASE OthersCopy
  <2>1. /\ others = "idle" /\ others' = "copied" /\ baseline' = [baseline EXCEPT !.file = "other"]
        /\ overlapped' = (overlapped \/ \E r \in Runs : at[<<r, "promote">>] = "copied")
    BY <1>7 DEF OthersCopy
  <2>2. /\ baseline' \in [file : {"none", "own", "other"}, row : {"none", "own", "other"}]
        /\ baseline'.file = "other" /\ baseline'.row = baseline.row
    BY <1>6, <2>1
  <2>3. overlapped' \in BOOLEAN
    BY <1>6, <2>1 DEF StateOK
  <2>4. StateOK'
    BY <1>1, <1>6, <2>2, <2>3 DEF StateOK
  <2>5. BaselineOK'
    BY <1>2, <1>5, <2>1, <2>2 DEF BaselineOK
  <2> QED BY <1>3, <2>4, <2>5 DEF ReviewInv
<1>8. CASE OthersEnd
  <2>1. /\ others = "copied" /\ overlapped' = overlapped
        /\ \/ others' = "committed" /\ baseline' = [baseline EXCEPT !.row = "other"]
           \/ others' = "given_up" /\ baseline' = baseline
    BY <1>8 DEF OthersEnd
  <2>2. /\ baseline' \in [file : {"none", "own", "other"}, row : {"none", "own", "other"}]
        /\ baseline'.file = baseline.file
        /\ \/ others' = "committed" /\ baseline'.row = "other"
           \/ others' = "given_up" /\ baseline'.row = baseline.row
    BY <1>6, <2>1
  <2>3. StateOK'
    BY <1>1, <1>6, <2>1, <2>2 DEF StateOK
  <2>4. BaselineOK'
    BY <1>2, <1>6, <2>1, <2>2 DEF BaselineOK
  <2> QED BY <1>3, <2>3, <2>4 DEF ReviewInv
<1> QED BY <1>7, <1>8

(* The steps of a run, taken together.                                     *)
LEMMA RunStepKeeps ==
  ASSUME ReviewInv, NEW r \in Runs, StepOK(r), BaselineOK'
  PROVE  ReviewInv'
<1>1. \A s \in Runs : RunOK(s)
  BY DEF ReviewInv
<1>2. \A s \in Runs : RunOK(s)'
  BY <1>1, Elsewhere DEF StepOK
<1> QED BY <1>2 DEF ReviewInv, StepOK

(* Every run starts with none of its tasks.                                *)
LEMMA InitOK == ReviewInit => ReviewInv
<1> SUFFICES ASSUME ReviewInit PROVE ReviewInv
  OBVIOUS
<1>1. /\ phase = [t \in Tasks |-> "absent"] /\ tries = [t \in Tasks |-> 0]
      /\ lane \in [Runs -> Lanes] /\ run = [r \in Runs |-> "absent"] /\ at = [t \in Tasks |-> "start"]
      /\ verdict = [r \in Runs |-> "none"] /\ judged = [r \in Runs |-> "none"]
      /\ summary = [r \in Runs |-> [disk |-> NoSummary, row |-> NoSummary]] /\ found = [r \in Runs |-> {}]
      /\ others = "idle" /\ overlapped = FALSE /\ retried = {}
  BY ChainOK DEF ReviewInit, LifecycleInit
<1>2. PICK b \in {"none", "other"} : baseline = [file |-> b, row |-> b]
  BY DEF ReviewInit
<1>3. NoSummary \in Summaries
  BY ScriptsAssumption DEF NoSummary, Summaries
<1>4. \A r \in Runs : "absent" \in StatusesOf(lane[r]) /\ "absent" \in Statuses
  BY DEF StatusesOf, Statuses
<1>5. /\ phase \in [Tasks -> Phases] /\ tries \in [Tasks -> Nat] /\ at \in [Tasks -> Places]
      /\ verdict \in [Runs -> {"none", "proposed", "reviewed"}]
      /\ judged \in [Runs -> {"none", "passed", "warning", "failed"}]
      /\ found \in [Runs -> SUBSET Findings]
  BY <1>1 DEF Phases, Places
<1>6. summary \in [Runs -> [disk : Summaries, row : Summaries]]
  BY <1>1, <1>3
<1>7. /\ baseline \in [file : {"none", "own", "other"}, row : {"none", "own", "other"}]
      /\ baseline.file = b /\ baseline.row = b
  BY <1>2
<1>8. StateOK
  BY <1>1, <1>4, <1>5, <1>6, <1>7 DEF StateOK
<1>9. \A r \in Runs, k \in Kinds : PhaseOf(r)[k] = "absent" /\ AtOf(r)[k] = "start"
  BY <1>1, TasksAre DEF PhaseOf, AtOf
<1>10. BaselineOK
  <2>1. "promote" \in Kinds
    BY DEF Kinds
  <2> QED BY <1>1, <1>7, <1>9, <2>1 DEF BaselineOK
<1>11. ASSUME NEW r \in Runs PROVE RunOK(r)
  <2>1. lane[r] \in Lanes /\ KindsOf(lane[r]) \subseteq Kinds /\ First(lane[r]) \in Kinds /\ Judge(lane[r]) \in Kinds
    BY <1>1, KindsOK, EndsOK
  <2>2. TasksFine(lane[r], PhaseOf(r), AtOf(r))
    BY <1>9 DEF TasksFine
  <2>3. Story(lane[r], "absent", PhaseOf(r), AtOf(r))
    <3>1. \A k \in KindsOf(lane[r]) : Final[k] # "absent" /\ (k \in Scripted => Running[k] # "absent")
      BY <2>1, KindsOK
    <3> QED BY <1>9, <2>1, <3>1 DEF Story, InOrder
  <2>4. Judgement(lane[r], PhaseOf(r), AtOf(r), summary[r], found[r], judged[r], verdict[r], AgainOf(r))
    BY <1>9, <2>1 DEF Judgement
  <2> QED BY <1>1, <2>2, <2>3, <2>4 DEF RunOK
<1> QED BY <1>8, <1>10, <1>11 DEF ReviewInv

(* Every step keeps the invariant.                                         *)
LEMMA StepKeeps == ReviewInv /\ [Next]_vars => ReviewInv'
<1> SUFFICES ASSUME ReviewInv, [Next]_vars PROVE ReviewInv'
  OBVIOUS
<1>1. StateOK /\ BaselineOK /\ \A r \in Runs : RunOK(r)
  BY DEF ReviewInv
<1>2. ASSUME NEW r \in Runs, StartRun(r) \/ ReviewFinding(r) \/ RequestPromotion(r)
      PROVE  ReviewInv'
  <2>1. /\ StepOK(r) /\ UNCHANGED baselineVars /\ AtOf(r)' = AtOf(r)
        /\ Promoting(r) => Promoting(r)'
    <3>1. CASE StartRun(r)
      BY <1>1, <3>1, StartRunKeeps
    <3>2. CASE ReviewFinding(r)
      <4>1. StepOK(r) /\ UNCHANGED baselineVars /\ PhaseOf(r)' = PhaseOf(r) /\ AtOf(r)' = AtOf(r)
        BY <1>1, <3>2, ReviewFindingKeeps
      <4> QED BY <4>1 DEF Promoting
    <3>3. CASE RequestPromotion(r)
      BY <1>1, <3>3, RequestKeeps
    <3> QED BY <1>2, <3>1, <3>2, <3>3
  <2>2. \A s \in Runs : s # r => Untouched(s)
    BY <2>1 DEF StepOK
  <2>3. BaselineOK'
    BY <1>1, <2>1, <2>2, BaselineKept
  <2> QED BY <2>1, <2>3, RunStepKeeps
<1>3. ASSUME NEW t \in Tasks, TaskStep(t) \/ WorkerDies(t) \/ Retry(t)
      PROVE  ReviewInv'
  <2>1. PICK r \in Runs, k \in Kinds : t = <<r, k>>
    BY TasksAre
  <2>2. t[1] = r /\ t[2] = k
    BY <2>1
  <2>3. ASSUME StepOK(r), UNCHANGED baselineVars, Promoting(r) => Promoting(r)',
               AtOf(r)'["promote"] = "copied" => AtOf(r)["promote"] = "copied"
        PROVE  ReviewInv'
    <3>1. \A s \in Runs : s # r => Untouched(s)
      BY <2>3 DEF StepOK
    <3>2. BaselineOK'
      BY <1>1, <2>3, <3>1, BaselineKept
    <3> QED BY <2>3, <3>2, RunStepKeeps
  <2>4. CASE Claim(t)
    BY <1>1, <2>1, <2>3, <2>4, ClaimKeeps
  <2>5. CASE Begin(r, k)
    BY <1>1, <2>3, <2>5, BeginKeeps
  <2>6. CASE EndScript(r, k)
    BY <1>1, <2>3, <2>6, EndScriptKeeps
  <2>7. CASE CopyBaseline(r)
    BY <2>7, CopyBaselineKeeps, RunStepKeeps
  <2>8. CASE Finish(r, k)
    BY <2>8, FinishKeeps, RunStepKeeps
  <2>9. CASE Complete(t)
    BY <2>1, <2>9, CompleteKeeps, RunStepKeeps
  <2>10. CASE FailAttempt(t)
    BY <2>1, <2>10, FailAttemptKeeps, RunStepKeeps
  <2>11. CASE WorkerDies(t)
    BY <2>1, <2>11, WorkerDiesKeeps, RunStepKeeps
  <2>12. CASE Retry(t)
    BY <1>1, <2>1, <2>3, <2>12, RetryKeeps
  <2> QED BY <1>3, <2>2, <2>4, <2>5, <2>6, <2>7, <2>8, <2>9, <2>10, <2>11, <2>12 DEF TaskStep
<1>4. CASE OthersCopy \/ OthersEnd
  BY <1>4, OthersKeep
<1>5. CASE UNCHANGED vars
  <2>1. /\ phase' = phase /\ tries' = tries /\ lane' = lane /\ run' = run /\ at' = at /\ verdict' = verdict
        /\ summary' = summary /\ found' = found /\ judged' = judged /\ retried' = retried
        /\ baseline' = baseline /\ others' = others /\ overlapped' = overlapped
    BY <1>5 DEF vars, lifecycleVars, reviewVars, runVars, scriptVars, baselineVars, boundVars
  <2>2. \A r \in Runs : PhaseOf(r)' = PhaseOf(r) /\ AtOf(r)' = AtOf(r) /\ AgainOf(r)' = AgainOf(r)
    BY <2>1 DEF PhaseOf, AtOf, AgainOf
  <2>3. \A r \in Runs : RunOK(r)'
    BY <1>1, <2>1, <2>2 DEF RunOK
  <2>4. StateOK'
    BY <1>1, <2>1 DEF StateOK
  <2>5. BaselineOK'
    BY <1>1, <2>1, <2>2 DEF BaselineOK, Promoting
  <2> QED BY <2>3, <2>4, <2>5 DEF ReviewInv
<1> QED BY <1>2, <1>3, <1>4, <1>5 DEF Next

-----------------------------------------------------------------------------
(* What the invariant says *)

(* The tasks of a run are those of its chain, by their kinds.              *)
LEMMA TasksByKind ==
  ASSUME StateOK, NEW r \in Runs
  PROVE  /\ lane[r] \in Lanes /\ TasksOf(r) = {<<r, k>> : k \in KindsOf(lane[r])}
         /\ \A i \in 1 .. Len(ChainOf(r)) : /\ ChainOf(r)[i] \in KindsOf(lane[r]) /\ No[ChainOf(r)[i]] = i
                                            /\ i \in Nat
         /\ \A k \in KindsOf(lane[r]) : No[k] \in 1 .. Len(ChainOf(r)) /\ ChainOf(r)[No[k]] = k
<1>1. lane[r] \in Lanes
  BY DEF StateOK
<1> QED BY <1>1, ChainOK DEF TasksOf, ChainOf

(* Progress belongs to attempts.                                           *)
LEMMA ShapeOK == ReviewInv => Shape
<1> SUFFICES ASSUME ReviewInv PROVE Shape
  OBVIOUS
<1>0. StateOK /\ \A r \in Runs : RunOK(r)
  BY DEF ReviewInv
<1>1. run \in [Runs -> {"absent", "planned", "failed"}
                         \cup {Running[k] : k \in DOMAIN Running} \cup {Final[k] : k \in DOMAIN Final}]
  <2>1. Statuses \subseteq {"absent", "planned", "failed"}
                             \cup {Running[k] : k \in DOMAIN Running} \cup {Final[k] : k \in DOMAIN Final}
    <3>1. \A l \in Lanes : KindsOf(l) \subseteq DOMAIN Final
      BY KindsOK, ScriptedOK
    <3> QED BY <3>1 DEF Statuses, StatusesOf, Lanes
  <2> QED BY <1>0, <2>1 DEF StateOK
<1>2. ASSUME NEW t \in Tasks, at[t] # "start" PROVE phase[t] = "active"
  <2>1. PICK r \in Runs, k \in Kinds : t = <<r, k>>
    BY TasksAre
  <2> QED BY <1>0, <1>2, <2>1, RunFacts
<1>3. ASSUME NEW r \in Runs, found[r] # {} PROVE \E t \in TasksOf(r) : at[t] = "scripted"
  <2>1. AtOf(r)[Judge(lane[r])] = "scripted"
    BY <1>0, <1>3 DEF RunOK
  <2>2. Judge(lane[r]) \in KindsOf(lane[r]) /\ Judge(lane[r]) \in Kinds
    BY <1>0, TasksByKind, EndsOK, KindsOK
  <2>3. at[<<r, Judge(lane[r])>>] = "scripted"
    BY <1>0, <2>1, <2>2, RunFacts
  <2>4. <<r, Judge(lane[r])>> \in TasksOf(r)
    BY <1>0, <2>2, TasksByKind
  <2> QED BY <2>3, <2>4
<1> QED BY <1>0, <1>1, <1>2, <1>3 DEF Shape, StateOK

(* What the status of a run claims, no task of it having been retried.     *)
LEMMA ClaimsOK ==
  ASSUME StateOK, NEW r \in Runs, Story(lane[r], run[r], PhaseOf(r), AtOf(r)),
         NEW i \in 1 .. Len(ChainOf(r))
  PROVE  /\ i < Claimed(r) => PhaseOf(r)[ChainOf(r)[i]] = "succeeded"
         /\ PhaseOf(r)[ChainOf(r)[i]] = "succeeded" /\ run[r] # "failed" => i <= Claimed(r)
<1> DEFINE l == lane[r]  st == run[r]  p == PhaseOf(r)  c == ChainOf(r)  n == Len(ChainOf(r))
           over == {j \in 1 .. n : Final[c[j]] = st}
           now == {j \in 1 .. n : c[j] \in DOMAIN Running /\ Running[c[j]] = st}
<1>1. /\ l \in Lanes /\ \A j \in 1 .. n : c[j] \in KindsOf(l) /\ No[c[j]] = j /\ j \in Nat
      /\ \A k \in KindsOf(l) : No[k] \in 1 .. n /\ c[No[k]] = k
      /\ DOMAIN Running = Scripted
  BY TasksByKind, ScriptedOK
<1>2. Claimed(r) = CASE over # {} -> CHOOSE j \in over : TRUE
                     [] now # {}  -> (CHOOSE j \in now : TRUE) - 1
                     [] OTHER     -> 0
  BY DEF Claimed
<1>3. \A j, m \in over : j = m
  BY <1>1, KindsOK
<1>4. \A j, m \in now : j = m
  BY <1>1, KindsOK
<1>5. ASSUME over # {} PROVE now = {}
  <2>1. PICK j \in over : TRUE
    BY <1>5
  <2> QED BY <1>1, <2>1, KindsOK
<1> HIDE DEF c, n, l, st, p
<1>6. CASE over # {}
  <2>1. PICK j \in over : Claimed(r) = j
    BY <1>2, <1>5, <1>6
  <2>2. j \in 1 .. n /\ st = Final[c[j]] /\ i \in 1 .. n
    BY <2>1 DEF n
  <2>3. Reached(l, p, c[j])
    BY <1>1, <2>2 DEF Story, l, st, p
  <2>4. c[i] \in KindsOf(l) /\ No[c[i]] = i /\ No[c[j]] = j /\ i \in Nat /\ j \in Nat
    BY <1>1, <2>2
  <2>5. (i < j => p[c[i]] = "succeeded") /\ (i > j => p[c[i]] # "succeeded")
    BY <2>3, <2>4 DEF Reached
  <2>6. i < j \/ i > j \/ i = j
    BY <2>4
  <2>7. (i < j => p[c[i]] = "succeeded") /\ (p[c[i]] = "succeeded" => i <= j)
    BY <2>4, <2>5
  <2> QED BY <2>1, <2>7 DEF p, c
<1>7. CASE over = {} /\ now # {}
  <2>1. PICK j \in now : Claimed(r) = j - 1
    BY <1>2, <1>7
  <2>2. j \in 1 .. n /\ c[j] \in Scripted /\ st = Running[c[j]] /\ i \in 1 .. n
    BY <1>1, <2>1 DEF n
  <2>3. Reached(l, p, c[j]) /\ p[c[j]] # "succeeded"
    BY <1>1, <2>2 DEF Story, l, st, p
  <2>4. c[i] \in KindsOf(l) /\ No[c[i]] = i /\ No[c[j]] = j /\ i \in Nat /\ j \in Nat
    BY <1>1, <2>2
  <2>5. (i < j => p[c[i]] = "succeeded") /\ (i > j \/ i = j => p[c[i]] # "succeeded")
    BY <2>3, <2>4 DEF Reached
  <2>6. (i < j - 1 => p[c[i]] = "succeeded") /\ (p[c[i]] = "succeeded" => i <= j - 1)
    BY <2>4, <2>5
  <2> QED BY <2>1, <2>6 DEF p, c
<1>8. CASE over = {} /\ now = {}
  <2>1. Claimed(r) = 0
    BY <1>2, <1>8
  <2>2. \A k \in KindsOf(l) : st # Final[k] /\ (k \in Scripted => st # Running[k])
    BY <1>1, <1>8
  <2>3. st \in StatusesOf(l)
    BY DEF StateOK, st, l
  <2>4. st \in {"absent", "planned", "failed"}
    BY <1>1, <2>2, <2>3 DEF StatusesOf
  <2>5. c[i] \in KindsOf(l) /\ i \in Nat /\ ~(i < 0)
    BY <1>1 DEF n
  <2>6. st # "failed" => p[c[i]] # "succeeded"
    BY <2>4, <2>5 DEF Story, l, st, p
  <2> QED BY <2>1, <2>5, <2>6 DEF p, c, st
<1> QED BY <1>6, <1>7, <1>8

(* The status of a run and its tasks tell one story.                       *)
LEMMA StatusFollows == ReviewInv => StatusTellsTasks
<1> SUFFICES ASSUME ReviewInv PROVE StatusTellsTasks
  OBVIOUS
<1>0. StateOK /\ \A r \in Runs : RunOK(r)
  BY DEF ReviewInv
<1>1. ASSUME retried = {}, NEW r \in Runs
      PROVE  /\ run[r] = "failed" <=> \E t \in TasksOf(r) : phase[t] = "failed"
             /\ \A i \in 1 .. Len(ChainOf(r)) : LET t == <<r, ChainOf(r)[i]>> IN
                  /\ i < Claimed(r) => phase[t] = "succeeded"
                  /\ phase[t] = "succeeded" /\ run[r] # "failed" => i <= Claimed(r)
  <2>1. AgainOf(r) = {}
    BY <1>1 DEF AgainOf
  <2>2. Story(lane[r], run[r], PhaseOf(r), AtOf(r))
    BY <1>0, <2>1 DEF RunOK
  <2>3. /\ TasksOf(r) = {<<r, k>> : k \in KindsOf(lane[r])} /\ KindsOf(lane[r]) \subseteq Kinds
        /\ \A i \in 1 .. Len(ChainOf(r)) : ChainOf(r)[i] \in KindsOf(lane[r])
    BY <1>0, TasksByKind, KindsOK
  <2>4. \A k \in KindsOf(lane[r]) : PhaseOf(r)[k] = phase[<<r, k>>]
    BY <2>3 DEF PhaseOf
  <2>5. run[r] = "failed" <=> \E t \in TasksOf(r) : phase[t] = "failed"
    BY <2>2, <2>3, <2>4 DEF Story
  <2>6. \A i \in 1 .. Len(ChainOf(r)) :
          /\ i < Claimed(r) => PhaseOf(r)[ChainOf(r)[i]] = "succeeded"
          /\ PhaseOf(r)[ChainOf(r)[i]] = "succeeded" /\ run[r] # "failed" => i <= Claimed(r)
    BY <1>0, <2>2, ClaimsOK
  <2> QED BY <2>3, <2>4, <2>5, <2>6
<1> QED BY <1>1, ShapeOK DEF StatusTellsTasks

(* Runs are judged by what they show.                                      *)
LEMMA JudgementFollows == ReviewInv => JudgedAsCaptured
<1> SUFFICES ASSUME ReviewInv, NEW r \in Runs, <<r, ChainOf(r)[1]>> \notin retried
             PROVE  /\ phase[<<r, ChainOf(r)[1]>>] = "succeeded" =>
                         summary[r].row = summary[r].disk /\ summary[r].row # NoSummary
                    /\ phase[<<r, ChainOf(r)[2]>>] = "succeeded" =>
                         /\ judged[r] # "none"
                         /\ judged[r] = "passed" /\ lane[r] = "ui" =>
                              /\ summary[r].row.steps = Panels
                              /\ \A f \in summary[r].row.seen : Severity[f] = "warning"
                         /\ lane[r] = "ui" /\ summary[r].row.steps < Panels => verdict[r] # "none"
  BY DEF JudgedAsCaptured
<1>0. StateOK /\ RunOK(r) /\ lane[r] \in Lanes
  BY DEF ReviewInv, StateOK
<1>1. ChainOf(r)[1] = First(lane[r]) /\ ChainOf(r)[2] = Judge(lane[r])
  BY <1>0 DEF ChainOf, Chain, First, Judge, Lanes
<1>2. First(lane[r]) \in Kinds /\ Judge(lane[r]) \in Kinds
  BY <1>0, EndsOK, KindsOK
<1>3. First(lane[r]) \notin AgainOf(r)
  BY <1>1 DEF AgainOf
<1>4. /\ PhaseOf(r)[First(lane[r])] = phase[<<r, ChainOf(r)[1]>>]
      /\ PhaseOf(r)[Judge(lane[r])] = phase[<<r, ChainOf(r)[2]>>]
  BY <1>1, <1>2 DEF PhaseOf
<1>5. Judgement(lane[r], PhaseOf(r), AtOf(r), summary[r], found[r], judged[r], verdict[r], AgainOf(r))
  BY <1>0 DEF RunOK
<1> QED BY <1>3, <1>4, <1>5 DEF Judgement, Judged, OnRecord, Whole

(* The picture is that of the run named, or of one that explains it.       *)
LEMMA BaselineFollows == ReviewInv => BaselineAsPromoted
<1> SUFFICES ASSUME ReviewInv, ~overlapped, baseline.file # baseline.row
             PROVE  \/ baseline.file = "own" /\ \E r \in Runs : phase[<<r, "promote">>] \in {"ready", "active", "failed"}
                    \/ baseline.file = "other" /\ others \in {"copied", "given_up"}
  BY DEF BaselineAsPromoted
<1>1. /\ BaselineOK /\ baseline.file \in {"none", "own", "other"} /\ baseline.row \in {"none", "own", "other"}
  BY DEF ReviewInv, StateOK
<1>2. \A r \in Runs : Promoting(r) => phase[<<r, "promote">>] \in {"ready", "active", "failed"}
  <2>1. \A r \in Runs : PhaseOf(r)["promote"] = phase[<<r, "promote">>]
    BY DEF PhaseOf, Kinds
  <2> QED BY <2>1 DEF Promoting
<1>3. CASE baseline.file = "own"
  BY <1>1, <1>2, <1>3 DEF BaselineOK
<1>4. CASE baseline.file = "other"
  BY <1>1, <1>4 DEF BaselineOK
<1>5. CASE baseline.file = "none"
  BY <1>1, <1>5 DEF BaselineOK
<1> QED BY <1>1, <1>3, <1>4, <1>5

\* The verdict of a finding whose analysis is on record stays.
Kept(r) == lane[r] = "ui" /\ phase[<<r, "analyze">>] = "succeeded" /\ verdict[r] = "reviewed"
             => verdict'[r] = "reviewed"

(* Only an analysis takes a verdict back, and it is not on record then.    *)
LEMMA VerdictStays == ReviewInv /\ [Next]_vars => \A r \in Runs : Kept(r)
<1> SUFFICES ASSUME ReviewInv, [Next]_vars, NEW r \in Runs PROVE Kept(r)
  OBVIOUS
<1>1. verdict \in [Runs -> {"none", "proposed", "reviewed"}]
  BY DEF ReviewInv, StateOK
<1>2. ASSUME verdict' = verdict PROVE Kept(r)
  BY <1>2 DEF Kept
<1>3. ASSUME NEW s \in Runs, StartRun(s) \/ ReviewFinding(s) \/ RequestPromotion(s) PROVE Kept(r)
  <2>1. verdict' = verdict \/ verdict' = [verdict EXCEPT ![s] = "reviewed"]
    BY <1>3 DEF StartRun, ReviewFinding, RequestPromotion, reviewVars, runVars
  <2> QED BY <1>1, <2>1 DEF Kept
<1>4. ASSUME NEW s \in Runs, NEW k \in Kinds, Finish(s, k) PROVE Kept(r)
  <2>1. phase[<<s, k>>] = "active" /\ verdict' = VerdictAfter(s, k)
    BY <1>4 DEF Finish
  <2>2. CASE k = "analyze"
    <3>1. s = r => ~(phase[<<r, "analyze">>] = "succeeded")
      BY <2>1, <2>2
    <3>2. verdict' = [verdict EXCEPT ![s] = FindingsOf(s)]
      BY <2>1, <2>2 DEF VerdictAfter
    <3> QED BY <1>1, <3>1, <3>2 DEF Kept
  <2>3. CASE k # "analyze"
    BY <1>2, <2>1, <2>3 DEF VerdictAfter
  <2> QED BY <2>2, <2>3
<1>5. ASSUME NEW t \in Tasks, TaskStep(t) \/ WorkerDies(t) \/ Retry(t) PROVE Kept(r)
  <2>1. PICK s \in Runs, k \in Kinds : t = <<s, k>>
    BY TasksAre
  <2>2. t[1] = s /\ t[2] = k
    BY <2>1
  <2>3. Finish(s, k) \/ verdict' = verdict
    BY <1>5, <2>2 DEF TaskStep, Claim, Begin, EndScript, CopyBaseline, Complete, FailAttempt, WorkerDies,
                      Retry, reviewVars, runVars
  <2> QED BY <1>2, <1>4, <2>3
<1>6. CASE OthersCopy \/ OthersEnd
  BY <1>2, <1>6 DEF OthersCopy, OthersEnd, runVars
<1>7. CASE UNCHANGED vars
  BY <1>2, <1>7 DEF vars, reviewVars, runVars
<1> QED BY <1>3, <1>5, <1>6, <1>7 DEF Next

-----------------------------------------------------------------------------
(* Theorems *)

(* The runs of both lanes, their tasks and what the scripts left for them  *)
(* fit each other at every step of every executor.                         *)
THEOREM ReviewInvHolds == Spec => []ReviewInv
<1> QED BY InitOK, StepKeeps, PTL DEF Spec

(* The status of a run, written by the executors in transactions of their  *)
(* own, claims a stage ahead of the record of its tasks at most, and is    *)
(* failed exactly when one of them is.                                     *)
THEOREM StatusTellsTasksHolds == Spec => []StatusTellsTasks
<1> QED BY ReviewInvHolds, StatusFollows, PTL

(* A run is judged by what its capture shows: none passes that stopped     *)
(* early or saw an error, and one that stopped early has a finding.        *)
THEOREM JudgedAsCapturedHolds == Spec => []JudgedAsCaptured
<1> QED BY ReviewInvHolds, JudgementFollows, PTL

(* The picture of the baseline and the row that is active agree, but for   *)
(* a promotion under way, interrupted or failed, or two that overlapped.   *)
(* The runs of the model are one side of an overlap, others the other: the *)
(* pictures of two runs of the model are not told apart.                   *)
THEOREM BaselineAsPromotedHolds == Spec => []BaselineAsPromoted
<1> QED BY ReviewInvHolds, BaselineFollows, PTL

(* Once the analysis is on record, no step takes a verdict back.           *)
THEOREM VerdictsKeptHolds == Spec => VerdictsKept
<1>1. ReviewInv /\ [Next]_vars =>
        [\A r \in Runs :
           lane[r] = "ui" /\ phase[<<r, "analyze">>] = "succeeded" /\ verdict[r] = "reviewed"
             => verdict'[r] = "reviewed"]_vars
  BY VerdictStays DEF Kept
<1> QED BY <1>1, ReviewInvHolds, PTL DEF Spec, VerdictsKept

(* Each step of the lanes takes one task, or those of a new run, a step    *)
(* through their lifecycle, or leaves them all alone.                      *)
LEMMA LifecycleStep == StateOK /\ [Next]_vars => [LifecycleNext]_lifecycleVars
<1> SUFFICES ASSUME StateOK, [Next]_vars PROVE [LifecycleNext]_lifecycleVars
  OBVIOUS
<1>1. ASSUME NEW r \in Runs, StartRun(r) PROVE LifecycleNext
  <2>1. TasksOf(r) \ {<<r, "promote">>} \in SUBSET Tasks
    <3>1. /\ TasksOf(r) = {<<r, k>> : k \in KindsOf(lane[r])}
          /\ KindsOf(lane[r]) \subseteq Kinds
      BY TasksByKind DEF KindsOf, Kinds
    <3>2. QED
      BY <3>1, TasksAre
  <2>2. QED
    BY <1>1, <2>1 DEF StartRun, LifecycleNext
<1>2. ASSUME NEW r \in Runs, RequestPromotion(r) PROVE LifecycleNext
  <2>1. {<<r, "promote">>} \in SUBSET Tasks
    BY TasksAre DEF Kinds
  <2>2. QED
    BY <1>2, <2>1 DEF RequestPromotion, LifecycleNext
<1>3. ASSUME NEW t \in Tasks, Claim(t) \/ Complete(t) \/ FailAttempt(t) \/ Retry(t) PROVE LifecycleNext
  BY <1>3 DEF Claim, Complete, FailAttempt, Retry, LifecycleNext
<1>4. ASSUME NEW t \in Tasks, WorkerDies(t) PROVE LifecycleNext
  <2>1. {t} \in SUBSET Tasks
    OBVIOUS
  <2>2. QED
    BY <1>4, <2>1 DEF WorkerDies, LifecycleNext
<1>5. ASSUME NEW t \in Tasks,
             \/ Begin(t[1], t[2]) \/ EndScript(t[1], t[2])
             \/ CopyBaseline(t[1]) \/ Finish(t[1], t[2])
      PROVE  UNCHANGED lifecycleVars
  BY <1>5 DEF Begin, EndScript, CopyBaseline, Finish
<1>6. ASSUME NEW r \in Runs, ReviewFinding(r) PROVE UNCHANGED lifecycleVars
  BY <1>6 DEF ReviewFinding
<1>7. CASE OthersCopy \/ OthersEnd
  BY <1>7 DEF OthersCopy, OthersEnd
<1>8. CASE UNCHANGED vars
  BY <1>8 DEF vars
<1>9. QED
  BY <1>1, <1>2, <1>3, <1>4, <1>5, <1>6, <1>7, <1>8 DEF Next, TaskStep

(* The lanes do with their tasks what the queue is proved to let them do,  *)
(* and nothing else.                                                       *)
THEOREM ReviewsFollowLifecycle == Spec => LifecycleSpec
<1>1. ReviewInit => LifecycleInit
  BY DEF ReviewInit
<1>2. ReviewInv => StateOK
  BY DEF ReviewInv
<1>3. QED
  BY <1>1, <1>2, LifecycleStep, ReviewInvHolds, PTL DEF Spec, LifecycleSpec
=============================================================================
