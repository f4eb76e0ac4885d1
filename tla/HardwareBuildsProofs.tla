------------------------ MODULE HardwareBuildsProofs ------------------------
(***************************************************************************)
(* Proofs about HardwareBuilds for any number of builds, units, workers    *)
(* and publish requests.                                                   *)
(*                                                                         *)
(* Every step of the lane is one of the queue or leaves it alone, so that  *)
(* what is proved of the queue holds here: a task that executes is leased. *)
(* The invariant is about one build and its tasks (Story): a stage that    *)
(* was ever begun has every earlier stage recorded behind it, hence one    *)
(* stage at most is on its way, and the build's status is that of the      *)
(* stage that committed last.  A registration is asked for when a status   *)
(* shows the validation's commit: the first three stages are recorded      *)
(* then and the validation was attempted; whether it is recorded when the  *)
(* registration runs depends on the predecessor the request picked.  What  *)
(* a stage leaves on a unit is there as soon as its executor has           *)
(* committed, recorded or not, while no other build is started with that   *)
(* unit (Parts).                                                           *)
(***************************************************************************)
EXTENDS HardwareBuilds, AgentTaskQueueProofs

(* Where a task stands in the order of its build: the four stages, then    *)
(* the registrations.                                                      *)
Rank(t) == IF KindOf[t] = "register" THEN 5 ELSE StageOf(t)
OfBuild(b) == {t \in Tasks : BuildOf[t] = b}

(* A build in status s and its tasks in the statuses st, attempted at      *)
(* times, tell one story.                                                  *)
Story(b, s, st, at) ==
  /\ \A t \in OfBuild(b) : /\ s = "absent" => st[t] = "absent"
                           /\ s # "absent" /\ Rank(t) < 5 => st[t] # "absent"
  /\ \A t \in OfBuild(b) : st[t] \in Begun => at[t] > 0
  /\ \A t, u \in OfBuild(b) :
       Rank(t) < 5 /\ st[t] \in Begun /\ Rank(u) < Rank(t) => st[u] = "succeeded"
  /\ \A g, t \in OfBuild(b) :
       Rank(g) = 5 /\ st[g] # "absent" => /\ Rank(t) < 4 => st[t] = "succeeded"
                                          /\ Rank(t) = 4 => at[t] > 0
  /\ \A g, d \in OfBuild(b) :
       Rank(g) = 5 /\ st[g] \in Begun /\ d \in DependsOn[g] => st[d] = "succeeded"
  /\ \A t \in OfBuild(b) : Rank(t) < 5 /\ Rank(t) < Reached(s) => st[t] = "succeeded"
  /\ \A t \in OfBuild(b) : Rank(t) < 5 /\ Rank(t) <= Reached(s) => at[t] > 0
  /\ \A t \in OfBuild(b) :
       Rank(t) < 5 /\ st[t] = "succeeded" /\ s # "failed" => Rank(t) <= Reached(s)
  /\ s = "failed" => \E t \in OfBuild(b) : Rank(t) < 5 /\ st[t] = "failed"
  /\ \A t \in OfBuild(b) :
       Rank(t) < 5 /\ st[t] = "failed" =>
         \/ s = "failed"
         \/ /\ Rank(t) = 4 /\ s \in Decided
            /\ \E g \in OfBuild(b) : Rank(g) = 5 /\ st[g] \in Settled /\ t \notin DependsOn[g]
  /\ s \in Decided => \E g \in OfBuild(b) : Rank(g) = 5 /\ st[g] \in Settled

Kinds == {"prepare", "reserve", "assemble", "validate", "register"}

(* The ranks of the kinds.                                                 *)
LEMMA RankOf ==
  ASSUME NEW t \in Tasks
  PROVE  /\ Rank(t) \in 1..5
         /\ KindOf[t] = "prepare" <=> Rank(t) = 1
         /\ KindOf[t] = "reserve" <=> Rank(t) = 2
         /\ KindOf[t] = "assemble" <=> Rank(t) = 3
         /\ KindOf[t] = "validate" <=> Rank(t) = 4
         /\ KindOf[t] = "register" <=> Rank(t) = 5
         /\ KindOf[t] # "register" => Rank(t) = StageOf(t) /\ KindOf[t] = Pipeline[Rank(t)]
<1>1. KindOf[t] \in Kinds
  BY BuildAssumption DEF Kinds
<1>2. /\ Pipeline[1] = "prepare" /\ Pipeline[2] = "reserve"
      /\ Pipeline[3] = "assemble" /\ Pipeline[4] = "validate"
  BY DEF Pipeline
<1>3. ASSUME NEW i \in 1..4, KindOf[t] = Pipeline[i] PROVE StageOf(t) = i
  <2>1. \A j \in 1..4 : Pipeline[j] = KindOf[t] <=> j = i
    BY <1>2, <1>3
  <2>2. QED
    BY <2>1 DEF StageOf
<1>4. CASE KindOf[t] = "register"
  BY <1>4 DEF Rank
<1>5. ASSUME KindOf[t] # "register"
      PROVE  \E i \in 1..4 : KindOf[t] = Pipeline[i] /\ Rank(t) = i /\ StageOf(t) = i
  <2>1. \E i \in 1..4 : KindOf[t] = Pipeline[i]
    BY <1>1, <1>2, <1>5 DEF Kinds
  <2>2. QED
    BY <2>1, <1>3, <1>5 DEF Rank
<1>6. QED
  BY <1>2, <1>4, <1>5

(* Two tasks of one stage of one build are one task.                       *)
LEMMA OneTaskPerStage ==
  ASSUME NEW b \in Builds, NEW t \in OfBuild(b), NEW u \in OfBuild(b),
         Rank(t) = Rank(u), Rank(t) < 5
  PROVE  t = u
<1>1. /\ t \in Tasks /\ u \in Tasks /\ BuildOf[t] = b /\ BuildOf[u] = b
      /\ KindOf[t] # "register" /\ KindOf[u] # "register"
      /\ Rank(t) \in 1..4 /\ KindOf[t] = Pipeline[Rank(t)] /\ KindOf[u] = Pipeline[Rank(t)]
  BY RankOf DEF OfBuild
<1>2. t \in PipelineTasks(b) /\ u \in PipelineTasks(b)
  BY <1>1 DEF PipelineTasks
<1>3. PICK v \in PipelineTasks(b) :
        \A x \in PipelineTasks(b) : KindOf[x] = Pipeline[Rank(t)] <=> x = v
  BY <1>1, PipelineAssumption
<1>4. QED
  BY <1>1, <1>2, <1>3

(* Every stage of a build has a task.                                      *)
LEMMA EveryStageHasTask ==
  ASSUME NEW b \in Builds, NEW i \in 1..4
  PROVE  \E t \in OfBuild(b) : Rank(t) = i
<1>1. PICK t \in PipelineTasks(b) : KindOf[t] = Pipeline[i]
  BY PipelineAssumption
<1>2. t \in OfBuild(b) /\ t \in Tasks /\ KindOf[t] # "register"
  BY <1>1 DEF PipelineTasks, OfBuild
<1>3. Rank(t) \in 1..4 /\ KindOf[t] = Pipeline[Rank(t)]
  BY <1>2, RankOf
<1>4. Rank(t) = i
  BY <1>1, <1>3 DEF Pipeline
<1>5. QED
  BY <1>2, <1>4

(* A stage depends on the one before it.                                   *)
LEMMA PredecessorIsPrerequisite ==
  ASSUME NEW b \in Builds, NEW t \in OfBuild(b), Rank(t) > 1, Rank(t) < 5
  PROVE  \E d \in DependsOn[t] : d \in OfBuild(b) /\ Rank(d) = Rank(t) - 1
<1>1. t \in Tasks /\ BuildOf[t] = b /\ Rank(t) \in 2..4
  BY RankOf DEF OfBuild
<1>2. PICK d \in OfBuild(b) : Rank(d) = Rank(t) - 1
  BY <1>1, EveryStageHasTask
<1>3. d \in Tasks /\ BuildOf[d] = b
  BY DEF OfBuild
<1>4. KindOf[t] # "register" /\ KindOf[d] # "register"
  BY <1>1, <1>2, <1>3, RankOf
<1>5. t \in PipelineTasks(b) /\ d \in PipelineTasks(b)
  BY <1>1, <1>3, <1>4 DEF PipelineTasks
<1>6. Rank(d) \in 1..3 /\ Rank(t) = Rank(d) + 1
  BY <1>1, <1>2
<1>7. KindOf[d] = Pipeline[Rank(d)] /\ KindOf[t] = Pipeline[Rank(d) + 1]
  BY <1>1, <1>3, <1>4, <1>6, RankOf
<1>8. d \in DependsOn[t]
  BY <1>5, <1>6, <1>7, PipelineAssumption
<1>9. QED
  BY <1>2, <1>8

(* How far each status of a build reaches.                                 *)
LEMMA ReachedOf ==
  /\ \A s \in {"absent", "planned", "failed"} : Reached(s) = 0
  /\ \A s \in PublishStates : Reached(s) = 4
  /\ \A t \in Tasks : KindOf[t] # "register" =>
       /\ Reached(StageStatus[KindOf[t]]) = Rank(t)
       /\ StageStatus[KindOf[t]] \in BuildStatuses
       /\ StageStatus[KindOf[t]] \notin {"absent", "planned", "failed"} \cup Decided
  /\ Reached("bench_validated") = 4
<1>1. /\ StageStatus[Pipeline[1]] = "prepared" /\ StageStatus[Pipeline[2]] = "parts_reserved"
      /\ StageStatus[Pipeline[3]] = "assembled" /\ StageStatus[Pipeline[4]] = "bench_validated"
      /\ \A i \in 1..4 : Pipeline[i] \in DOMAIN StageStatus
  BY DEF StageStatus, Pipeline
<1>2. ASSUME NEW s \in {"absent", "planned", "failed"} PROVE Reached(s) = 0
  <2>1. {i \in 1..4 : StageStatus[Pipeline[i]] = s} = {}
    BY <1>1
  <2>2. QED
    BY <2>1 DEF Reached, PublishStates, Decided
<1>3. ASSUME NEW s \in PublishStates PROVE Reached(s) = 4
  BY DEF Reached
<1>4. ASSUME NEW i \in 1..4
      PROVE  /\ Reached(StageStatus[Pipeline[i]]) = i
             /\ StageStatus[Pipeline[i]] \notin {"absent", "planned", "failed"} \cup Decided
  <2>1. \A j \in 1..4 : StageStatus[Pipeline[j]] = StageStatus[Pipeline[i]] <=> j = i
    BY <1>1
  <2>2. StageStatus[Pipeline[i]] \notin PublishStates
    BY <1>1 DEF PublishStates, Decided
  <2>3. {j \in 1..4 : StageStatus[Pipeline[j]] = StageStatus[Pipeline[i]]} = {i}
    BY <2>1
  <2>4. Reached(StageStatus[Pipeline[i]]) = i
    BY <2>2, <2>3 DEF Reached
  <2>5. StageStatus[Pipeline[i]] \notin {"absent", "planned", "failed"} \cup Decided
    BY <1>1 DEF Decided
  <2>6. QED
    BY <2>4, <2>5
<1>5. ASSUME NEW t \in Tasks, KindOf[t] # "register"
      PROVE  /\ Reached(StageStatus[KindOf[t]]) = Rank(t)
             /\ StageStatus[KindOf[t]] \in BuildStatuses
             /\ StageStatus[KindOf[t]] \notin {"absent", "planned", "failed"} \cup Decided
  <2>1. Rank(t) \in 1..4 /\ KindOf[t] = Pipeline[Rank(t)]
    BY <1>5, RankOf
  <2>2. StageStatus[KindOf[t]] \in BuildStatuses
    BY <2>1, <1>1 DEF BuildStatuses
  <2>3. QED
    BY <2>1, <2>2, <1>4
<1>6. Reached("bench_validated") = 4
  BY <1>1, <1>4
<1>7. QED
  BY <1>2, <1>3, <1>5, <1>6

(* A build and its four tasks are created together.                        *)
LEMMA StoryCreated ==
  ASSUME NEW b \in Builds, NEW st, NEW st2, NEW at, Story(b, "absent", st, at),
         \A t \in OfBuild(b) : st2[t] = IF KindOf[t] = "register" THEN st[t] ELSE "queued"
  PROVE  Story(b, "planned", st2, at)
<1>1. \A t \in OfBuild(b) : /\ Rank(t) \in 1..5
                            /\ st2[t] = IF Rank(t) = 5 THEN "absent" ELSE "queued"
  BY RankOf DEF Story, OfBuild
<1>2. Reached("planned") = 0
  BY ReachedOf
<1>3. QED
  BY <1>1, <1>2 DEF Story, Begun, Decided

(* A publish request adds a task to a build that reaches the validation.   *)
LEMMA StoryRequested ==
  ASSUME NEW b \in Builds, NEW st, NEW st2, NEW s, NEW at, Story(b, s, st, at),
         s \in {"bench_validated", "runtime_publish_pending"},
         NEW g \in OfBuild(b), Rank(g) = 5, st[g] = "absent", st2[g] = "queued",
         \A t \in OfBuild(b) \ {g} : st2[t] = st[t]
  PROVE  Story(b, "runtime_publish_pending", st2, at)
<1>1. \A t \in OfBuild(b) : Rank(t) \in 1..5
  BY RankOf DEF OfBuild
<1>2. Reached(s) = 4 /\ Reached("runtime_publish_pending") = 4
  BY ReachedOf DEF PublishStates
<1>3. /\ \A t \in OfBuild(b) : Rank(t) < 5 => st2[t] = st[t]
      /\ \A t \in OfBuild(b) : st2[t] \in Begun => st2[t] = st[t]
  BY DEF Begun
<1>4. \A t \in OfBuild(b) : /\ Rank(t) < 4 => st[t] = "succeeded"
                            /\ Rank(t) < 5 => at[t] > 0 /\ st[t] # "failed"
  BY <1>1, <1>2 DEF Story, Decided
<1>5. QED
  BY <1>1, <1>2, <1>3, <1>4 DEF Story, Decided

(* What is leased may go back to the queue.                                *)
GivenBack(b, st, st2) ==
  \A t \in OfBuild(b) : \/ st2[t] = st[t]
                        \/ st[t] = "leased" /\ st2[t] = "queued"

(* Leases that are given back leave the story as it is.                    *)
LEMMA StoryRequeued ==
  ASSUME NEW b \in Builds, NEW st, NEW st2, NEW s, NEW at, Story(b, s, st, at),
         GivenBack(b, st, st2)
  PROVE  Story(b, s, st2, at)
<1>1. \A t \in OfBuild(b) : /\ st2[t] \in Begun => st[t] \in Begun
                            /\ st2[t] = "succeeded" <=> st[t] = "succeeded"
                            /\ st2[t] = "failed" <=> st[t] = "failed"
                            /\ st2[t] = "absent" <=> st[t] = "absent"
                            /\ st2[t] \in Settled <=> st[t] \in Settled
  BY DEF Begun, GivenBack, Settled
<1>2. QED
  BY <1>1 DEF Story

(* A claimed task has its prerequisites recorded; a stage finds every      *)
(* earlier one, since it depends on the one before it.                     *)
LEMMA StoryClaimed ==
  ASSUME NEW b \in Builds, NEW st, NEW st2, NEW s, NEW at, NEW at2, Story(b, s, st, at),
         NEW t \in OfBuild(b), st[t] = "queued", st2[t] = "leased", at2[t] > 0,
         \A d \in DependsOn[t] : st[d] = "succeeded",
         \A u \in OfBuild(b) \ {t} : st2[u] = st[u] /\ at2[u] = at[u]
  PROVE  Story(b, s, st2, at2)
<1>1. \A u \in OfBuild(b) : Rank(u) \in 1..5
  BY RankOf DEF OfBuild
<1>2. ASSUME NEW u \in OfBuild(b), Rank(t) < 5, Rank(u) < Rank(t) PROVE st[u] = "succeeded"
  <2>1. Rank(t) > 1
    BY <1>1, <1>2
  <2>2. PICK d \in DependsOn[t] : d \in OfBuild(b) /\ Rank(d) = Rank(t) - 1
    BY <1>2, <2>1, PredecessorIsPrerequisite
  <2>3. st[d] = "succeeded"
    OBVIOUS
  <2>4. CASE Rank(u) = Rank(d)
    <3>1. u = d
      BY <1>1, <1>2, <2>2, <2>4, OneTaskPerStage
    <3>2. QED
      BY <2>3, <3>1
  <2>5. CASE Rank(u) < Rank(d)
    <3>1. Rank(d) < 5
      BY <1>1, <1>2, <2>2
    <3>2. QED
      BY <2>2, <2>3, <2>5, <3>1 DEF Story, Begun
  <2>6. QED
    BY <1>1, <1>2, <2>2, <2>4, <2>5
<1>3. /\ s # "absent"
      /\ \A u \in OfBuild(b) : /\ st2[u] = "succeeded" <=> st[u] = "succeeded"
                               /\ st2[u] = "failed" <=> st[u] = "failed"
                               /\ st2[u] = "absent" <=> st[u] = "absent"
                               /\ st2[u] \in Settled <=> st[u] \in Settled
                               /\ at[u] > 0 => at2[u] > 0
  BY DEF Story, Settled
<1>4. \A u, v \in OfBuild(b) :
        Rank(u) < 5 /\ st2[u] \in Begun /\ Rank(v) < Rank(u) => st2[v] = "succeeded"
  <2> SUFFICES ASSUME NEW u \in OfBuild(b), NEW v \in OfBuild(b),
                      Rank(u) < 5, st2[u] \in Begun, Rank(v) < Rank(u)
               PROVE  st[v] = "succeeded"
    BY <1>3
  <2>1. QED
    BY <1>2 DEF Story
<1>5. \A g, d \in OfBuild(b) :
        Rank(g) = 5 /\ st2[g] \in Begun /\ d \in DependsOn[g] => st2[d] = "succeeded"
  <2> SUFFICES ASSUME NEW g \in OfBuild(b), NEW d \in OfBuild(b),
                      Rank(g) = 5, st2[g] \in Begun, d \in DependsOn[g]
               PROVE  st[d] = "succeeded"
    BY <1>3
  <2>1. CASE g = t
    BY <2>1
  <2>2. CASE g # t
    BY <2>2 DEF Story
  <2>3. QED
    BY <2>1, <2>2
<1>6. \A u \in OfBuild(b) : st2[u] \in Begun => at2[u] > 0
  BY DEF Story
<1>7. QED
  BY <1>3, <1>4, <1>5, <1>6 DEF Story

(* The story of a build depends on the rows of its own tasks alone.        *)
LEMMA StorySame ==
  ASSUME NEW b \in Builds, NEW st, NEW st2, NEW s, NEW at, NEW at2, Story(b, s, st, at),
         \A t \in OfBuild(b) : st2[t] = st[t] /\ at2[t] = at[t]
  PROVE  Story(b, s, st2, at2)
BY DEF Story

(* While a stage is leased, the stages recorded are the ones before it.    *)
LEMMA LeasedStage ==
  ASSUME NEW b \in Builds, NEW st, NEW s, NEW at, Story(b, s, st, at),
         NEW t \in OfBuild(b), st[t] = "leased", Rank(t) < 5
  PROVE  /\ s # "absent"
         /\ \A u \in OfBuild(b) :
              /\ Rank(u) \in 1..5
              /\ st[u] # "absent" \/ Rank(u) = 5
              /\ Rank(u) < Rank(t) => st[u] = "succeeded"
              /\ Rank(u) > Rank(t) /\ Rank(u) < 5 => st[u] \notin Begun
              /\ Rank(u) = 5 /\ st[u] # "absent" => Rank(t) = 4
              /\ Rank(u) = 5 /\ st[u] \in Begun => t \notin DependsOn[u]
              /\ Rank(u) = Rank(t) => u = t
<1>1. \A u \in OfBuild(b) : Rank(u) \in 1..5
  BY RankOf DEF OfBuild
<1>2. \A u \in OfBuild(b) : Rank(u) = Rank(t) => u = t
  BY OneTaskPerStage
<1>3. ASSUME NEW u \in OfBuild(b), Rank(u) = 5, st[u] # "absent" PROVE Rank(t) = 4
  BY <1>1, <1>3 DEF Story
<1>4. ASSUME NEW u \in OfBuild(b), Rank(u) = 5, st[u] \in Begun PROVE t \notin DependsOn[u]
  BY <1>4 DEF Story
<1>5. QED
  BY <1>1, <1>2, <1>3, <1>4 DEF Story, Begun

(* A stage that commits or is recorded makes its status the build's.       *)
LEMMA StoryAdvanced ==
  ASSUME NEW b \in Builds, NEW st, NEW st2, NEW s, NEW at, Story(b, s, st, at),
         NEW t \in OfBuild(b), st[t] = "leased", Rank(t) < 5,
         st2[t] \in {"leased", "succeeded"},
         \A u \in OfBuild(b) \ {t} : st2[u] = st[u]
  PROVE  Story(b, StageStatus[KindOf[t]], st2, at)
<1> DEFINE r == StageStatus[KindOf[t]]
<1>1. t \in Tasks /\ KindOf[t] # "register"
  BY RankOf DEF OfBuild
<1>2. /\ Reached(r) = Rank(t)
      /\ r \notin {"absent", "planned", "failed"} \cup Decided
  BY <1>1, ReachedOf
<1>3. /\ s # "absent"
      /\ \A u \in OfBuild(b) :
           /\ Rank(u) \in 1..5
           /\ st[u] # "absent" \/ Rank(u) = 5
           /\ Rank(u) < Rank(t) => st[u] = "succeeded"
           /\ Rank(u) > Rank(t) /\ Rank(u) < 5 => st[u] \notin Begun
           /\ Rank(u) = 5 /\ st[u] # "absent" => Rank(t) = 4
           /\ Rank(u) = 5 /\ st[u] \in Begun => t \notin DependsOn[u]
           /\ Rank(u) = Rank(t) => u = t
  BY LeasedStage
<1> HIDE DEF r
<1>4. \A u, v \in OfBuild(b) :
        Rank(u) < 5 /\ st2[u] \in Begun /\ Rank(v) < Rank(u) => st2[v] = "succeeded"
  BY <1>3
<1>5. /\ \A u \in OfBuild(b) : Rank(u) < 5 => st2[u] # "absent"
      /\ \A u \in OfBuild(b) : Rank(u) < Rank(t) => st2[u] = "succeeded"
      /\ \A u \in OfBuild(b) : Rank(u) < 5 /\ st2[u] = "succeeded" => Rank(u) <= Rank(t)
      /\ \A u \in OfBuild(b) : Rank(u) < 5 => st2[u] # "failed"
      /\ \A u \in OfBuild(b) : st2[u] \in Begun => at[u] > 0
  BY <1>3 DEF Begun, Story
<1>6. \A u \in OfBuild(b) : Rank(u) <= Rank(t) => at[u] > 0
  <2>1. at[t] > 0 /\ \A u \in OfBuild(b) : st[u] = "succeeded" => at[u] > 0
    BY DEF Story, Begun
  <2>2. QED
    BY <1>3, <2>1
<1>7. \A g, u \in OfBuild(b) :
        Rank(g) = 5 /\ st2[g] # "absent" => /\ Rank(u) < 4 => st2[u] = "succeeded"
                                            /\ Rank(u) = 4 => at[u] > 0
  BY <1>3, <1>5, <1>6
<1>8. \A g, d \in OfBuild(b) :
        Rank(g) = 5 /\ st2[g] \in Begun /\ d \in DependsOn[g] => st2[d] = "succeeded"
  <2> SUFFICES ASSUME NEW g \in OfBuild(b), NEW d \in OfBuild(b),
                      Rank(g) = 5, st2[g] \in Begun, d \in DependsOn[g]
               PROVE  st2[d] = "succeeded"
    OBVIOUS
  <2>1. st[g] \in Begun /\ d # t
    BY <1>3
  <2>2. QED
    BY <2>1 DEF Story
<1>9. Story(b, r, st2, at)
  BY <1>2, <1>4, <1>5, <1>6, <1>7, <1>8 DEF Story
<1>10. QED
  BY <1>9 DEF r

(* The last attempt of a stage fails the build.                            *)
LEMMA StoryFailed ==
  ASSUME NEW b \in Builds, NEW st, NEW st2, NEW s, NEW at, Story(b, s, st, at),
         NEW t \in OfBuild(b), st[t] = "leased", Rank(t) < 5, st2[t] = "failed",
         \A u \in OfBuild(b) \ {t} : st2[u] = st[u]
  PROVE  Story(b, "failed", st2, at)
<1>1. Reached("failed") = 0
  BY ReachedOf
<1>2. /\ s # "absent"
      /\ \A u \in OfBuild(b) :
           /\ Rank(u) \in 1..5
           /\ st[u] # "absent" \/ Rank(u) = 5
           /\ Rank(u) < Rank(t) => st[u] = "succeeded"
           /\ Rank(u) > Rank(t) /\ Rank(u) < 5 => st[u] \notin Begun
           /\ Rank(u) = 5 /\ st[u] # "absent" => Rank(t) = 4
           /\ Rank(u) = 5 /\ st[u] \in Begun => t \notin DependsOn[u]
           /\ Rank(u) = Rank(t) => u = t
  BY LeasedStage
<1>3. \A u, v \in OfBuild(b) :
        Rank(u) < 5 /\ st2[u] \in Begun /\ Rank(v) < Rank(u) => st2[v] = "succeeded"
  BY <1>2
<1>4. /\ \A u \in OfBuild(b) : Rank(u) < 5 => st2[u] # "absent"
      /\ \A u \in OfBuild(b) : st2[u] \in Begun => at[u] > 0
  BY <1>2 DEF Story, Begun
<1>5. \A g, u \in OfBuild(b) :
        Rank(g) = 5 /\ st2[g] # "absent" => /\ Rank(u) < 4 => st2[u] = "succeeded"
                                            /\ Rank(u) = 4 => at[u] > 0
  <2> SUFFICES ASSUME NEW g \in OfBuild(b), NEW u \in OfBuild(b),
                      Rank(g) = 5, st2[g] # "absent"
               PROVE  /\ Rank(u) < 4 => st2[u] = "succeeded"
                      /\ Rank(u) = 4 => at[u] > 0
    OBVIOUS
  <2>1. Rank(t) = 4 /\ st[g] # "absent"
    BY <1>2
  <2>2. QED
    BY <1>2, <2>1 DEF Story
<1>6. \A g, d \in OfBuild(b) :
        Rank(g) = 5 /\ st2[g] \in Begun /\ d \in DependsOn[g] => st2[d] = "succeeded"
  <2> SUFFICES ASSUME NEW g \in OfBuild(b), NEW d \in OfBuild(b),
                      Rank(g) = 5, st2[g] \in Begun, d \in DependsOn[g]
               PROVE  st2[d] = "succeeded"
    OBVIOUS
  <2>1. st[g] \in Begun /\ d # t
    BY <1>2
  <2>2. QED
    BY <2>1 DEF Story
<1>7. \A u \in OfBuild(b) : /\ ~(Rank(u) < 5 /\ Rank(u) < Reached("failed"))
                            /\ ~(Rank(u) < 5 /\ Rank(u) <= Reached("failed"))
  BY <1>1, <1>2
<1>8. QED
  BY <1>3, <1>4, <1>5, <1>6, <1>7 DEF Story, Decided

(* A registration is decided after the first three stages were recorded,   *)
(* and after the validation was, if it depends on it.                      *)
LEMMA StoryDecided ==
  ASSUME NEW b \in Builds, NEW st, NEW st2, NEW s, NEW r \in Decided, NEW at,
         Story(b, s, st, at),
         NEW g \in OfBuild(b), st[g] = "leased", Rank(g) = 5,
         st2[g] \in {"succeeded", "failed"},
         \A u \in OfBuild(b) \ {g} : st2[u] = st[u]
  PROVE  Story(b, r, st2, at)
<1>1. Reached(r) = 4 /\ r \notin {"absent", "failed"}
  BY ReachedOf DEF Decided, PublishStates
<1>2. \A u \in OfBuild(b) : /\ Rank(u) \in 1..5
                            /\ Rank(u) < 5 => st2[u] = st[u]
                            /\ st2[u] \in Begun => st[u] \in Begun
                            /\ st2[u] # "absent" => st[u] # "absent"
  BY RankOf DEF OfBuild, Begun
<1>3. \A u \in OfBuild(b) : /\ Rank(u) < 4 => st[u] = "succeeded"
                            /\ Rank(u) < 5 => at[u] > 0
                            /\ u \in DependsOn[g] => st[u] = "succeeded"
  <2>1. \A u \in OfBuild(b) : st[u] = "succeeded" => at[u] > 0
    BY DEF Story, Begun
  <2>2. \A u \in OfBuild(b) : /\ Rank(u) < 4 => st[u] = "succeeded"
                              /\ Rank(u) = 4 => at[u] > 0
    BY DEF Story
  <2>3. \A u \in OfBuild(b) : u \in DependsOn[g] => st[u] = "succeeded"
    BY DEF Story, Begun
  <2>4. QED
    BY <1>2, <2>1, <2>2, <2>3
<1>4. \A u \in OfBuild(b) : Rank(u) < 5 /\ st2[u] = "failed" =>
        Rank(u) = 4 /\ Rank(g) = 5 /\ st2[g] \in Settled /\ u \notin DependsOn[g]
  BY <1>2, <1>3 DEF Settled
<1>5. \A u \in OfBuild(b) : st2[u] \in Begun => at[u] > 0
  BY <1>2 DEF Story
<1>6. \A u, v \in OfBuild(b) :
        Rank(u) < 5 /\ st2[u] \in Begun /\ Rank(v) < Rank(u) => st2[v] = "succeeded"
  <2> SUFFICES ASSUME NEW u \in OfBuild(b), NEW v \in OfBuild(b),
                      Rank(u) < 5, st2[u] \in Begun, Rank(v) < Rank(u)
               PROVE  st2[v] = "succeeded"
    OBVIOUS
  <2>1. Rank(v) < 5 /\ st[u] \in Begun
    BY <1>2
  <2>2. QED
    BY <1>2, <2>1 DEF Story
<1>7. \A h, d \in OfBuild(b) :
        Rank(h) = 5 /\ st2[h] \in Begun /\ d \in DependsOn[h] => st2[d] = "succeeded"
  <2> SUFFICES ASSUME NEW h \in OfBuild(b), NEW d \in OfBuild(b),
                      Rank(h) = 5, st2[h] \in Begun, d \in DependsOn[h]
               PROVE  st2[d] = "succeeded"
    OBVIOUS
  <2>1. st[d] = "succeeded"
    BY <1>2 DEF Story
  <2>2. d # g
    BY <2>1
  <2>3. QED
    BY <2>1, <2>2
<1>8. \A u \in OfBuild(b) : Rank(u) < 5 => st2[u] # "absent"
  BY <1>2 DEF Story
<1>9. QED
  BY <1>1, <1>2, <1>3, <1>4, <1>5, <1>6, <1>7, <1>8 DEF Story, Settled

(* A step of the lane is a step of the queue, or leaves the queue alone.   *)
LEMMA LaneStepIsQueueStep == [HardwareNext]_allVars => [Next]_vars
<1> SUFFICES ASSUME [HardwareNext]_allVars PROVE [Next]_vars
  OBVIOUS
<1>1. ASSUME NEW b \in Builds, CreateHardwareBuild(b) PROVE Next
  <2>1. PipelineTasks(b) \in SUBSET Tasks
    BY DEF PipelineTasks
  <2>2. QED
    BY <1>1, <2>1 DEF CreateHardwareBuild, Next
<1>2. ASSUME NEW b \in Builds, CompleteDeployment(b) PROVE UNCHANGED vars
  BY <1>2 DEF CompleteDeployment
<1>3. ASSUME NEW b \in Builds, NEW t \in Tasks, RequestPublish(b, t) PROVE Next
  BY <1>3 DEF RequestPublish, Next
<1>4. ASSUME NEW w \in Workers, QueueStep(w) PROVE Next
  BY <1>4 DEF QueueStep, WorkerStep, Next
<1>5. ASSUME NEW w \in Workers, ExecuteStage(w) PROVE UNCHANGED vars
  BY <1>5 DEF ExecuteStage
<1>6. ASSUME NEW w \in Workers, CompleteStage(w) PROVE Next
  BY <1>6 DEF CompleteStage, WorkerStep, Next
<1>7. ASSUME NEW w \in Workers, FailStage(w) PROVE Next
  BY <1>7 DEF FailStage, WorkerStep, Next
<1>8. ASSUME NEW w \in Workers, StopInBuild(w) \/ WorkerStarts(w) PROVE Next
  BY <1>8 DEF StopInBuild, Next
<1>9. ASSUME NEW t \in Tasks, LeaseLapses(t) \/ BackoffElapses(t) PROVE Next
  BY <1>9 DEF Next
<1>10. CASE UNCHANGED allVars
  BY <1>10 DEF allVars
<1>11. QED
  BY <1>1, <1>2, <1>3, <1>4, <1>5, <1>6, <1>7, <1>8, <1>9, <1>10
  DEF HardwareNext, BuildWorkerStep

(* The lane runs on the queue: every behaviour of it is one of the queue.  *)
THEOREM LaneImplementsQueue == HardwareSpec => Spec
<1>1. HardwareInit => Init
  BY DEF HardwareInit
<1>2. QED
  BY <1>1, LaneStepIsQueueStep, PTL DEF HardwareSpec, Spec

Devices == {DeviceOf[t] : t \in DOMAIN DeviceOf} \cup {Blank}
UnitStatuses == {"available", "in_build", "reserved", "validated"}

(* The task in a worker that executes.                                     *)
LEMMA ExecutedTask ==
  ASSUME QueueInv, NEW w \in Workers, pc[w] = "running"
  PROVE  /\ job[w] \in Tasks /\ BuildOf[job[w]] \in Builds /\ KindOf[job[w]] \in Kinds
         /\ status[job[w]] = "leased"
         /\ Executes(w, job[w])
<1>1. job[w] \in Tasks /\ status[job[w]] = "leased"
  BY DEF QueueInv, TypeOK, ExecutorHoldsLease, Busy
<1>2. BuildOf[job[w]] \in Builds /\ KindOf[job[w]] \in Kinds
  BY <1>1, BuildAssumption DEF Kinds
<1>3. QED
  BY <1>1, <1>2 DEF Executes, Busy

(* What each step of the lane makes of the builds and units.               *)
LEMMA BuildTypeStep ==
  ASSUME QueueInv, BuildTypeOK, [HardwareNext]_allVars
  PROVE  BuildTypeOK'
<1> USE DEF buildVars
<1>0. /\ buildStatus \in [Builds -> BuildStatuses]
      /\ runtimeDevice \in [Builds -> Devices]
      /\ unitStatus \in [Units -> UnitStatuses]
      /\ holder \in [Units -> Builds \cup {None}]
      /\ deployed \subseteq Physical
      /\ executed \in [Workers -> BOOLEAN]
      /\ \A w \in Workers : executed[w] => pc[w] = "running"
      /\ pc \in [Workers -> Locations]
  BY DEF BuildTypeOK, Devices, UnitStatuses, QueueInv, TypeOK
<1>00. ASSUME /\ buildStatus' \in [Builds -> BuildStatuses]
              /\ runtimeDevice' \in [Builds -> Devices]
              /\ unitStatus' \in [Units -> UnitStatuses]
              /\ holder' \in [Units -> Builds \cup {None}]
              /\ deployed' \subseteq Physical
              /\ executed' \in [Workers -> BOOLEAN]
              /\ \A w \in Workers : executed'[w] => pc'[w] = "running"
       PROVE  BuildTypeOK'
  BY <1>00 DEF BuildTypeOK, Devices, UnitStatuses
<1>a. /\ {"absent", "planned", "failed"} \subseteq BuildStatuses
      /\ PublishStates \subseteq BuildStatuses
      /\ \A t \in Tasks : KindOf[t] # "register" => StageStatus[KindOf[t]] \in BuildStatuses
  BY ReachedOf DEF BuildStatuses
<1>b. /\ \A t \in Tasks : KindOf[t] = "register" => DeviceOf[t] \in Devices
      /\ Blank \in Devices
  BY BuildAssumption DEF Devices
<1>c. \A t \in Tasks : KindOf[t] = "register" => ResolvedDevice(t) \in Devices
  BY <1>0, <1>b, BuildAssumption DEF ResolvedDevice
<1>1. ASSUME NEW b \in Builds, CreateHardwareBuild(b) PROVE BuildTypeOK'
  BY <1>0, <1>00, <1>a, <1>1 DEF CreateHardwareBuild, EnqueueAgentTask, workerVars
<1>2. ASSUME NEW b \in Builds, CompleteDeployment(b) PROVE BuildTypeOK'
  BY <1>0, <1>00, <1>2 DEF CompleteDeployment, vars, workerVars
<1>3. ASSUME NEW b \in Builds, NEW t \in Tasks, RequestPublish(b, t) PROVE BuildTypeOK'
  BY <1>0, <1>00, <1>a, <1>b, <1>3 DEF RequestPublish, EnqueueAgentTask, workerVars, PublishStates
<1>4. ASSUME NEW w \in Workers, QueueStep(w) PROVE BuildTypeOK'
  <2>1. \A v \in Workers : pc[v] = "running" => pc'[v] = "running"
    BY <1>0, <1>4
    DEF QueueStep, TryRepairLock, RequeueExpiredTasks, ClaimTask, ClaimNothing, StartAgentRun
  <2>2. QED
    BY <1>0, <1>00, <1>4, <2>1 DEF QueueStep
<1>5. ASSUME NEW w \in Workers, ExecuteStage(w) PROVE BuildTypeOK'
  <2>1. job[w] \in Tasks /\ BuildOf[job[w]] \in Builds /\ KindOf[job[w]] \in Kinds /\ pc[w] = "running"
    BY <1>5, ExecutedTask DEF ExecuteStage
  <2>2. /\ buildStatus' \in [Builds -> BuildStatuses]
        /\ runtimeDevice' \in [Builds -> Devices]
    BY <1>0, <1>a, <1>c, <1>5, <2>1 DEF ExecuteStage
  <2>3. unitStatus' \in [Units -> UnitStatuses]
    <3>1. KindOf[job[w]] \in {"prepare", "reserve", "validate"}
            => UnitStatusAfter(job[w]) \in UnitStatuses
      BY DEF UnitStatusAfter, UnitStatuses
    <3>2. QED
      BY <1>0, <1>5, <3>1 DEF ExecuteStage
  <2>4. holder' \in [Units -> Builds \cup {None}]
    BY <1>0, <1>5, <2>1 DEF ExecuteStage
  <2>5. /\ executed' \in [Workers -> BOOLEAN]
        /\ \A v \in Workers : executed'[v] => pc'[v] = "running"
        /\ deployed' \subseteq Physical
    BY <1>0, <1>5, <2>1 DEF ExecuteStage, vars, workerVars
  <2>6. QED
    BY <1>00, <2>2, <2>3, <2>4, <2>5
<1>6. ASSUME NEW w \in Workers, CompleteStage(w) PROVE BuildTypeOK'
  <2>1. pc[w] = "running"
    BY <1>6 DEF CompleteStage, RecordCompletedTask, EndTurn
  <2>2. job[w] \in Tasks /\ BuildOf[job[w]] \in Builds
    BY <2>1, ExecutedTask
  <2>3. buildStatus' \in [Builds -> BuildStatuses]
    <3>1. /\ KindOf[job[w]] # "register" => StageStatus[KindOf[job[w]]] \in BuildStatuses
          /\ {"runtime_published", "runtime_registration_failed"} \subseteq BuildStatuses
      BY <1>a, <2>2 DEF PublishStates, Decided
    <3>2. CASE KindOf[job[w]] # "register"
      BY <1>0, <1>6, <2>2, <3>1, <3>2 DEF CompleteStage
    <3>3. CASE KindOf[job[w]] = "register"
      BY <1>0, <1>6, <2>2, <3>1, <3>3 DEF CompleteStage
    <3>4. QED
      BY <3>2, <3>3
  <2>4. runtimeDevice' \in [Builds -> Devices]
    BY <1>0, <1>c, <1>6, <2>2 DEF CompleteStage
  <2>5. /\ executed' \in [Workers -> BOOLEAN]
        /\ \A v \in Workers : executed'[v] => pc'[v] = "running"
    BY <1>0, <1>6 DEF CompleteStage, RecordCompletedTask, EndTurn
  <2>6. QED
    BY <1>0, <1>00, <1>6, <2>3, <2>4, <2>5 DEF CompleteStage
<1>7. ASSUME NEW w \in Workers, FailStage(w) PROVE BuildTypeOK'
  <2>1. pc[w] = "running" /\ ~executed[w]
    BY <1>7 DEF FailStage, RecordFailedTask, EndTurn
  <2>2. job[w] \in Tasks /\ BuildOf[job[w]] \in Builds
    BY <2>1, ExecutedTask
  <2>3. buildStatus' \in [Builds -> BuildStatuses]
    BY <1>0, <1>a, <1>7, <2>2 DEF FailStage, PublishStates, Decided
  <2>4. \A v \in Workers : executed'[v] => pc'[v] = "running"
    BY <1>0, <1>7, <2>1 DEF FailStage, RecordFailedTask, EndTurn
  <2>5. QED
    BY <1>0, <1>00, <1>7, <2>3, <2>4 DEF FailStage
<1>8. ASSUME NEW w \in Workers, StopInBuild(w) PROVE BuildTypeOK'
  BY <1>0, <1>00, <1>8 DEF StopInBuild, WorkerStops
<1>9. ASSUME NEW w \in Workers, WorkerStarts(w), UNCHANGED buildVars PROVE BuildTypeOK'
  BY <1>0, <1>00, <1>9 DEF WorkerStarts
<1>10. ASSUME NEW t \in Tasks, LeaseLapses(t) \/ BackoffElapses(t), UNCHANGED buildVars
       PROVE  BuildTypeOK'
  BY <1>0, <1>00, <1>10 DEF LeaseLapses, BackoffElapses, workerVars
<1>11. CASE UNCHANGED allVars
  BY <1>0, <1>00, <1>11 DEF allVars, vars, workerVars
<1>12. QED
  BY <1>1, <1>2, <1>3, <1>4, <1>5, <1>6, <1>7, <1>8, <1>9, <1>10, <1>11
  DEF HardwareNext, BuildWorkerStep

(* The outcome of an execution changes the executed task's row only.       *)
LEMMA OutcomeOfOne ==
  ASSUME QueueInv, NEW w \in Workers, RecordCompletedTask(w) \/ RecordFailedTask(w)
  PROVE  /\ job[w] \in Tasks /\ BuildOf[job[w]] \in Builds /\ KindOf[job[w]] \in Kinds
         /\ status[job[w]] = "leased"
         /\ \A u \in Tasks \ {job[w]} : status'[u] = status[u]
         /\ RecordCompletedTask(w) => status'[job[w]] = "succeeded"
         /\ RecordFailedTask(w) => status'[job[w]] = IF Exhausted(w) THEN "failed" ELSE "queued"
<1>1. pc[w] = "running"
  BY DEF RecordCompletedTask, RecordFailedTask, EndTurn
<1>2. /\ job[w] \in Tasks /\ BuildOf[job[w]] \in Builds /\ KindOf[job[w]] \in Kinds
      /\ status[job[w]] = "leased"
  BY <1>1, ExecutedTask
<1>3. status \in [Tasks -> Statuses]
  BY DEF QueueInv, TypeOK
<1>4. CASE RecordCompletedTask(w)
  <2>1. \A u \in Tasks : status'[u] = IF u = job[w] THEN "succeeded" ELSE status[u]
    BY <1>2, <1>3, <1>4 DEF RecordCompletedTask
  <2>2. ~RecordFailedTask(w)
    BY <1>2, <2>1, <1>3 DEF RecordFailedTask
  <2>3. QED
    BY <1>2, <2>1, <2>2
<1>5. CASE RecordFailedTask(w)
  <2>1. \A u \in Tasks : status'[u] = IF u # job[w] THEN status[u]
                                      ELSE IF Exhausted(w) THEN "failed" ELSE "queued"
    BY <1>2, <1>3, <1>5 DEF RecordFailedTask
  <2>2. ~RecordCompletedTask(w)
    BY <1>2, <2>1, <1>3 DEF RecordCompletedTask
  <2>3. QED
    BY <1>2, <2>1, <2>2
<1>6. QED
  BY <1>4, <1>5

(* Each step of the lane and the queue goes on with the story of a build.  *)
LEMMA StoryStep ==
  ASSUME QueueInv, BuildTypeOK, [HardwareNext]_allVars,
         NEW b \in Builds, Story(b, buildStatus[b], status, attempts)
  PROVE  Story(b, buildStatus'[b], status', attempts')
<1>0. /\ buildStatus \in [Builds -> BuildStatuses]
      /\ status \in [Tasks -> Statuses] /\ attempts \in [Tasks -> Nat]
      /\ OfBuild(b) \subseteq Tasks
      /\ \A t \in OfBuild(b) : BuildOf[t] = b /\ Rank(t) \in 1..5
                               /\ (Rank(t) = 5 <=> KindOf[t] = "register")
  BY RankOf DEF BuildTypeOK, QueueInv, TypeOK, OfBuild
<1>00. ASSUME buildStatus'[b] = buildStatus[b], attempts' = attempts,
              \A t \in OfBuild(b) : \/ status'[t] = status[t]
                                    \/ status[t] = "leased" /\ status'[t] = "queued"
       PROVE  Story(b, buildStatus'[b], status', attempts')
  <2>1. GivenBack(b, status, status')
    BY <1>00 DEF GivenBack
  <2>2. Story(b, buildStatus[b], status', attempts)
    BY <2>1, StoryRequeued
  <2>3. QED
    BY <1>00, <2>2
<1>1. ASSUME NEW c \in Builds, CreateHardwareBuild(c) PROVE Story(b, buildStatus'[b], status', attempts')
  <2>1. /\ \A t \in Tasks : status'[t] = IF t \in PipelineTasks(c) THEN "queued" ELSE status[t]
        /\ attempts' = attempts
    BY <1>1 DEF CreateHardwareBuild, EnqueueAgentTask
  <2>2. CASE c = b
    <3>1. buildStatus[b] = "absent" /\ buildStatus'[b] = "planned"
      BY <1>0, <1>1, <2>2 DEF CreateHardwareBuild
    <3>2. \A t \in OfBuild(b) : status'[t] = IF KindOf[t] = "register" THEN status[t] ELSE "queued"
      BY <2>1, <2>2 DEF PipelineTasks, OfBuild
    <3>3. QED
      BY <2>1, <3>1, <3>2, StoryCreated
  <2>3. CASE c # b
    <3>1. buildStatus'[b] = buildStatus[b]
      BY <1>0, <1>1, <2>3 DEF CreateHardwareBuild
    <3>2. \A t \in OfBuild(b) : status'[t] = status[t]
      BY <2>1, <2>3 DEF PipelineTasks, OfBuild
    <3>3. QED
      BY <1>00, <2>1, <3>1, <3>2
  <2>4. QED
    BY <2>2, <2>3
<1>2. ASSUME NEW c \in Builds, CompleteDeployment(c) PROVE Story(b, buildStatus'[b], status', attempts')
  BY <1>00, <1>2 DEF CompleteDeployment, vars, taskVars
<1>3. ASSUME NEW c \in Builds, NEW g \in Tasks, RequestPublish(c, g)
      PROVE  Story(b, buildStatus'[b], status', attempts')
  <2>1. /\ status[g] = "absent" /\ status'[g] = "queued" /\ attempts' = attempts
        /\ \A t \in Tasks \ {g} : status'[t] = status[t]
        /\ KindOf[g] = "register" /\ BuildOf[g] = c
    BY <1>3 DEF RequestPublish, EnqueueAgentTask
  <2>2. CASE c = b
    <3>1. /\ buildStatus[b] \in {"bench_validated", "runtime_publish_pending"}
          /\ buildStatus'[b] = "runtime_publish_pending"
      BY <1>0, <1>3, <2>2 DEF RequestPublish, Publishable
    <3>2. g \in OfBuild(b) /\ Rank(g) = 5
      BY <1>0, <2>1, <2>2 DEF OfBuild
    <3>3. QED
      BY <1>0, <2>1, <3>1, <3>2, StoryRequested
  <2>3. CASE c # b
    <3>1. buildStatus'[b] = buildStatus[b]
      BY <1>0, <1>3, <2>3 DEF RequestPublish
    <3>2. \A t \in OfBuild(b) : status'[t] = status[t]
      BY <2>1, <2>3 DEF OfBuild
    <3>3. QED
      BY <1>00, <2>1, <3>1, <3>2
  <2>4. QED
    BY <2>2, <2>3
<1>4. ASSUME NEW w \in Workers, QueueStep(w) PROVE Story(b, buildStatus'[b], status', attempts')
  <2>1. buildStatus'[b] = buildStatus[b]
    BY <1>4 DEF QueueStep, buildVars
  <2>2. ASSUME TryRepairLock(w) \/ ClaimNothing(w) \/ StartAgentRun(w)
        PROVE  Story(b, buildStatus'[b], status', attempts')
    BY <1>00, <2>1, <2>2 DEF TryRepairLock, ClaimNothing, StartAgentRun, taskVars
  <2>3. ASSUME RequeueExpiredTasks(w) PROVE Story(b, buildStatus'[b], status', attempts')
    BY <1>0, <1>00, <2>1, <2>3 DEF RequeueExpiredTasks, ExpiredLeases
  <2>4. ASSUME NEW t \in Tasks, ClaimTask(w, t) PROVE Story(b, buildStatus'[b], status', attempts')
    <3>1. /\ status[t] = "queued"
          /\ \A d \in DependsOn[t] : status[d] = "succeeded"
      BY <2>4 DEF ClaimTask, FirstInOrder, Claimable, ClaimableOf, PrerequisitesSucceeded
    <3>2. /\ status'[t] = "leased" /\ attempts'[t] > 0
          /\ \A u \in Tasks \ {t} : status'[u] = status[u] /\ attempts'[u] = attempts[u]
      BY <1>0, <2>4 DEF ClaimTask
    <3>3. CASE t \in OfBuild(b)
      BY <1>0, <2>1, <3>1, <3>2, <3>3, StoryClaimed
    <3>4. CASE t \notin OfBuild(b)
      <4>1. \A u \in OfBuild(b) : status'[u] = status[u] /\ attempts'[u] = attempts[u]
        BY <1>0, <3>2, <3>4
      <4>2. QED
        BY <2>1, <4>1, StorySame
    <3>5. QED
      BY <3>3, <3>4
  <2>5. QED
    BY <1>4, <2>2, <2>3, <2>4 DEF QueueStep
<1>5. ASSUME NEW w \in Workers, ExecuteStage(w) PROVE Story(b, buildStatus'[b], status', attempts')
  <2>1. /\ job[w] \in Tasks /\ BuildOf[job[w]] \in Builds
        /\ status[job[w]] = "leased" /\ status' = status /\ attempts' = attempts
    BY <1>5, ExecutedTask DEF ExecuteStage, vars, taskVars
  <2>2. CASE BuildOf[job[w]] = b /\ KindOf[job[w]] # "register"
    <3>1. job[w] \in OfBuild(b) /\ Rank(job[w]) < 5
      BY <1>0, <2>1, <2>2 DEF OfBuild
    <3>2. buildStatus'[b] = StageStatus[KindOf[job[w]]]
      BY <1>0, <1>5, <2>2 DEF ExecuteStage
    <3>3. QED
      BY <2>1, <3>1, <3>2, StoryAdvanced
  <2>3. CASE ~(BuildOf[job[w]] = b /\ KindOf[job[w]] # "register")
    <3>1. buildStatus'[b] = buildStatus[b]
      BY <1>0, <1>5, <2>1, <2>3 DEF ExecuteStage
    <3>2. QED
      BY <1>00, <2>1, <3>1
  <2>4. QED
    BY <2>2, <2>3
<1>6. ASSUME NEW w \in Workers, CompleteStage(w) PROVE Story(b, buildStatus'[b], status', attempts')
  <2>1. /\ job[w] \in Tasks /\ BuildOf[job[w]] \in Builds
        /\ status[job[w]] = "leased" /\ status'[job[w]] = "succeeded"
        /\ \A u \in Tasks \ {job[w]} : status'[u] = status[u]
        /\ attempts' = attempts
    BY <1>6, OutcomeOfOne DEF CompleteStage, RecordCompletedTask
  <2>2. CASE BuildOf[job[w]] = b
    <3>1. job[w] \in OfBuild(b)
      BY <2>1, <2>2 DEF OfBuild
    <3>2. CASE KindOf[job[w]] # "register"
      <4>1. buildStatus'[b] = StageStatus[KindOf[job[w]]]
        BY <1>0, <1>6, <2>2, <3>2 DEF CompleteStage
      <4>2. Rank(job[w]) < 5
        BY <1>0, <3>1, <3>2
      <4>3. QED
        BY <1>0, <2>1, <3>1, <4>1, <4>2, StoryAdvanced
    <3>3. CASE KindOf[job[w]] = "register"
      <4>1. buildStatus'[b] \in Decided
        BY <1>0, <1>6, <2>2, <3>3 DEF CompleteStage, Decided
      <4>2. Rank(job[w]) = 5
        BY <1>0, <3>1, <3>3
      <4>3. QED
        BY <1>0, <2>1, <3>1, <4>1, <4>2, StoryDecided
    <3>4. QED
      BY <3>2, <3>3
  <2>3. CASE BuildOf[job[w]] # b
    <3>1. buildStatus'[b] = buildStatus[b]
      BY <1>0, <1>6, <2>1, <2>3 DEF CompleteStage
    <3>2. \A t \in OfBuild(b) : status'[t] = status[t]
      BY <2>1, <2>3 DEF OfBuild
    <3>3. QED
      BY <1>00, <2>1, <3>1, <3>2
  <2>4. QED
    BY <2>2, <2>3
<1>7. ASSUME NEW w \in Workers, FailStage(w) PROVE Story(b, buildStatus'[b], status', attempts')
  <2>1. /\ job[w] \in Tasks /\ BuildOf[job[w]] \in Builds
        /\ status[job[w]] = "leased"
        /\ status'[job[w]] = IF Exhausted(w) THEN "failed" ELSE "queued"
        /\ \A u \in Tasks \ {job[w]} : status'[u] = status[u]
        /\ attempts' = attempts
    BY <1>7, OutcomeOfOne DEF FailStage, RecordFailedTask
  <2>2. CASE BuildOf[job[w]] = b /\ Exhausted(w)
    <3>1. job[w] \in OfBuild(b) /\ status'[job[w]] = "failed"
      BY <2>1, <2>2 DEF OfBuild
    <3>2. CASE KindOf[job[w]] # "register"
      <4>1. buildStatus'[b] = "failed"
        BY <1>0, <1>7, <2>2, <3>2 DEF FailStage, GivesUp
      <4>2. Rank(job[w]) < 5
        BY <1>0, <3>1, <3>2
      <4>3. QED
        BY <1>0, <2>1, <3>1, <4>1, <4>2, StoryFailed
    <3>3. CASE KindOf[job[w]] = "register"
      <4>1. buildStatus'[b] \in Decided
        BY <1>0, <1>7, <2>2, <3>3 DEF FailStage, GivesUp, Decided
      <4>2. Rank(job[w]) = 5
        BY <1>0, <3>1, <3>3
      <4>3. QED
        BY <1>0, <2>1, <3>1, <4>1, <4>2, StoryDecided
    <3>4. QED
      BY <3>2, <3>3
  <2>3. CASE ~Exhausted(w)
    <3>1. buildStatus'[b] = buildStatus[b]
      BY <1>7, <2>3 DEF FailStage, GivesUp
    <3>2. QED
      BY <1>0, <1>00, <2>1, <2>3, <3>1
  <2>4. CASE BuildOf[job[w]] # b
    <3>1. buildStatus'[b] = buildStatus[b]
      BY <1>0, <1>7, <2>1, <2>4 DEF FailStage
    <3>2. \A t \in OfBuild(b) : status'[t] = status[t]
      BY <2>1, <2>4 DEF OfBuild
    <3>3. QED
      BY <1>00, <2>1, <3>1, <3>2
  <2>5. QED
    BY <2>2, <2>3, <2>4
<1>8. ASSUME NEW w \in Workers, StopInBuild(w) PROVE Story(b, buildStatus'[b], status', attempts')
  BY <1>00, <1>8 DEF StopInBuild, WorkerStops, taskVars
<1>9. ASSUME NEW w \in Workers, WorkerStarts(w), UNCHANGED buildVars
      PROVE  Story(b, buildStatus'[b], status', attempts')
  BY <1>00, <1>9 DEF WorkerStarts, taskVars, buildVars
<1>10. ASSUME NEW t \in Tasks, LeaseLapses(t) \/ BackoffElapses(t), UNCHANGED buildVars
       PROVE  Story(b, buildStatus'[b], status', attempts')
  BY <1>00, <1>10 DEF LeaseLapses, BackoffElapses, buildVars
<1>11. CASE UNCHANGED allVars
  BY <1>00, <1>11 DEF allVars, vars, taskVars, buildVars
<1>12. QED
  BY <1>1, <1>2, <1>3, <1>4, <1>5, <1>6, <1>7, <1>8, <1>9, <1>10, <1>11
  DEF HardwareNext, BuildWorkerStep

(* The units of a build that no other build was started with.              *)
OwnUnits(b) == {u \in UnitsOf[b] : ~Contested(b, u)}

(* The units of U are held by build b, and they are marked.                *)
Held(b, U, hd) == \A u \in U : hd[u] = b
Marked(U, us) == \A u \in U : us[u] \in {"reserved", "validated"}

(* What the preparation and the reservation of a build leave on the units  *)
(* of U stays: once one of the tasks D is done, and while the status s     *)
(* claims it.                                                              *)
TasksLeave(b, U, D, hd, us) ==
  \A t \in OfBuild(b) \cap D : /\ Rank(t) = 1 => Held(b, U, hd)
                               /\ Rank(t) = 2 => Marked(U, us)
Parts(b, U, s, D, hd, us) ==
  /\ TasksLeave(b, U, D, hd, us)
  /\ Reached(s) >= 1 => Held(b, U, hd)
  /\ Reached(s) >= 2 => Marked(U, us)

(* The tasks whose executor has committed: recorded or not.                *)
DoneTasks ==
  {t \in Tasks : status[t] = "succeeded" \/ \E w \in Workers : executed[w] /\ job[w] = t}

(* Steps that touch none of the build's units and claim no more.           *)
LEMMA PartsKept ==
  ASSUME NEW b, NEW U, NEW s, NEW s2, NEW D, NEW D2, NEW hd, NEW hd2, NEW us, NEW us2,
         Parts(b, U, s, D, hd, us),
         \A t \in OfBuild(b) : t \in D2 => t \in D,
         Reached(s) \in 0..4, Reached(s2) \in 0..4, Reached(s2) <= Reached(s),
         \A u \in U : hd2[u] = hd[u] /\ us2[u] = us[u]
  PROVE  Parts(b, U, s2, D2, hd2, us2)
<1>1. Held(b, U, hd2) <=> Held(b, U, hd)
  BY DEF Held
<1>2. Marked(U, us2) <=> Marked(U, us)
  BY DEF Marked
<1>3. TasksLeave(b, U, D2, hd2, us2)
  BY <1>1, <1>2 DEF Parts, TasksLeave
<1>4. /\ Reached(s2) >= 1 => Reached(s) >= 1
      /\ Reached(s2) >= 2 => Reached(s) >= 2
  OBVIOUS
<1>5. QED
  BY <1>1, <1>2, <1>3, <1>4 DEF Parts

(* A status that claims only what tasks have done.                         *)
LEMMA PartsEarned ==
  ASSUME NEW b \in Builds, NEW U, NEW s, NEW D, NEW hd, NEW us,
         TasksLeave(b, U, D, hd, us),
         Reached(s) \in 0..4,
         \A t \in OfBuild(b) : Rank(t) <= 2 /\ Rank(t) <= Reached(s) => t \in D
  PROVE  Parts(b, U, s, D, hd, us)
<1>1. PICK t1 \in OfBuild(b) : Rank(t1) = 1
  BY EveryStageHasTask
<1>2. PICK t2 \in OfBuild(b) : Rank(t2) = 2
  BY EveryStageHasTask
<1>3. Reached(s) >= 1 => Held(b, U, hd)
  BY <1>1 DEF TasksLeave
<1>4. Reached(s) >= 2 => Marked(U, us)
  BY <1>2 DEF TasksLeave
<1>5. QED
  BY <1>3, <1>4 DEF Parts

(* The range of Reached.                                                   *)
LEMMA ReachedRange == \A s \in BuildStatuses : Reached(s) \in 0..4
<1>1. ASSUME NEW k \in DOMAIN StageStatus PROVE Reached(StageStatus[k]) \in 0..4
  <2>1. \E i \in 1..4 : k = Pipeline[i]
    BY DEF StageStatus, Pipeline
  <2>2. PICK i \in 1..4 : k = Pipeline[i]
    BY <2>1
  <2>3. i \in {j \in 1..4 : StageStatus[Pipeline[j]] = StageStatus[k]}
    BY <2>2
  <2>4. (CHOOSE j \in {x \in 1..4 : StageStatus[Pipeline[x]] = StageStatus[k]} : TRUE) \in 1..4
    BY <2>3
  <2>5. QED
    BY <2>3, <2>4 DEF Reached
<1>2. QED
  BY <1>1, ReachedOf DEF BuildStatuses

(* An executor that commits leaves the units as its task is to leave them. *)
LEMMA PartsCommitted ==
  ASSUME NEW b \in Builds, NEW U, NEW s, NEW D, NEW hd, NEW hd2, NEW us, NEW us2,
         NEW D2, NEW t \in OfBuild(b), D2 = D \cup {t},
         Rank(t) < 5, Reached(s) = Rank(t),
         TasksLeave(b, U, D, hd, us),
         \A u \in OfBuild(b) : Rank(u) < Rank(t) => u \in D,
         \A u \in OfBuild(b) : Rank(u) > Rank(t) /\ Rank(u) < 5 => u \notin D,
         Rank(t) = 1 \/ Held(b, U, hd) => Held(b, U, hd2),
         Rank(t) \in {2, 4} \/ (Rank(t) = 3 /\ Marked(U, us)) => Marked(U, us2)
  PROVE  Parts(b, U, s, D2, hd2, us2)
<1>1. Rank(t) \in 1..4
  BY RankOf DEF OfBuild
<1>2. \A u \in OfBuild(b) : Rank(u) \in 1..5 /\ (Rank(u) = Rank(t) => u = t)
  BY RankOf, OneTaskPerStage DEF OfBuild
<1>3. Held(b, U, hd2)
  <2>1. PICK t1 \in OfBuild(b) : Rank(t1) = 1
    BY EveryStageHasTask
  <2>2. Rank(t) # 1 => Held(b, U, hd)
    BY <1>1, <2>1 DEF TasksLeave
  <2>3. QED
    BY <2>2
<1>4. Rank(t) >= 2 => Marked(U, us2)
  <2>1. PICK t2 \in OfBuild(b) : Rank(t2) = 2
    BY EveryStageHasTask
  <2>2. Rank(t) = 3 => Marked(U, us)
    BY <2>1 DEF TasksLeave
  <2>3. QED
    BY <1>1, <2>2
<1>5. ASSUME NEW u \in OfBuild(b) \cap D2, Rank(u) = 2 PROVE Marked(U, us2)
  BY <1>1, <1>2, <1>4, <1>5
<1>6. TasksLeave(b, U, D2, hd2, us2)
  BY <1>3, <1>5 DEF TasksLeave
<1>7. QED
  BY <1>1, <1>3, <1>4, <1>6 DEF Parts

(* A task whose executor has committed was begun.                          *)
LEMMA DoneIsBegun ==
  ASSUME QueueInv, BuildTypeOK, NEW t \in DoneTasks
  PROVE  t \in Tasks /\ status[t] \in Begun
<1>1. ASSUME NEW w \in Workers, executed[w] PROVE status[job[w]] = "leased"
  BY <1>1, ExecutedTask DEF BuildTypeOK
<1>2. QED
  BY <1>1 DEF DoneTasks, Begun

(* The steps of the queue make no task done.                               *)
LEMMA QueueStepDoesNothing ==
  ASSUME QueueInv, BuildTypeOK, NEW w \in Workers, QueueStep(w)
  PROVE  \A t \in DoneTasks' : t \in DoneTasks
<1>0. /\ status \in [Tasks -> Statuses] /\ job \in [Workers -> Tasks \cup {None}]
      /\ \A v \in Workers : executed[v] => pc[v] = "running"
      /\ executed' = executed
  BY DEF QueueInv, TypeOK, BuildTypeOK, QueueStep, buildVars
<1>1. \A t \in Tasks : status'[t] = "succeeded" => status[t] = "succeeded"
  BY <1>0 DEF QueueStep, TryRepairLock, RequeueExpiredTasks, ClaimTask, ClaimNothing,
              StartAgentRun, taskVars
<1>2. \A v \in Workers : executed[v] => job'[v] = job[v]
  BY <1>0 DEF QueueStep, TryRepairLock, RequeueExpiredTasks, ClaimTask, ClaimNothing,
              StartAgentRun
<1>3. QED
  BY <1>0, <1>1, <1>2 DEF DoneTasks

(* No step of the lane takes a row away.                                   *)
LEMMA RowsStay ==
  ASSUME QueueInv, BuildTypeOK, [HardwareNext]_allVars, NEW t \in Tasks, status[t] # "absent"
  PROVE  status'[t] # "absent"
<1>0. /\ status \in [Tasks -> Statuses] /\ job \in [Workers -> Tasks \cup {None}]
      /\ \A w \in Workers : executed[w] => pc[w] = "running"
  BY DEF QueueInv, TypeOK, BuildTypeOK
<1>1. ASSUME NEW c \in Builds, CreateHardwareBuild(c) \/ CompleteDeployment(c)
      PROVE  status'[t] # "absent"
  BY <1>1 DEF CreateHardwareBuild, EnqueueAgentTask, CompleteDeployment, vars, taskVars
<1>2. ASSUME NEW c \in Builds, NEW g \in Tasks, RequestPublish(c, g) PROVE status'[t] # "absent"
  BY <1>2 DEF RequestPublish, EnqueueAgentTask
<1>3. ASSUME NEW w \in Workers, QueueStep(w) PROVE status'[t] # "absent"
  BY <1>0, <1>3 DEF QueueStep, TryRepairLock, RequeueExpiredTasks, ClaimTask, ClaimNothing,
                    StartAgentRun, taskVars
<1>4. ASSUME NEW w \in Workers, CompleteStage(w) \/ FailStage(w) PROVE status'[t] # "absent"
  <2>1. /\ \A u \in Tasks \ {job[w]} : status'[u] = status[u]
        /\ status'[job[w]] # "absent"
    BY <1>4, OutcomeOfOne DEF CompleteStage, FailStage
  <2>2. QED
    BY <2>1
<1>5. ASSUME NEW w \in Workers, \/ ExecuteStage(w) \/ StopInBuild(w)
                                \/ WorkerStarts(w)
      PROVE  status'[t] # "absent"
  BY <1>5 DEF ExecuteStage, StopInBuild, WorkerStops, WorkerStarts, vars, taskVars
<1>6. ASSUME NEW u \in Tasks, LeaseLapses(u) \/ BackoffElapses(u) PROVE status'[t] # "absent"
  BY <1>6 DEF LeaseLapses, BackoffElapses
<1>7. CASE UNCHANGED allVars
  BY <1>7 DEF allVars, vars, taskVars
<1>8. QED
  BY <1>1, <1>2, <1>3, <1>4, <1>5, <1>6, <1>7 DEF HardwareNext, BuildWorkerStep

(* Each step leaves the units of a build as its tasks are to leave them.   *)
LEMMA PartsStep ==
  ASSUME QueueInv, BuildTypeOK, BuildTypeOK', [HardwareNext]_allVars,
         \A c \in Builds : Story(c, buildStatus[c], status, attempts),
         NEW b \in Builds,
         Parts(b, OwnUnits(b), buildStatus[b], DoneTasks, holder, unitStatus)
  PROVE  Parts(b, OwnUnits(b), buildStatus'[b], DoneTasks', holder', unitStatus')
<1> DEFINE U == OwnUnits(b)
<1> DEFINE Goal == Parts(b, U, buildStatus'[b], DoneTasks', holder', unitStatus')
<1>0. /\ buildStatus \in [Builds -> BuildStatuses] /\ buildStatus' \in [Builds -> BuildStatuses]
      /\ unitStatus \in [Units -> {"available", "in_build", "reserved", "validated"}]
      /\ status \in [Tasks -> Statuses] /\ job \in [Workers -> Tasks \cup {None}]
      /\ executed \in [Workers -> BOOLEAN]
      /\ \A w \in Workers : executed[w] => pc[w] = "running"
      /\ OfBuild(b) \subseteq Tasks
      /\ \A t \in OfBuild(b) : /\ BuildOf[t] = b /\ Rank(t) \in 1..5
                               /\ Rank(t) = 5 <=> KindOf[t] = "register"
      /\ \A t \in DoneTasks : t \in Tasks /\ status[t] \in Begun
      /\ U \subseteq UnitsOf[b] /\ UnitsOf[b] \subseteq Units
  BY RankOf, DoneIsBegun, BuildAssumption DEF BuildTypeOK, QueueInv, TypeOK, OfBuild, OwnUnits
<1>o. \A c \in Builds \ {b} : buildStatus[c] # "absent" => U \cap UnitsOf[c] = {}
  BY DEF OwnUnits, Contested
<1>p. Parts(b, U, buildStatus[b], DoneTasks, holder, unitStatus)
  OBVIOUS
<1>q. Story(b, buildStatus[b], status, attempts)
  OBVIOUS
<1> HIDE DEF U
<1>r. Reached(buildStatus[b]) \in 0..4 /\ Reached(buildStatus'[b]) \in 0..4
  BY <1>0, ReachedRange
<1>k. ASSUME Reached(buildStatus'[b]) <= Reached(buildStatus[b]),
             \A t \in OfBuild(b) : t \in DoneTasks' => t \in DoneTasks,
             \A u \in U : holder'[u] = holder[u] /\ unitStatus'[u] = unitStatus[u]
      PROVE  Goal
  BY <1>p, <1>r, <1>k, PartsKept
<1>s. ASSUME buildStatus'[b] = buildStatus[b],
             \A t \in OfBuild(b) : t \in DoneTasks' => t \in DoneTasks,
             UNCHANGED <<holder, unitStatus>>
      PROVE  Goal
  <2>1. Reached(buildStatus'[b]) <= Reached(buildStatus[b])
    BY <1>r, <1>s
  <2>2. QED
    BY <1>k, <1>s, <2>1
<1> HIDE DEF Goal
<1>1. ASSUME NEW c \in Builds, CreateHardwareBuild(c) PROVE Goal
  <2>1. buildStatus'[b] = IF b = c THEN "planned" ELSE buildStatus[b]
    BY <1>0, <1>1 DEF CreateHardwareBuild
  <2>2. Reached(buildStatus'[b]) <= Reached(buildStatus[b])
    BY <1>r, <2>1, ReachedOf
  <2>3. \A t \in OfBuild(b) : t \in DoneTasks' => t \in DoneTasks
    BY <1>1 DEF CreateHardwareBuild, EnqueueAgentTask, DoneTasks, workerVars
  <2>4. QED
    BY <1>1, <1>k, <2>2, <2>3 DEF CreateHardwareBuild
<1>2. ASSUME NEW c \in Builds, CompleteDeployment(c) PROVE Goal
  BY <1>s, <1>2 DEF CompleteDeployment, vars, taskVars, workerVars, DoneTasks
<1>3. ASSUME NEW c \in Builds, NEW g \in Tasks, RequestPublish(c, g) PROVE Goal
  <2>1. \/ buildStatus'[b] = buildStatus[b]
        \/ /\ buildStatus[b] \in {"bench_validated", "runtime_publish_pending"}
           /\ buildStatus'[b] = "runtime_publish_pending"
    BY <1>0, <1>3 DEF RequestPublish, Publishable
  <2>2. Reached(buildStatus'[b]) <= Reached(buildStatus[b])
    BY <1>r, <2>1, ReachedOf DEF PublishStates
  <2>3. \A t \in OfBuild(b) : t \in DoneTasks' => t \in DoneTasks
    BY <1>3 DEF RequestPublish, EnqueueAgentTask, DoneTasks, workerVars
  <2>4. QED
    BY <1>3, <1>k, <2>2, <2>3 DEF RequestPublish
<1>4. ASSUME NEW w \in Workers, QueueStep(w) PROVE Goal
  BY <1>4, <1>s, QueueStepDoesNothing DEF QueueStep, buildVars
<1>5. ASSUME NEW w \in Workers, ExecuteStage(w) PROVE Goal
  <2>1. /\ job[w] \in OfBuild(BuildOf[job[w]]) /\ BuildOf[job[w]] \in Builds
        /\ KindOf[job[w]] \in Kinds /\ status[job[w]] = "leased"
        /\ status' = status /\ job' = job
        /\ executed' = [executed EXCEPT ![w] = TRUE]
    BY <1>5, ExecutedTask DEF ExecuteStage, vars, taskVars, workerVars, OfBuild
  <2>2. DoneTasks' = DoneTasks \cup {job[w]}
    BY <1>0, <2>1 DEF DoneTasks, OfBuild
  <2>3. CASE BuildOf[job[w]] # b
    <3>1. buildStatus'[b] = buildStatus[b]
      BY <1>0, <1>5, <2>1, <2>3 DEF ExecuteStage
    <3>2. Reached(buildStatus'[b]) <= Reached(buildStatus[b])
      BY <1>r, <3>1
    <3>3. \A t \in OfBuild(b) : t \in DoneTasks' => t \in DoneTasks
      BY <1>0, <2>2, <2>3
    <3>4. buildStatus[BuildOf[job[w]]] # "absent"
      BY <2>1 DEF Story
    <3>7. \A u \in U : u \in Units /\ u \notin UnitsOf[BuildOf[job[w]]]
      BY <1>0, <1>o, <2>1, <2>3, <3>4
    <3>5. \A u \in U : holder'[u] = holder[u] /\ unitStatus'[u] = unitStatus[u]
      BY <1>5, <3>7 DEF ExecuteStage
    <3>6. QED
      BY <1>k, <3>2, <3>3, <3>5
  <2>4. CASE BuildOf[job[w]] = b /\ KindOf[job[w]] = "register"
    <3>1. Rank(job[w]) = 5
      BY <1>0, <2>1, <2>4
    <3>2. /\ buildStatus'[b] = buildStatus[b]
          /\ \A u \in U : holder'[u] = holder[u] /\ unitStatus'[u] = unitStatus[u]
      BY <1>0, <1>5, <2>4 DEF ExecuteStage
    <3>3. Held(b, U, holder') <=> Held(b, U, holder)
      BY <3>2 DEF Held
    <3>4. Marked(U, unitStatus') <=> Marked(U, unitStatus)
      BY <3>2 DEF Marked
    <3>5. TasksLeave(b, U, DoneTasks', holder', unitStatus')
      BY <1>p, <2>2, <3>1, <3>3, <3>4 DEF Parts, TasksLeave
    <3>6. QED
      BY <1>p, <3>2, <3>3, <3>4, <3>5 DEF Parts, Goal
  <2>5. CASE BuildOf[job[w]] = b /\ KindOf[job[w]] # "register"
    <3>1. job[w] \in OfBuild(b) /\ Rank(job[w]) \in 1..4 /\ job[w] \in Tasks
      BY <1>0, <2>1, <2>5
    <3>2. /\ KindOf[job[w]] = "prepare" <=> Rank(job[w]) = 1
          /\ KindOf[job[w]] = "reserve" <=> Rank(job[w]) = 2
          /\ KindOf[job[w]] = "assemble" <=> Rank(job[w]) = 3
          /\ KindOf[job[w]] = "validate" <=> Rank(job[w]) = 4
      BY <3>1, RankOf
    <3>3. buildStatus'[b] = StageStatus[KindOf[job[w]]]
      BY <1>0, <1>5, <2>5 DEF ExecuteStage
    <3>4. \A u \in OfBuild(b) :
            /\ Rank(u) < Rank(job[w]) => status[u] = "succeeded"
            /\ Rank(u) > Rank(job[w]) /\ Rank(u) < 5 => status[u] \notin Begun
      BY <1>q, <2>1, <3>1, LeasedStage
    <3>5. /\ \A u \in OfBuild(b) : Rank(u) < Rank(job[w]) => u \in DoneTasks
          /\ \A u \in OfBuild(b) : Rank(u) > Rank(job[w]) /\ Rank(u) < 5 => u \notin DoneTasks
      BY <1>0, <3>4 DEF DoneTasks
    <3>6. Rank(job[w]) = 1 \/ Held(b, U, holder) => Held(b, U, holder')
      BY <1>0, <1>5, <2>5, <3>2 DEF ExecuteStage, Held
    <3>8. Rank(job[w]) \in {2, 4} \/ (Rank(job[w]) = 3 /\ Marked(U, unitStatus))
            => Marked(U, unitStatus')
      <4>1. /\ KindOf[job[w]] = "reserve" => UnitStatusAfter(job[w]) = "reserved"
            /\ KindOf[job[w]] = "validate" => UnitStatusAfter(job[w]) = "validated"
        BY DEF UnitStatusAfter
      <4>2. \A u \in U :
              unitStatus'[u] = IF KindOf[job[w]] \in {"prepare", "reserve", "validate"}
                               THEN UnitStatusAfter(job[w]) ELSE unitStatus[u]
        BY <1>0, <1>5, <2>5 DEF ExecuteStage
      <4>3. QED
        BY <3>2, <4>1, <4>2 DEF Marked
    <3>9. Reached(buildStatus'[b]) = Rank(job[w]) /\ Rank(job[w]) < 5
      BY <2>5, <3>1, <3>3, ReachedOf
    <3>10. TasksLeave(b, U, DoneTasks, holder, unitStatus)
      BY <1>p DEF Parts
    <3>11. QED
      BY <2>2, <3>1, <3>5, <3>6, <3>8, <3>9, <3>10, PartsCommitted DEF Goal
  <2>6. QED
    BY <2>3, <2>4, <2>5
<1>6. ASSUME NEW w \in Workers, CompleteStage(w) PROVE Goal
  <2>1. /\ job[w] \in OfBuild(BuildOf[job[w]]) /\ BuildOf[job[w]] \in Builds
        /\ status[job[w]] = "leased" /\ status'[job[w]] = "succeeded"
        /\ \A u \in Tasks \ {job[w]} : status'[u] = status[u]
        /\ executed[w] /\ job' = [job EXCEPT ![w] = None]
        /\ executed' = [executed EXCEPT ![w] = FALSE]
        /\ holder' = holder /\ unitStatus' = unitStatus
    BY <1>6, OutcomeOfOne DEF CompleteStage, RecordCompletedTask, EndTurn, OfBuild
  <2>2. DoneTasks' = DoneTasks
    <3>1. \A v \in Workers : v # w => executed'[v] = executed[v] /\ job'[v] = job[v]
      BY <1>0, <2>1
    <3>2. ~executed'[w]
      BY <1>0, <2>1
    <3>3. ASSUME NEW t \in Tasks PROVE t \in DoneTasks' <=> t \in DoneTasks
      <4>1. CASE t = job[w]
        BY <2>1, <4>1 DEF DoneTasks
      <4>2. CASE t # job[w]
        BY <2>1, <3>1, <3>2, <4>2 DEF DoneTasks
      <4>3. QED
        BY <4>1, <4>2
    <3>4. QED
      BY <3>3 DEF DoneTasks
  <2>3. CASE BuildOf[job[w]] # b
    <3>1. buildStatus'[b] = buildStatus[b]
      BY <1>0, <1>6, <2>1, <2>3 DEF CompleteStage
    <3>2. QED
      BY <1>s, <2>1, <2>2, <3>1
  <2>4. CASE BuildOf[job[w]] = b
    <3>1. \A t \in OfBuild(b) :
            Rank(t) <= 2 /\ Rank(t) <= Reached(buildStatus'[b]) => t \in DoneTasks
      <4>1. job[w] \in OfBuild(b) /\ job[w] \in Tasks
        BY <1>0, <2>1, <2>4
      <4>2. CASE KindOf[job[w]] # "register"
        <5>1. buildStatus'[b] = StageStatus[KindOf[job[w]]] /\ Rank(job[w]) < 5
          BY <1>0, <1>6, <2>4, <4>1, <4>2 DEF CompleteStage
        <5>2. Reached(buildStatus'[b]) = Rank(job[w])
          BY <4>1, <4>2, <5>1, ReachedOf
        <5>3. \A u \in OfBuild(b) : /\ Rank(u) < Rank(job[w]) => status[u] = "succeeded"
                                    /\ Rank(u) = Rank(job[w]) => u = job[w]
          BY <1>q, <2>1, <4>1, <5>1, LeasedStage
        <5>4. QED
          BY <1>0, <2>1, <4>1, <5>2, <5>3 DEF DoneTasks
      <4>3. CASE KindOf[job[w]] = "register"
        <5>1. Rank(job[w]) = 5
          BY <1>0, <4>1, <4>3
        <5>2. \A u \in OfBuild(b) : Rank(u) < 4 => status[u] = "succeeded"
          BY <1>q, <2>1, <4>1, <5>1 DEF Story
        <5>3. \A u \in OfBuild(b) : Rank(u) <= 2 => u \in Tasks /\ Rank(u) < 4
          BY <1>0
        <5>4. QED
          BY <5>2, <5>3 DEF DoneTasks
      <4>4. QED
        BY <4>2, <4>3
    <3>2. TasksLeave(b, U, DoneTasks, holder, unitStatus)
      BY <1>p DEF Parts
    <3>3. Parts(b, U, buildStatus'[b], DoneTasks, holder, unitStatus)
      BY <1>r, <3>1, <3>2, PartsEarned
    <3>4. QED
      BY <2>1, <2>2, <3>3 DEF Goal
  <2>5. QED
    BY <2>3, <2>4
<1>7. ASSUME NEW w \in Workers, FailStage(w) PROVE Goal
  <2>1. /\ job[w] \in Tasks /\ BuildOf[job[w]] \in Builds /\ status[job[w]] = "leased"
        /\ status'[job[w]] # "succeeded"
        /\ \A u \in Tasks \ {job[w]} : status'[u] = status[u]
        /\ ~executed[w] /\ job' = [job EXCEPT ![w] = None]
        /\ executed' = executed /\ holder' = holder /\ unitStatus' = unitStatus
    BY <1>7, OutcomeOfOne DEF FailStage, RecordFailedTask, EndTurn
  <2>2. \A t \in OfBuild(b) : t \in DoneTasks' => t \in DoneTasks
    BY <1>0, <2>1 DEF DoneTasks
  <2>3. CASE buildStatus'[b] = buildStatus[b]
    BY <1>s, <2>1, <2>2, <2>3
  <2>4. CASE buildStatus'[b] # buildStatus[b]
    <3>1. /\ BuildOf[job[w]] = b
          /\ buildStatus'[b] = IF KindOf[job[w]] = "register"
                               THEN "runtime_registration_failed" ELSE "failed"
      BY <1>0, <1>7, <2>1, <2>4 DEF FailStage
    <3>2. CASE KindOf[job[w]] # "register"
      <4>1. Reached(buildStatus'[b]) <= Reached(buildStatus[b])
        BY <1>r, <3>1, <3>2, ReachedOf
      <4>2. QED
        BY <1>k, <2>1, <2>2, <4>1
    <3>3. CASE KindOf[job[w]] = "register"
      <4>1. job[w] \in OfBuild(b) /\ Rank(job[w]) = 5
        BY <1>0, <2>1, <3>1, <3>3 DEF OfBuild
      <4>2. \A u \in OfBuild(b) : Rank(u) < 4 => status[u] = "succeeded" /\ u # job[w]
        BY <1>0, <1>q, <2>1, <4>1 DEF Story
      <4>3. \A u \in OfBuild(b) : Rank(u) <= 2 => u \in Tasks /\ Rank(u) < 4
        BY <1>0
      <4>4. \A u \in OfBuild(b) : Rank(u) <= 2 => u \in DoneTasks'
        BY <2>1, <4>2, <4>3 DEF DoneTasks
      <4>5. TasksLeave(b, U, DoneTasks', holder, unitStatus)
        BY <1>p, <2>2 DEF Parts, TasksLeave
      <4>6. Parts(b, U, buildStatus'[b], DoneTasks', holder, unitStatus)
        BY <1>r, <4>4, <4>5, PartsEarned
      <4>7. QED
        BY <2>1, <4>6 DEF Goal
    <3>4. QED
      BY <3>2, <3>3
  <2>5. QED
    BY <2>3, <2>4
<1>8. ASSUME NEW w \in Workers, StopInBuild(w) PROVE Goal
  <2>1. /\ status' = status /\ job' = [job EXCEPT ![w] = None]
        /\ executed' = [executed EXCEPT ![w] = FALSE]
        /\ UNCHANGED <<buildStatus, holder, unitStatus>>
    BY <1>8 DEF StopInBuild, WorkerStops, taskVars
  <2>2. \A t \in OfBuild(b) : t \in DoneTasks' => t \in DoneTasks
    BY <1>0, <2>1 DEF DoneTasks
  <2>3. QED
    BY <1>s, <2>1, <2>2
<1>9. ASSUME NEW w \in Workers, WorkerStarts(w), UNCHANGED buildVars PROVE Goal
  BY <1>s, <1>9 DEF WorkerStarts, taskVars, buildVars, DoneTasks
<1>10. ASSUME NEW t \in Tasks, LeaseLapses(t) \/ BackoffElapses(t), UNCHANGED buildVars
       PROVE  Goal
  BY <1>s, <1>10 DEF LeaseLapses, BackoffElapses, workerVars, buildVars, DoneTasks
<1>11. CASE UNCHANGED allVars
  BY <1>s, <1>11 DEF allVars, vars, taskVars, workerVars, buildVars, DoneTasks
<1>12. QED
  BY <1>1, <1>2, <1>3, <1>4, <1>5, <1>6, <1>7, <1>8, <1>9, <1>10, <1>11
  DEF HardwareNext, BuildWorkerStep, Goal, U

(* A build keeps no unit to itself that it did not have to itself before:  *)
(* nothing undoes the start of a build.                                    *)
LEMMA OwnUnitsShrink ==
  ASSUME QueueInv, BuildTypeOK, [HardwareNext]_allVars,
         \A c \in Builds : Story(c, buildStatus[c], status, attempts)',
         \A c \in Builds : Story(c, buildStatus[c], status, attempts),
         NEW b \in Builds
  PROVE  OwnUnits(b)' \subseteq OwnUnits(b)
<1>1. ASSUME NEW c \in Builds, buildStatus[c] # "absent" PROVE buildStatus'[c] # "absent"
  <2>1. PICK t \in OfBuild(c) : Rank(t) = 1
    BY EveryStageHasTask
  <2>2. status[t] # "absent" /\ t \in Tasks
    BY <1>1, <2>1 DEF Story, OfBuild
  <2>3. status'[t] # "absent"
    BY <2>2, RowsStay
  <2>4. QED
    BY <2>3 DEF Story
<1>2. QED
  BY <1>1 DEF OwnUnits, Contested

(* The parts of fewer units.                                               *)
LEMMA PartsNarrowed ==
  ASSUME NEW b, NEW U, NEW U2, NEW s, NEW D, NEW hd, NEW us,
         Parts(b, U, s, D, hd, us), U2 \subseteq U
  PROVE  Parts(b, U2, s, D, hd, us)
<1>1. /\ Held(b, U, hd) => Held(b, U2, hd)
      /\ Marked(U, us) => Marked(U2, us)
  BY DEF Held, Marked
<1>2. QED
  BY <1>1 DEF Parts, TasksLeave

(* The inductive invariant of the lane: builds and tasks tell one story.   *)
BuildInv ==
  /\ BuildTypeOK
  /\ \A b \in Builds : Story(b, buildStatus[b], status, attempts)

(* Every build's status and tasks tell one story, whatever workers die     *)
(* between the two transactions of a task and whatever is executed again.  *)
THEOREM BuildInvHolds ==
  ASSUME LeasesOutliveExecution, RetriesDoNotOverlap
  PROVE  HardwareSpec => []BuildInv
<1>1. HardwareInit => BuildInv
  <2> SUFFICES ASSUME HardwareInit PROVE BuildInv
    OBVIOUS
  <2>1. BuildTypeOK
    BY BuildAssumption DEF HardwareInit, Init, BuildTypeOK, BuildStatuses
  <2>2. ASSUME NEW b \in Builds PROVE Story(b, buildStatus[b], status, attempts)
    <3>1. /\ buildStatus[b] = "absent"
          /\ \A t \in OfBuild(b) : status[t] = "absent" /\ Rank(t) \in 1..5
      BY RankOf DEF HardwareInit, Init, OfBuild
    <3>2. Reached("absent") = 0
      BY ReachedOf
    <3>3. QED
      BY <3>1, <3>2 DEF Story, Begun, Decided
  <2>3. QED
    BY <2>1, <2>2 DEF BuildInv
<1>2. QueueInv /\ BuildInv /\ [HardwareNext]_allVars => BuildInv'
  <2> SUFFICES ASSUME QueueInv, BuildInv, [HardwareNext]_allVars PROVE BuildInv'
    OBVIOUS
  <2>1. BuildTypeOK'
    BY BuildTypeStep DEF BuildInv
  <2>2. ASSUME NEW b \in Builds PROVE Story(b, buildStatus'[b], status', attempts')
    BY StoryStep DEF BuildInv
  <2>3. QED
    BY <2>1, <2>2 DEF BuildInv
<1>3. QED
  BY <1>1, <1>2, LaneImplementsQueue, QueueInvariant, PTL DEF HardwareSpec

(* The build's status follows the recorded tasks: at most the stage in     *)
(* progress ahead, never behind, and failed when a stage is, but for the   *)
(* validation a registration did not wait for.                             *)
THEOREM StatusMatchesTasksHolds ==
  ASSUME LeasesOutliveExecution, RetriesDoNotOverlap
  PROVE  HardwareSpec => []StatusMatchesTasks
<1>1. BuildInv => StatusMatchesTasks
  <2> SUFFICES ASSUME BuildInv PROVE StatusMatchesTasks
    OBVIOUS
  <2>1. ASSUME NEW b \in Builds, NEW t
        PROVE  t \in PipelineTasks(b) <=> t \in OfBuild(b) /\ Rank(t) < 5
    BY RankOf DEF PipelineTasks, OfBuild
  <2>2. ASSUME NEW b \in Builds, NEW t \in PipelineTasks(b)
        PROVE  /\ t \in OfBuild(b) /\ StageOf(t) = Rank(t) /\ Rank(t) < 5
               /\ Rank(t) = 4 <=> KindOf[t] = "validate"
               /\ Rank(t) \in 1..4
    BY RankOf DEF PipelineTasks, OfBuild
  <2>3. ASSUME NEW b \in Builds, NEW g \in OfBuild(b), Rank(g) = 5
        PROVE  g \in Registrations(b)
    BY <2>3, RankOf DEF Registrations, OfBuild
  <2>4. ASSUME NEW b \in Builds
        PROVE  /\ buildStatus[b] = "failed" => \E t \in PipelineTasks(b) : status[t] = "failed"
               /\ \A t \in PipelineTasks(b) :
                    /\ status[t] = "failed" =>
                         \/ buildStatus[b] = "failed"
                         \/ KindOf[t] = "validate" /\ DecidedWithout(b, t)
                    /\ StageOf(t) < Reached(buildStatus[b]) => status[t] = "succeeded"
                    /\ status[t] = "succeeded" /\ buildStatus[b] # "failed"
                         => Reached(buildStatus[b]) >= StageOf(t)
    <3>1. Story(b, buildStatus[b], status, attempts) /\ Reached(buildStatus[b]) \in 0..4
      BY ReachedRange DEF BuildInv, BuildTypeOK
    <3>2. buildStatus[b] = "failed" => \E t \in PipelineTasks(b) : status[t] = "failed"
      BY <2>1, <3>1 DEF Story
    <3>3. ASSUME NEW t \in PipelineTasks(b), status[t] = "failed", buildStatus[b] # "failed"
          PROVE  KindOf[t] = "validate" /\ DecidedWithout(b, t)
      <4>1. /\ Rank(t) = 4 /\ buildStatus[b] \in Decided
            /\ \E g \in OfBuild(b) : Rank(g) = 5 /\ status[g] \in Settled /\ t \notin DependsOn[g]
        BY <2>2, <3>1, <3>3 DEF Story
      <4>2. QED
        BY <2>2, <2>3, <4>1 DEF DecidedWithout
    <3>4. ASSUME NEW t \in PipelineTasks(b)
          PROVE  /\ StageOf(t) < Reached(buildStatus[b]) => status[t] = "succeeded"
                 /\ status[t] = "succeeded" /\ buildStatus[b] # "failed"
                      => Reached(buildStatus[b]) >= StageOf(t)
      <4>1. /\ Rank(t) < Reached(buildStatus[b]) => status[t] = "succeeded"
            /\ status[t] = "succeeded" /\ buildStatus[b] # "failed"
                 => Rank(t) <= Reached(buildStatus[b])
        BY <2>2, <3>1 DEF Story
      <4>2. QED
        BY <2>2, <3>1, <4>1
    <3>5. QED
      BY <3>2, <3>3, <3>4
  <2>5. QED
    BY <2>4 DEF StatusMatchesTasks, BuildInv
<1>2. QED
  BY <1>1, BuildInvHolds, PTL

(* The units a build does not share with another that was started are its  *)
(* own and marked from the reservation on.                                 *)
PartsInv == \A b \in Builds : Parts(b, OwnUnits(b), buildStatus[b], DoneTasks, holder, unitStatus)

(* No other build, death or repeated stage takes these marks away.         *)
THEOREM PartsInvHolds ==
  ASSUME LeasesOutliveExecution, RetriesDoNotOverlap
  PROVE  HardwareSpec => []PartsInv
<1>1. HardwareInit => PartsInv
  <2> SUFFICES ASSUME HardwareInit, NEW b \in Builds
               PROVE  Parts(b, OwnUnits(b), buildStatus[b], DoneTasks, holder, unitStatus)
    BY DEF PartsInv
  <2>1. DoneTasks = {} /\ buildStatus[b] = "absent"
    BY DEF HardwareInit, Init, DoneTasks
  <2>2. Reached("absent") = 0
    BY ReachedOf
  <2>3. QED
    BY <2>1, <2>2 DEF Parts, TasksLeave
<1>2. QueueInv /\ BuildInv /\ BuildInv' /\ PartsInv /\ [HardwareNext]_allVars => PartsInv'
  <2> SUFFICES ASSUME QueueInv, BuildInv, BuildInv', PartsInv, [HardwareNext]_allVars
               PROVE  PartsInv'
    OBVIOUS
  <2>1. ASSUME NEW b \in Builds
        PROVE  Parts(b, OwnUnits(b)', buildStatus'[b], DoneTasks', holder', unitStatus')
    <3>1. Parts(b, OwnUnits(b), buildStatus'[b], DoneTasks', holder', unitStatus')
      BY PartsStep DEF BuildInv, PartsInv
    <3>2. OwnUnits(b)' \subseteq OwnUnits(b)
      BY OwnUnitsShrink DEF BuildInv
    <3>3. QED
      BY <3>1, <3>2, PartsNarrowed
  <2>2. QED
    BY <2>1 DEF PartsInv
<1>3. QED
  BY <1>1, <1>2, LaneImplementsQueue, QueueInvariant, BuildInvHolds, PTL DEF HardwareSpec

(* Whatever a stage relies on is there: parts marked for the build, and a  *)
(* device registered only after the first three stages are recorded and    *)
(* the validation was attempted, or recorded where it was waited for.      *)
THEOREM StagesRestOnEarlierOnesHolds ==
  ASSUME LeasesOutliveExecution, RetriesDoNotOverlap
  PROVE  HardwareSpec => []StagesRestOnEarlierOnes
<1>1. BuildInv /\ PartsInv => StagesRestOnEarlierOnes
  <2> SUFFICES ASSUME BuildInv, PartsInv PROVE StagesRestOnEarlierOnes
    OBVIOUS
  <2>1. PartsMarkedForBuild
    <3> SUFFICES ASSUME NEW b \in Builds, NEW u \in UnitsOf[b], Reached(buildStatus[b]) >= 2,
                        ~Contested(b, u)
                 PROVE  holder[u] = b /\ unitStatus[u] \in {"reserved", "validated"}
      BY DEF PartsMarkedForBuild
    <3>1. Reached(buildStatus[b]) \in 0..4
      BY ReachedRange DEF BuildInv, BuildTypeOK
    <3>2. Held(b, OwnUnits(b), holder) /\ Marked(OwnUnits(b), unitStatus)
      BY <3>1 DEF PartsInv, Parts
    <3>3. u \in OwnUnits(b)
      BY DEF OwnUnits
    <3>4. QED
      BY <3>2, <3>3 DEF Held, Marked
  <2>2. RegisteredAfterValidation
    <3>1. ASSUME NEW b \in Builds, NEW g \in Registrations(b), NEW t \in PipelineTasks(b),
                 status[g] \in Begun
          PROVE  \/ status[t] = "succeeded"
                 \/ KindOf[t] = "validate" /\ t \notin DependsOn[g] /\ attempts[t] > 0
      <4>1. /\ t \in OfBuild(b) /\ Rank(t) \in 1..4
            /\ Rank(t) = 4 <=> KindOf[t] = "validate"
            /\ g \in OfBuild(b) /\ Rank(g) = 5
        BY RankOf DEF PipelineTasks, Registrations, OfBuild
      <4>2. Story(b, buildStatus[b], status, attempts)
        BY DEF BuildInv
      <4>3. status[g] # "absent"
        BY <3>1 DEF Begun
      <4>4. /\ Rank(t) < 4 => status[t] = "succeeded"
            /\ Rank(t) = 4 => attempts[t] > 0
            /\ t \in DependsOn[g] => status[t] = "succeeded"
        BY <3>1, <4>1, <4>2, <4>3 DEF Story
      <4>5. QED
        BY <4>1, <4>4
    <3>2. ASSUME NEW b \in Builds, buildStatus[b] \in Decided
          PROVE  \E g \in Registrations(b) : status[g] \in Settled
      <4>1. PICK g \in OfBuild(b) : Rank(g) = 5 /\ status[g] \in Settled
        BY <3>2 DEF BuildInv, Story
      <4>2. g \in Registrations(b)
        BY <4>1, RankOf DEF Registrations, OfBuild
      <4>3. QED
        BY <4>1, <4>2
    <3>3. QED
      BY <3>1, <3>2 DEF RegisteredAfterValidation
  <2>3. QED
    BY <2>1, <2>2 DEF StagesRestOnEarlierOnes
<1>2. QED
  BY <1>1, BuildInvHolds, PartsInvHolds, PTL
=============================================================================
