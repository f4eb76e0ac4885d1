----------------------- MODULE DevConsoleBrokerProofs -----------------------
(***************************************************************************)
(* Proofs about RuntimeAccounts and DevConsoleBroker for any number of     *)
(* accounts, clients, requests and faults.                                 *)
(*                                                                         *)
(* What a request may do is decided by the order of the steps of its route *)
(* (StepsOK, shown for every route there is): authentication comes first,  *)
(* the role before what only an administrator may do, and nothing can be   *)
(* refused once something is committed.  The invariant (CallOK) says the   *)
(* same of the steps a request has left, together with what the steps      *)
(* behind it have established; it survives what other requests do in       *)
(* between because rows are never taken back (RowsGrow).                   *)
(***************************************************************************)
EXTENDS DevConsoleBroker, FiniteSetTheorems, SequenceTheorems, TLAPS

\* The kinds of steps.
Names == Plain \cup Checks \cup Commits
           \cup {"count", "auth", "who", "admin", "target", "settle", "list", "get", "file", "deck", "kind"}

\* The steps at which no request is refused.
Quiet == {"read", "agent-read", "list", "event", "agent", "agent-write"}

\* The steps that need an administrator's credential, at the server `at'.
NeedsAdmin(at, step) == step \in Commits /\ (at = "broker" \/ step = "account")

\* The order of the steps, in a route and in what is left of one.
Ordered(steps) ==
  /\ steps \in Seq(Names)
  /\ \A i, j \in DOMAIN steps : i < j /\ steps[i] \in Commits => steps[j] \in Quiet
  /\ \A i \in DOMAIN steps : steps[i] = "auth" => i = 1
  /\ \A i \in DOMAIN steps : steps[i] = "root" /\ i > 1 => steps[i - 1] = "count"
  /\ (\E i \in DOMAIN steps : steps[i] = "who") => \A i \in DOMAIN steps : steps[i] \notin Commits

StepsOK(at, steps) ==
  /\ Ordered(steps)
  /\ \A i \in DOMAIN steps : steps[i] = "root" => i > 1
  /\ \A i \in DOMAIN steps : steps[i] \in {"admin", "token", "view"} => steps[1] = "auth"
  /\ \A i \in DOMAIN steps : NeedsAdmin(at, steps[i]) => \E j \in 1 .. (i - 1) : steps[j] = "admin"

-----------------------------------------------------------------------------
(* The routes of the broker: what follows the check of the role.           *)
BrokerSteps == {"body", "list", "get", "settle", "command", "kind", "file", "deck"}

\* A command is the last step but for a list read for the answer.
CommandLast(steps) ==
  /\ steps \in Seq(BrokerSteps)
  /\ \A i, j \in DOMAIN steps : i < j /\ steps[i] = "command" => steps[j] = "list"

(* Behind the check of the role come commands only, and nothing is refused *)
(* behind one.                                                             *)
LEMMA ForAdminsOK ==
  ASSUME NEW steps, CommandLast(steps)
  PROVE  StepsOK("broker", ForAdmins(steps))
<1> DEFINE all == ForAdmins(steps)
           first == <<"auth", "read", "admin">>
<1>1. first \in Seq(Names) /\ steps \in Seq(Names) /\ Len(first) = 3 /\ Len(steps) \in Nat
  <2>1. BrokerSteps \subseteq Names /\ steps \in Seq(BrokerSteps)
    BY DEF BrokerSteps, CommandLast, Names, Checks, Commits
  <2>2. first \in Seq(Names) /\ Len(first) = 3
    BY DEF Names, Plain
  <2> QED BY <2>1, <2>2
<1>2. /\ all \in Seq(Names) /\ Len(all) = 3 + Len(steps) /\ DOMAIN all = 1 .. (3 + Len(steps))
      /\ all[1] = "auth" /\ all[2] = "read" /\ all[3] = "admin"
      /\ \A i \in DOMAIN all : i > 3 => i - 3 \in DOMAIN steps /\ all[i] = steps[i - 3]
      /\ \A i \in DOMAIN all : i \in {1, 2, 3} \/ i > 3
  BY <1>1 DEF ForAdmins
<1>3. /\ \A i \in DOMAIN steps : steps[i] \in BrokerSteps
      /\ \A i \in DOMAIN steps : steps[i] \in Commits => steps[i] = "command"
  BY DEF BrokerSteps, Commits, CommandLast
<1> HIDE DEF all, first
<1>4. ASSUME NEW i \in DOMAIN all, NEW j \in DOMAIN all, i < j, all[i] \in Commits
      PROVE  all[j] \in Quiet
  <2>1. i > 3 /\ i - 3 \in DOMAIN steps /\ steps[i - 3] \in Commits
    BY <1>2, <1>4 DEF Commits
  <2>2. j > 3 /\ j - 3 \in DOMAIN steps /\ all[j] = steps[j - 3] /\ i - 3 < j - 3
    BY <1>2, <1>4, <2>1
  <2> QED BY <1>3, <2>1, <2>2 DEF Quiet, CommandLast
<1>5. \A i \in DOMAIN all : all[i] = "auth" => i = 1
  BY <1>2, <1>3 DEF BrokerSteps
<1>6. \A i \in DOMAIN all : all[i] \notin {"root", "who"}
  BY <1>2, <1>3 DEF BrokerSteps
<1>7. \A i \in DOMAIN all : NeedsAdmin("broker", all[i]) => 3 \in 1 .. (i - 1)
  BY <1>2 DEF NeedsAdmin, Commits
<1> QED BY <1>2, <1>4, <1>5, <1>6, <1>7 DEF StepsOK, Ordered, all

(* The order of the steps in every route of the broker.                    *)
LEMMA BrokerRoutesOK == \A route \in BrokerRoutes : StepsOK("broker", route.steps)
<1>1. CommandLast(<<>>)
  BY DEF CommandLast
<1>2. CommandLast(<<"list">>)
  BY DEF CommandLast, BrokerSteps
<1>3. CommandLast(<<"body", "get">>)
  BY DEF CommandLast, BrokerSteps
<1>4. CommandLast(<<"body", "kind", "command">>)
  BY DEF CommandLast, BrokerSteps
<1>5. CommandLast(<<"body", "command", "list">>)
  <2>1. <<"body", "command", "list">> \in Seq(BrokerSteps)
    BY DEF BrokerSteps
  <2> DEFINE s == <<"body", "command", "list">>
  <2>2. DOMAIN s = {1, 2, 3} /\ s[1] = "body" /\ s[3] = "list"
    OBVIOUS
  <2> HIDE DEF s
  <2>3. \A i, j \in DOMAIN s : i < j /\ s[i] = "command" => s[j] = "list"
    BY <2>2
  <2> QED BY <2>1, <2>3 DEF CommandLast, s
<1>6. CommandLast(<<"body", "file">>) /\ CommandLast(<<"body", "command">>)
  BY DEF CommandLast, BrokerSteps
<1>7. CommandLast(OverviewSteps)
  BY DEF CommandLast, BrokerSteps, OverviewSteps
<1>8. CommandLast(CoordinatorSteps)
  BY DEF CommandLast, BrokerSteps, OverviewSteps, CoordinatorSteps
<1>9. CommandLast(<<"body">> \o CatalogSteps \o <<"deck", "command">>) /\ CommandLast(CatalogSteps)
  BY DEF CommandLast, BrokerSteps, CatalogSteps
<1>10. StepsOK("broker", <<>>)
  BY DEF StepsOK, Ordered
<1> DEFINE OK(route) == StepsOK("broker", route.steps)
<1>11. \A name, steps : CommandLast(steps) => OK(Route(name, ForAdmins(steps)))
  BY ForAdminsOK DEF Route
<1>12. OK(brokerHealth)
  BY <1>10 DEF Route, brokerHealth
<1> HIDE DEF OK
<1>13. OK(getOverview)
  BY <1>11, <1>7 DEF getOverview
<1>14. OK(getCoordinatorStatus)
  BY <1>11, <1>8 DEF getCoordinatorStatus
<1>15. OK(getTasks) /\ OK(getRuns) /\ OK(getUiReviewRuns) /\ OK(getFindings) /\
      OK(getBaselines) /\ OK(getPreviewRuns) /\ OK(getFeedback) /\ OK(getItems) /\
      OK(getUnits) /\ OK(getInventoryBuilds) /\ OK(getEvents) /\ OK(getRunDeployments) /\
      OK(getSourceDocuments) /\ OK(getClaims) /\ OK(searchClaims) /\ OK(getEvaluations) /\
      OK(getDevProfile)
  BY <1>11, <1>2 DEF Get, getTasks, getRuns, getUiReviewRuns, getFindings, getBaselines,
      getPreviewRuns, getFeedback, getItems, getUnits, getInventoryBuilds, getEvents,
      getRunDeployments, getSourceDocuments, getClaims, searchClaims, getEvaluations,
      getDevProfile
<1>16. OK(getTask) /\ OK(getRun) /\ OK(getUiReviewRun) /\ OK(getPreviewRun) /\
      OK(getItem) /\ OK(getUnit) /\ OK(getInventoryBuild) /\ OK(getRunDeployment)
  BY <1>11, <1>3 DEF GetOne, getTask, getRun, getUiReviewRun, getPreviewRun, getItem,
      getUnit, getInventoryBuild, getRunDeployment
<1>17. OK(enqueueTask)
  BY <1>11, <1>4 DEF enqueueTask
<1>18. OK(retryTask) /\ OK(startUiReview) /\ OK(reviewFinding) /\ OK(promoteBaseline) /\
      OK(postFeedback) /\ OK(startBuild) /\ OK(runtimePublish) /\ OK(seedInventory) /\
      OK(startDeployment) /\ OK(resumeDeployment) /\ OK(completeStep) /\
      OK(cancelDeployment) /\ OK(postSignal)
  BY <1>11, <1>6 DEF retryTask, startUiReview, reviewFinding, promoteBaseline,
      postFeedback, startBuild, runtimePublish, seedInventory, startDeployment,
      resumeDeployment, completeStep, cancelDeployment, postSignal
<1>19. OK(getUiReviewAsset) /\ OK(getPreviewAsset)
  BY <1>11, <1>6 DEF getUiReviewAsset, getPreviewAsset
<1>20. OK(getDecks) /\ OK(getDocsCatalog) /\ OK(getSkills)
  BY <1>11, <1>9 DEF getDecks, getDocsCatalog, getSkills
<1>21. OK(startPreview)
  BY <1>11, <1>9 DEF startPreview
<1>22. OK(getProfileSummary)
  BY <1>11, <1>1 DEF getProfileSummary
<1>23. OK(postDecision)
  BY <1>11, <1>5 DEF postDecision
<1> QED
  BY <1>12, <1>13, <1>14, <1>15, <1>16, <1>17, <1>18, <1>19, <1>20, <1>21, <1>22, <1>23
  DEF BrokerRoutes, OK

(* The order of the steps in every route of the runtime API.               *)
LEMMA ApiRoutesOK == \A route \in ApiRoutes : StepsOK("api", route.steps)
<1>1. StepsOK("api", <<>>)
  BY DEF StepsOK, Ordered, Commits, Quiet, NeedsAdmin, Names, Plain, Checks
<1>2. StepsOK("api", <<"ready">>)
  BY DEF StepsOK, Ordered, Commits, Quiet, NeedsAdmin, Names, Plain, Checks
<1>3. StepsOK("api", <<"body", "count", "root", "read">>)
  BY DEF StepsOK, Ordered, Commits, Quiet, NeedsAdmin, Names, Plain, Checks
<1>4. StepsOK("api", <<"body", "login", "read">>)
  BY DEF StepsOK, Ordered, Commits, Quiet, NeedsAdmin, Names, Plain, Checks
<1>5. StepsOK("api", <<"logout">>)
  BY DEF StepsOK, Ordered, Commits, Quiet, NeedsAdmin, Names, Plain, Checks
<1>6. StepsOK("api", <<"who", "read">>)
  BY DEF StepsOK, Ordered, Commits, Quiet, NeedsAdmin, Names, Plain, Checks
<1>7. StepsOK("api", <<"auth", "read">>)
  BY DEF StepsOK, Ordered, Commits, Quiet, NeedsAdmin, Names, Plain, Checks
<1>8. StepsOK("api", <<"auth", "body", "token">>)
  BY DEF StepsOK, Ordered, Commits, Quiet, NeedsAdmin, Names, Plain, Checks
<1>9. StepsOK("api", <<"auth", "revoke">>)
  BY DEF StepsOK, Ordered, Commits, Quiet, NeedsAdmin, Names, Plain, Checks
<1>10. StepsOK("api", <<"auth", "body", "profile", "event", "agent", "read">>)
  BY DEF StepsOK, Ordered, Commits, Quiet, NeedsAdmin, Names, Plain, Checks
<1>11. StepsOK("api", <<"event", "agent">>)
  BY DEF StepsOK, Ordered, Commits, Quiet, NeedsAdmin, Names, Plain, Checks
<1>12. StepsOK("api", <<"auth", "body", "view">> \o RecordObservation)
  BY DEF StepsOK, Ordered, Commits, Quiet, NeedsAdmin, Names, Plain, Checks, RecordObservation
<1>13. StepsOK("api", <<"auth", "body", "own">> \o RecordObservation)
  BY DEF StepsOK, Ordered, Commits, Quiet, NeedsAdmin, Names, Plain, Checks, RecordObservation
<1>14. StepsOK("api", <<"auth", "body">> \o RecordObservation)
  BY DEF StepsOK, Ordered, Commits, Quiet, NeedsAdmin, Names, Plain, Checks, RecordObservation
<1>15. StepsOK("api", <<"auth", "target", "agent-read">>)
  BY DEF StepsOK, Ordered, Commits, Quiet, NeedsAdmin, Names, Plain, Checks
<1>16. StepsOK("api", <<"auth", "body", "target", "suggestion", "body", "agent-write">>)
  BY DEF StepsOK, Ordered, Commits, Quiet, NeedsAdmin, Names, Plain, Checks
<1>17. StepsOK("api", <<"auth", "body", "target", "suggestion", "profile", "agent-write", "read">>)
  BY DEF StepsOK, Ordered, Commits, Quiet, NeedsAdmin, Names, Plain, Checks
<1>18. StepsOK("api", <<"auth", "agent-read">>)
  BY DEF StepsOK, Ordered, Commits, Quiet, NeedsAdmin, Names, Plain, Checks
<1>19. StepsOK("api", <<"auth", "body", "agent-read">>)
  BY DEF StepsOK, Ordered, Commits, Quiet, NeedsAdmin, Names, Plain, Checks
<1>20. StepsOK("api", <<"auth", "admin", "read">>)
  BY DEF StepsOK, Ordered, Commits, Quiet, NeedsAdmin, Names, Plain, Checks
<1>21. StepsOK("api", <<"auth", "admin", "body", "account">>)
  BY DEF StepsOK, Ordered, Commits, Quiet, NeedsAdmin, Names, Plain, Checks
<1>22. StepsOK("api", <<"auth", "body", "read">>)
  BY DEF StepsOK, Ordered, Commits, Quiet, NeedsAdmin, Names, Plain, Checks
<1> DEFINE OK(route) == StepsOK("api", route.steps)
<1>23. \A name, steps : StepsOK("api", steps) => OK(Route(name, steps))
  BY DEF Route
<1> HIDE DEF OK
<1>24. OK(getHealth)
  BY <1>23, <1>1 DEF getHealth
<1>25. OK(getReady)
  BY <1>23, <1>2 DEF getReady
<1>26. OK(postBootstrap)
  BY <1>23, <1>3 DEF postBootstrap
<1>27. OK(postLogin)
  BY <1>23, <1>4 DEF postLogin
<1>28. OK(postLogout)
  BY <1>23, <1>5 DEF postLogout
<1>29. OK(getSession)
  BY <1>23, <1>6 DEF getSession
<1>30. OK(getMe) /\ OK(getProfile) /\ OK(getViews) /\ OK(getSavedViews)
  BY <1>23, <1>7 DEF getMe, getProfile, getViews, getSavedViews
<1>31. OK(postTokens)
  BY <1>23, <1>8 DEF postTokens
<1>32. OK(deleteToken)
  BY <1>23, <1>9 DEF deleteToken
<1>33. OK(patchProfile)
  BY <1>23, <1>10 DEF patchProfile
<1>34. OK(postViews)
  BY <1>23, <1>12 DEF postViews
<1>35. OK(patchView)
  BY <1>23, <1>13 DEF patchView
<1>36. OK(postObservations)
  BY <1>23, <1>14 DEF postObservations
<1>37. OK(getSuggestions)
  BY <1>23, <1>15 DEF getSuggestions
<1>38. OK(postReview)
  BY <1>23, <1>16 DEF postReview
<1>39. OK(postPublish)
  BY <1>23, <1>17 DEF postPublish
<1>40. OK(getBuilds)
  BY <1>23, <1>18 DEF getBuilds
<1>41. OK(getBuild) /\ OK(getDeployments) /\ OK(getDeployment)
  BY <1>23, <1>19 DEF getBuild, getDeployments, getDeployment
<1>42. OK(getAccounts)
  BY <1>23, <1>20 DEF getAccounts
<1>43. OK(postAccounts)
  BY <1>23, <1>21 DEF postAccounts
<1>44. OK(getDevices) /\ OK(getPositions) /\ OK(getSolutions)
  BY <1>23, <1>22 DEF getDevices, getPositions, getSolutions
<1> QED
  BY <1>24, <1>25, <1>26, <1>27, <1>28, <1>29, <1>30, <1>31, <1>32, <1>33, <1>34, <1>35,
      <1>36, <1>37, <1>38, <1>39, <1>40, <1>41, <1>42, <1>43, <1>44
  DEF ApiRoutes, OK

(* Every request a client addresses to the runtime API has a route there.  *)
LEMMA RuntimeRoutes == \A name \in RuntimeRequests : \E route \in ApiRoutes : route.name = name
<1> DEFINE Known(name) == \E route \in ApiRoutes : route.name = name
<1>1. \A name, steps : Route(name, steps) \in ApiRoutes => Known(name)
  BY DEF Route
<1> HIDE DEF Known
<1>2. \A name \in ServiceCalls : Known(name)
  <2> {getHealth, getReady} \subseteq ApiRoutes
    BY DEF ApiRoutes
  <2> QED BY <1>1 DEF ServiceCalls, getHealth, getReady
<1>3. \A name \in RuntimeDataCalls : Known(name)
  <2> {getDevices, getPositions, getSolutions, getSavedViews} \subseteq ApiRoutes
    BY DEF ApiRoutes
  <2> QED BY <1>1 DEF RuntimeDataCalls, getDevices, getPositions, getSolutions, getSavedViews
<1>4. \A name \in AuthCalls : Known(name)
  <2> {postBootstrap, postLogin, postLogout, getSession, getMe, postTokens, deleteToken} \subseteq
    ApiRoutes
    BY DEF ApiRoutes
  <2> QED BY <1>1 DEF AuthCalls, postBootstrap, postLogin, postLogout, getSession, getMe,
    postTokens, deleteToken
<1>5. \A name \in PreferenceCalls : Known(name)
  <2> {getProfile, patchProfile, getViews, postViews, patchView, postObservations} \subseteq
    ApiRoutes
    BY DEF ApiRoutes
  <2> QED BY <1>1 DEF PreferenceCalls, getProfile, patchProfile, getViews, postViews, patchView,
    postObservations
<1>6. \A name \in SuggestionCalls : Known(name)
  <2> {getSuggestions, postReview, postPublish} \subseteq ApiRoutes
    BY DEF ApiRoutes
  <2> QED BY <1>1 DEF SuggestionCalls, getSuggestions, postReview, postPublish
<1>7. \A name \in AccountCalls : Known(name)
  <2> {getAccounts, postAccounts} \subseteq ApiRoutes
    BY DEF ApiRoutes
  <2> QED BY <1>1 DEF AccountCalls, getAccounts, postAccounts
<1>8. \A name \in HardwarePageCalls : Known(name)
  <2> {getBuilds, getDeployments, getDeployment} \subseteq ApiRoutes
    BY DEF ApiRoutes
  <2> QED BY <1>1 DEF HardwarePageCalls, getBuilds, getDeployments, getDeployment
<1> QED BY <1>2, <1>3, <1>4, <1>5, <1>6, <1>7, <1>8 DEF RuntimeRequests, Known

(* Every request the broker's client addresses to it has a route there,    *)
(* but for the four that only the runtime API serves.                      *)
LEMMA ConsoleRoutes ==
  \A name \in BrokerRequests \ RuntimeHardwareCalls : \E route \in BrokerRoutes : route.name = name
<1> DEFINE Known(name) == \E route \in BrokerRoutes : route.name = name
<1>1. \A name, steps : Route(name, steps) \in BrokerRoutes => Known(name)
  BY DEF Route
<1> HIDE DEF Known
<1>2. \A name \in WorkspaceCalls : Known(name)
  <2> {brokerHealth, getOverview, getCoordinatorStatus} \subseteq BrokerRoutes
    BY DEF BrokerRoutes
  <2> QED BY <1>1 DEF WorkspaceCalls, brokerHealth, getOverview, getCoordinatorStatus
<1>3. \A name \in CoordinationCalls : Known(name)
  <2> {getTasks, enqueueTask, retryTask, getRuns, getRun} \subseteq BrokerRoutes
    BY DEF BrokerRoutes
  <2> QED BY <1>1 DEF CoordinationCalls, Get, GetOne, getTasks, enqueueTask, retryTask, getRuns,
    getRun
<1>4. \A name \in AssetCalls : Known(name)
  <2> {getPreviewAsset, getUiReviewAsset} \subseteq BrokerRoutes
    BY DEF BrokerRoutes
  <2> QED BY <1>1 DEF AssetCalls, getPreviewAsset, getUiReviewAsset
<1>5. \A name \in PreviewCalls : Known(name)
  <2> {getDecks, getPreviewRuns, getPreviewRun, startPreview, getFeedback, postFeedback} \subseteq
    BrokerRoutes
    BY DEF BrokerRoutes
  <2> QED BY <1>1 DEF PreviewCalls, Get, GetOne, getDecks, getPreviewRuns, getPreviewRun,
    startPreview, getFeedback, postFeedback
<1>6. \A name \in ReviewCalls : Known(name)
  <2> {getUiReviewRuns, getUiReviewRun, startUiReview, getFindings, reviewFinding, getBaselines,
    promoteBaseline} \subseteq BrokerRoutes
    BY DEF BrokerRoutes
  <2> QED BY <1>1 DEF ReviewCalls, Get, GetOne, getUiReviewRuns, getUiReviewRun, startUiReview,
    getFindings, reviewFinding, getBaselines, promoteBaseline
<1>7. \A name \in KnowledgeCalls : Known(name)
  <2> {getSourceDocuments, getClaims, searchClaims, getEvaluations, getDocsCatalog, getSkills}
    \subseteq BrokerRoutes
    BY DEF BrokerRoutes
  <2> QED BY <1>1 DEF KnowledgeCalls, Get, getSourceDocuments, getClaims, searchClaims,
    getEvaluations, getDocsCatalog, getSkills
<1>8. \A name \in DevProfileCalls : Known(name)
  <2> {getProfileSummary, getDevProfile} \subseteq BrokerRoutes
    BY DEF BrokerRoutes
  <2> QED BY <1>1 DEF DevProfileCalls, Get, getProfileSummary, getDevProfile
<1>9. \A name \in InventoryCalls : Known(name)
  <2> {getItems, getItem, getUnits, getUnit, getInventoryBuilds, getInventoryBuild, getEvents}
    \subseteq BrokerRoutes
    BY DEF BrokerRoutes
  <2> QED BY <1>1 DEF InventoryCalls, Get, GetOne, getItems, getItem, getUnits, getUnit,
    getInventoryBuilds, getInventoryBuild, getEvents
<1>10. \A name \in BuildCalls : Known(name)
  <2> {startBuild, runtimePublish} \subseteq BrokerRoutes
    BY DEF BrokerRoutes
  <2> QED BY <1>1 DEF BuildCalls, startBuild, runtimePublish
<1>11. \A name \in DeploymentCalls : Known(name)
  <2> {getRunDeployments, getRunDeployment} \subseteq BrokerRoutes
    BY DEF BrokerRoutes
  <2> QED BY <1>1 DEF DeploymentCalls, Get, GetOne, getRunDeployments, getRunDeployment
<1>12. \A name \in DeploymentWriteCalls : Known(name)
  <2> {startDeployment, resumeDeployment, completeStep, cancelDeployment} \subseteq BrokerRoutes
    BY DEF BrokerRoutes
  <2> QED BY <1>1 DEF DeploymentWriteCalls, startDeployment, resumeDeployment, completeStep,
    cancelDeployment
<1>13. \A name \in WriteCalls : Known(name)
  <2> {seedInventory, postSignal, postDecision} \subseteq BrokerRoutes
    BY DEF BrokerRoutes
  <2> QED BY <1>1 DEF WriteCalls, seedInventory, postSignal, postDecision
<1> QED BY <1>2, <1>3, <1>4, <1>5, <1>6, <1>7, <1>8, <1>9, <1>10, <1>11, <1>12, <1>13 DEF BrokerRequests, Known

-----------------------------------------------------------------------------
(* The invariant *)

Stages == {"idle", "sent", "ok", "refused", "failed", "no route"}
Requests == [stage : Stages, cred : [kind : {"none", "session", "token"}, id : Nat],
             at : {"api", "broker"}, dead : BOOLEAN, left : Seq(Names),
             due : SUBSET Commits, did : SUBSET Commits]
RowsOf(S) == [owner : S, over : BOOLEAN]

RowsOK ==
  /\ accounts \in [Accounts -> {"absent", "operator", "admin"}]
  /\ sessions \in Seq(RowsOf(Existing))
  /\ tokens \in Seq(RowsOf(Existing))
  /\ views \in Seq(Existing)
  /\ roots \subseteq {a \in Accounts : accounts[a] = "admin"}
  /\ Existing # {} => roots # {}
  /\ Cardinality(roots) > 1 => overlapped

AdminBehind(cred) == cred # NoCredential /\ accounts[RowOf(cred).owner] = "admin"

\* What a request on its way has before it, and what is established behind it.
StepsLeft(call) ==
  /\ call.left # <<>> /\ Ordered(call.left)
  /\ \A i \in DOMAIN call.left :
       call.left[i] \in {"admin", "token", "view"} => call.left[1] = "auth" \/ call.cred # NoCredential
  /\ \A i \in DOMAIN call.left :
       NeedsAdmin(call.at, call.left[i])
         => (\E j \in 1 .. (i - 1) : call.left[j] = "admin") \/ AdminBehind(call.cred)
  /\ call.due = call.did \cup Due(call.left)
  /\ call.did # {} => \A i \in DOMAIN call.left : call.left[i] \in Quiet
  /\ call.dead => call.left[1] = "auth" /\ Worthless(call.cred)

CallOK(call) ==
  /\ call \in Requests /\ call.cred \in Credentials
  /\ call.stage = "sent" => StepsLeft(call)
  /\ call.dead => call.did = {} /\ call.stage # "ok"
  /\ call.did # {} /\ (call.at = "broker" \/ "account" \in call.did) => AdminBehind(call.cred)
  /\ call.stage = "refused" => call.did = {}
  /\ call.stage = "ok" => call.did = call.due
  /\ call.stage = "no route" => call.at = "broker"

CallsOK == calls \in [Clients -> Requests] /\ \A c \in Clients : CallOK(calls[c])

\* Who is about to insert the first account.
BootstrapOK ==
  \A c \in Clients : At(c, "root") =>
    /\ Existing # {} => overlapped
    /\ \A d \in Clients \ {c} : At(d, "root") => overlapped

BrokerInv == RowsOK /\ CallsOK /\ BootstrapOK

\* What no step takes back.
RowsGrow ==
  /\ Len(sessions) <= Len(sessions') /\ Len(tokens) <= Len(tokens')
  /\ \A i \in 1 .. Len(sessions) :
       sessions'[i].owner = sessions[i].owner /\ (sessions[i].over => sessions'[i].over)
  /\ \A i \in 1 .. Len(tokens) :
       tokens'[i].owner = tokens[i].owner /\ (tokens[i].over => tokens'[i].over)
  /\ \A a \in Accounts : accounts[a] = "admin" => accounts'[a] = "admin"
  /\ disabled \subseteq disabled'

-----------------------------------------------------------------------------
(* A credential stays one, stays worthless, and stays an administrator's.  *)
LEMMA CredentialStable ==
  ASSUME RowsOK, RowsGrow, NEW cred, cred \in Credentials
  PROVE  /\ cred \in Credentials'
         /\ Worthless(cred) => Worthless(cred)'
         /\ AdminBehind(cred) => AdminBehind(cred)'
<1>1. Len(sessions) \in Nat /\ Len(tokens) \in Nat
  BY DEF RowsOK
<1>2. Existing \subseteq Accounts
  BY DEF Existing
<1>3. \A i \in 1 .. Len(sessions) : sessions[i].owner \in Accounts
  <2>1. \A i \in 1 .. Len(sessions) : sessions[i] \in RowsOf(Existing)
    BY DEF RowsOK
  <2> QED BY <1>2, <2>1 DEF RowsOf
<1>4. \A i \in 1 .. Len(tokens) : tokens[i].owner \in Accounts
  <2>1. \A i \in 1 .. Len(tokens) : tokens[i] \in RowsOf(Existing)
    BY DEF RowsOK
  <2> QED BY <1>2, <2>1 DEF RowsOf
<1>5. CASE cred = NoCredential
  BY <1>5 DEF Credentials, Worthless, AdminBehind
<1>6. CASE cred \in [kind : {"session"}, id : 1 .. Len(sessions)]
  BY <1>1, <1>3, <1>6 DEF Credentials, Worthless, AdminBehind, RowsGrow, RowOf, NoCredential
<1>7. CASE cred \in [kind : {"token"}, id : 1 .. Len(tokens)]
  BY <1>1, <1>4, <1>7 DEF Credentials, Worthless, AdminBehind, RowsGrow, RowOf, NoCredential
<1> QED BY <1>5, <1>6, <1>7 DEF Credentials

(* What holds of a request goes on to hold while other requests move.      *)
LEMMA CallStable ==
  ASSUME RowsOK, RowsGrow, NEW call, CallOK(call)
  PROVE  CallOK(call)'
<1>1. /\ call.cred \in Credentials'
      /\ Worthless(call.cred) => Worthless(call.cred)'
      /\ AdminBehind(call.cred) => AdminBehind(call.cred)'
  BY CredentialStable DEF CallOK
<1> QED BY <1>1 DEF CallOK, StepsLeft

-----------------------------------------------------------------------------
(* The steps of a request *)

\* What the records of a request look like behind a step.
Ended(call, stage, did) ==
  [stage |-> stage, cred |-> call.cred, at |-> call.at, dead |-> call.dead,
   left |-> <<>>, due |-> call.due, did |-> call.did \cup did]
Behind(call, did) ==
  [stage |-> call.stage, cred |-> call.cred, at |-> call.at, dead |-> call.dead,
   left |-> Tail(call.left), due |-> call.due, did |-> call.did \cup did]

(* The same as updates of a record with the fields of a request.           *)
LEMMA UpdatedLeft ==
  ASSUME NEW call \in Requests, NEW left, NEW did
  PROVE  [call EXCEPT !.left = left, !.did = did]
           = [stage |-> call.stage, cred |-> call.cred, at |-> call.at, dead |-> call.dead,
              left |-> left, due |-> call.due, did |-> did]
<1> DEFINE B == [kind : {"none", "session", "token"}, id : Nat]
           C == {"api", "broker"}
           F == SUBSET Commits
<1>0. call \in [stage : Stages, cred : B, at : C, dead : BOOLEAN, left : Seq(Names), due : F, did : F]
  BY DEF Requests
<1> HIDE DEF B, C, F
<1>1. PICK x : x = [call EXCEPT !.left = left]
  OBVIOUS
<1>2. x = [stage |-> call.stage, cred |-> call.cred, at |-> call.at, dead |-> call.dead,
           left |-> left, due |-> call.due, did |-> call.did]
  BY <1>0, <1>1
<1>3. x \in [stage : Stages, cred : B, at : C, dead : BOOLEAN, left : {left}, due : F, did : F]
  BY <1>0, <1>2
<1>4. [x EXCEPT !.did = did]
        = [stage |-> x.stage, cred |-> x.cred, at |-> x.at, dead |-> x.dead,
           left |-> x.left, due |-> x.due, did |-> did]
  BY <1>3
<1>5. [call EXCEPT !.left = left, !.did = did] = [x EXCEPT !.did = did]
  BY <1>1
<1> QED BY <1>2, <1>4, <1>5

(* The same where the stage is updated as well.                            *)
LEMMA UpdatedStage ==
  ASSUME NEW call \in Requests, NEW stage, NEW left, NEW did
  PROVE  [call EXCEPT !.stage = stage, !.left = left, !.did = did]
           = [stage |-> stage, cred |-> call.cred, at |-> call.at, dead |-> call.dead,
              left |-> left, due |-> call.due, did |-> did]
<1> DEFINE B == [kind : {"none", "session", "token"}, id : Nat]
           C == {"api", "broker"}
           F == SUBSET Commits
<1>0. call \in [stage : Stages, cred : B, at : C, dead : BOOLEAN, left : Seq(Names), due : F, did : F]
  BY DEF Requests
<1> HIDE DEF B, C, F
<1>1. PICK y : y = [call EXCEPT !.stage = stage]
  OBVIOUS
<1>2. y = [stage |-> stage, cred |-> call.cred, at |-> call.at, dead |-> call.dead,
           left |-> call.left, due |-> call.due, did |-> call.did]
  BY <1>0, <1>1
<1>3. y \in [stage : {stage}, cred : B, at : C, dead : BOOLEAN, left : Seq(Names), due : F, did : F]
  BY <1>0, <1>2
<1>4. PICK z : z = [y EXCEPT !.left = left]
  OBVIOUS
<1>5. z = [stage |-> y.stage, cred |-> y.cred, at |-> y.at, dead |-> y.dead,
            left |-> left, due |-> y.due, did |-> y.did]
  BY <1>3, <1>4
<1>6. z \in [stage : {stage}, cred : B, at : C, dead : BOOLEAN, left : {left}, due : F, did : F]
  BY <1>3, <1>5
<1>7. [z EXCEPT !.did = did]
         = [stage |-> z.stage, cred |-> z.cred, at |-> z.at, dead |-> z.dead,
            left |-> z.left, due |-> z.due, did |-> did]
  BY <1>6
<1>8. [call EXCEPT !.stage = stage, !.left = left, !.did = did] = [z EXCEPT !.did = did]
  BY <1>1, <1>4
<1> QED BY <1>2, <1>5, <1>7, <1>8

(* An answer changes the one request it belongs to.                        *)
LEMMA AnswersOne ==
  ASSUME calls \in [Clients -> Requests], NEW c \in Clients, NEW stage, NEW did,
         Answered(c, stage, did)
  PROVE  /\ calls' = [calls EXCEPT ![c] = Ended(calls[c], stage, did)]
<1>1. calls[c] \in Requests
  OBVIOUS
<1>2. [calls[c] EXCEPT !.stage = stage, !.left = <<>>, !.did = @ \cup did] = Ended(calls[c], stage, did)
  <2>1. \A m : [calls[c] EXCEPT !.stage = stage, !.left = <<>>, !.did = m]
                = [stage |-> stage, cred |-> calls[c].cred, at |-> calls[c].at, dead |-> calls[c].dead,
                   left |-> <<>>, due |-> calls[c].due, did |-> m]
    BY <1>1, UpdatedStage, Zenon
  <2> QED BY <2>1 DEF Ended
<1>3. calls' = [calls EXCEPT ![c] = [calls[c] EXCEPT !.stage = stage, !.left = <<>>, !.did = @ \cup did]]
  BY DEF Answered
<1> QED BY <1>2, <1>3

(* Going on changes the one request that goes on.                          *)
LEMMA AdvancesOne ==
  ASSUME calls \in [Clients -> Requests], NEW c \in Clients, NEW did, Advances(c, did)
  PROVE  \/ Len(calls[c].left) = 1 /\ calls' = [calls EXCEPT ![c] = Ended(calls[c], "ok", did)]
         \/ Len(calls[c].left) # 1 /\ calls' = [calls EXCEPT ![c] = Behind(calls[c], did)]
<1>1. CASE Len(calls[c].left) = 1
  BY <1>1, AnswersOne DEF Advances
<1>2. CASE Len(calls[c].left) # 1
  <2>1. calls[c] \in Requests
    OBVIOUS
  <2>2. [calls[c] EXCEPT !.left = Tail(@), !.did = @ \cup did] = Behind(calls[c], did)
    <3>1. \A k, m : [calls[c] EXCEPT !.left = k, !.did = m]
                     = [stage |-> calls[c].stage, cred |-> calls[c].cred, at |-> calls[c].at,
                        dead |-> calls[c].dead, left |-> k, due |-> calls[c].due, did |-> m]
      BY <2>1, UpdatedLeft, Zenon
    <3> QED BY <3>1 DEF Behind
  <2>3. calls' = [calls EXCEPT ![c] = [calls[c] EXCEPT !.left = Tail(@), !.did = @ \cup did]]
    BY <1>2 DEF Advances
  <2> QED BY <1>2, <2>2, <2>3
<1> QED BY <1>1, <1>2

(* A request whose step is done and that goes on.                          *)
LEMMA BehindOK ==
  ASSUME NEW call, CallOK(call), call.stage = "sent", Len(call.left) # 1,
         NEW did, did = {call.left[1]} \cap Commits,
         call.left[1] = "auth" => Authenticates(call.cred),
         call.left[1] = "admin" => AdminBehind(call.cred)
  PROVE  /\ CallOK(Behind(call, did))
         /\ call.left[2] = "root" => call.left[1] = "count"
<1> DEFINE new == Behind(call, did)
           left == call.left
           rest == Tail(left)
<1>1. /\ left \in Seq(Names) /\ Len(left) \in Nat /\ Len(left) > 1 /\ rest \in Seq(Names) /\ rest # <<>>
      /\ DOMAIN left = 1 .. Len(left) /\ DOMAIN rest = 1 .. (Len(left) - 1)
      /\ \A i \in DOMAIN rest : i + 1 \in DOMAIN left /\ rest[i] = left[i + 1]
  <2>1. left \in Seq(Names) /\ left # <<>>
    BY DEF CallOK, Requests, StepsLeft
  <2>2. Len(left) \in Nat /\ Len(left) # 0 /\ Len(left) # 1 /\ DOMAIN left = 1 .. Len(left)
    BY <2>1, EmptySeq
  <2> HIDE DEF left
  <2>3. rest \in Seq(Names) /\ Len(rest) = Len(left) - 1 /\ DOMAIN rest = 1 .. (Len(left) - 1)
    BY <2>1, <2>2
  <2>4. \A i \in 1 .. (Len(left) - 1) : i + 1 \in 1 .. Len(left) /\ rest[i] = left[i + 1]
    BY <2>1, <2>2
  <2> HIDE DEF rest
  <2>5. Len(left) > 1
    BY <2>2
  <2>6. rest # <<>>
    BY <2>3, <2>5, EmptySeq
  <2> QED BY <2>1, <2>2, <2>3, <2>4, <2>5, <2>6
<1>2. /\ Ordered(left) /\ call.due = call.did \cup Due(left)
      /\ call.did # {} => \A i \in DOMAIN left : left[i] \in Quiet
      /\ call.dead => left[1] = "auth" /\ Worthless(call.cred)
  BY DEF CallOK, StepsLeft
<1>3. left[1] = "auth" => call.cred # NoCredential /\ ~Worthless(call.cred)
  BY DEF Authenticates, Worthless
<1>4. ~call.dead
  BY <1>2, <1>3
<1>5. /\ call \in Requests /\ call.cred \in Credentials
      /\ call.did # {} /\ (call.at = "broker" \/ "account" \in call.did) => AdminBehind(call.cred)
      /\ \A i \in DOMAIN left :
           left[i] \in {"admin", "token", "view"} => left[1] = "auth" \/ call.cred # NoCredential
      /\ \A i \in DOMAIN left :
           NeedsAdmin(call.at, left[i])
             => (\E j \in 1 .. (i - 1) : left[j] = "admin") \/ AdminBehind(call.cred)
  BY DEF CallOK, StepsLeft
<1>6. /\ new \in Requests /\ new.stage = "sent" /\ new.cred = call.cred /\ new.at = call.at
      /\ new.dead = call.dead /\ new.left = rest /\ new.due = call.due /\ new.did = call.did \cup did
  BY <1>1, <1>5 DEF Requests, Behind
<1> HIDE DEF new, left, rest
<1>7. 1 \in DOMAIN left /\ 2 \in DOMAIN left
  BY <1>1
<1>8. Ordered(rest)
  <2>1. ASSUME NEW i \in DOMAIN rest, NEW j \in DOMAIN rest, i < j, rest[i] \in Commits
        PROVE  rest[j] \in Quiet
    BY <1>1, <1>2, <2>1 DEF Ordered
  <2>2. \A i \in DOMAIN rest : rest[i] # "auth"
    BY <1>1, <1>2 DEF Ordered
  <2>3. ASSUME NEW i \in DOMAIN rest, rest[i] = "root", i > 1
        PROVE  rest[i - 1] = "count"
    <3>1. i + 1 \in DOMAIN left /\ left[i + 1] = "root" /\ i + 1 > 1 /\ i - 1 \in DOMAIN rest
      BY <1>1, <2>3
    <3>2. left[(i + 1) - 1] = "count"
      BY <3>1, <1>2 DEF Ordered
    <3> QED BY <3>1, <3>2, <1>1
  <2>4. (\E i \in DOMAIN rest : rest[i] = "who") => \A i \in DOMAIN rest : rest[i] \notin Commits
    BY <1>1, <1>2 DEF Ordered
  <2> QED BY <1>1, <2>1, <2>2, <2>3, <2>4 DEF Ordered
<1>9. left[2] = "root" => left[1] = "count"
  BY <1>2, <1>7 DEF Ordered
<1>10. Due(left) = did \cup Due(rest)
  <2>1. \A x : (\E i \in DOMAIN left : left[i] = x) <=> x = left[1] \/ \E i \in DOMAIN rest : rest[i] = x
    <3>1. \A i \in DOMAIN left : i = 1 \/ (i - 1 \in DOMAIN rest /\ rest[i - 1] = left[i])
      BY <1>1
    <3> QED BY <3>1, <1>1, <1>7
  <2> QED BY <2>1 DEF Due, left
<1>11. new.did # {} => \A i \in DOMAIN rest : rest[i] \in Quiet
  <2>1. CASE did # {}
    <3>1. left[1] \in Commits
      BY <2>1 DEF left
    <3> QED BY <3>1, <1>1, <1>2, <1>7 DEF Ordered
  <2>2. CASE did = {}
    BY <2>2, <1>1, <1>2, <1>6
  <2> QED BY <2>1, <2>2
<1>12. \A i \in DOMAIN rest :
         rest[i] \in {"admin", "token", "view"} => call.cred # NoCredential
  BY <1>1, <1>3, <1>5
<1>13. ASSUME NEW i \in DOMAIN rest, NeedsAdmin(call.at, rest[i])
       PROVE  (\E j \in 1 .. (i - 1) : rest[j] = "admin") \/ AdminBehind(call.cred)
  <2>1. i + 1 \in DOMAIN left /\ NeedsAdmin(call.at, left[i + 1])
    BY <1>1, <1>13
  <2>2. (\E j \in 1 .. ((i + 1) - 1) : left[j] = "admin") \/ AdminBehind(call.cred)
    BY <2>1, <1>5
  <2>3. ASSUME NEW j \in 1 .. ((i + 1) - 1), left[j] = "admin", j # 1
        PROVE  j - 1 \in 1 .. (i - 1) /\ rest[j - 1] = "admin"
    BY <2>3, <1>1
  <2>4. left[1] = "admin" => AdminBehind(call.cred)
    BY DEF left
  <2> QED BY <2>2, <2>3, <2>4
<1>14. StepsLeft(new)
  BY <1>1, <1>2, <1>4, <1>6, <1>8, <1>10, <1>11, <1>12, <1>13 DEF StepsLeft
<1>15. new.did # {} /\ (new.at = "broker" \/ "account" \in new.did) => AdminBehind(new.cred)
  <2>1. CASE did # {} /\ NeedsAdmin(call.at, left[1])
    BY <2>1, <1>5, <1>6, <1>7
  <2>2. CASE did = {} \/ ~NeedsAdmin(call.at, left[1])
    BY <2>2, <1>5, <1>6 DEF NeedsAdmin, left
  <2> QED BY <2>1, <2>2
<1> QED BY <1>4, <1>5, <1>6, <1>9, <1>14, <1>15 DEF CallOK, new, left

(* A request that is answered.                                             *)
LEMMA EndedOK ==
  ASSUME NEW call, CallOK(call), call.stage = "sent", NEW stage, NEW did,
         did \subseteq {call.left[1]} \cap Commits,
         \/ stage = "failed"
         \/ stage = "refused" /\ did = {} /\ call.left[1] \notin Quiet
         \/ /\ stage = "ok" /\ did = {call.left[1]} \cap Commits
            /\ Len(call.left) = 1 \/ call.left[1] = "who"
            /\ call.left[1] = "auth" => Authenticates(call.cred)
  PROVE  CallOK(Ended(call, stage, did))
<1> DEFINE new == Ended(call, stage, did)
           left == call.left
           step == left[1]
<1>1. /\ call \in Requests /\ call.cred \in Credentials /\ StepsLeft(call)
      /\ call.dead => call.did = {}
      /\ call.did # {} /\ (call.at = "broker" \/ "account" \in call.did) => AdminBehind(call.cred)
  BY DEF CallOK
<1>2. /\ left \in Seq(Names) /\ left # <<>> /\ Ordered(left)
      /\ call.due = call.did \cup Due(left)
      /\ call.did # {} => \A i \in DOMAIN left : left[i] \in Quiet
      /\ call.dead => step = "auth" /\ Worthless(call.cred)
      /\ \A i \in DOMAIN left :
           NeedsAdmin(call.at, left[i])
             => (\E j \in 1 .. (i - 1) : left[j] = "admin") \/ AdminBehind(call.cred)
  BY <1>1 DEF StepsLeft, Requests
<1> HIDE DEF left
<1>3. Len(left) \in Nat /\ DOMAIN left = 1 .. Len(left) /\ 1 \in DOMAIN left
  BY <1>2, EmptySeq
<1>4. /\ new.stage = stage /\ new.cred = call.cred /\ new.at = call.at /\ new.dead = call.dead
      /\ new.left = <<>> /\ new.due = call.due /\ new.did = call.did \cup did
  BY DEF Ended
<1>5. new \in Requests
  <2>1. stage \in Stages
    BY DEF Stages
  <2>2. did \in SUBSET Commits
    OBVIOUS
  <2>3. <<>> \in Seq(Names)
    OBVIOUS
  <2> QED BY <1>1, <2>1, <2>2, <2>3 DEF Requests, Ended
<1> HIDE DEF new
<1>6. new.dead => new.did = {} /\ new.stage # "ok"
  <2>1. SUFFICES ASSUME call.dead PROVE new.did = {} /\ stage # "ok"
    BY <1>4
  <2>2. step = "auth" /\ ~Authenticates(call.cred) /\ call.did = {}
    BY <1>1, <1>2, <2>1 DEF Worthless, Authenticates
  <2>3. step \notin Commits
    BY <2>2 DEF Commits
  <2> QED BY <1>4, <2>2, <2>3 DEF left
<1>7. new.did # {} /\ (new.at = "broker" \/ "account" \in new.did) => AdminBehind(new.cred)
  <2>1. CASE NeedsAdmin(call.at, step)
    BY <2>1, <1>2, <1>3, <1>4
  <2>2. CASE ~NeedsAdmin(call.at, step)
    BY <2>2, <1>1, <1>4 DEF NeedsAdmin, left
  <2> QED BY <2>1, <2>2
<1>8. new.stage = "refused" => new.did = {}
  BY <1>2, <1>3, <1>4 DEF left
<1>9. new.stage = "ok" => new.did = new.due
  <2>1. SUFFICES ASSUME stage = "ok" PROVE call.did \cup did = call.did \cup Due(left)
    BY <1>2, <1>4
  <2>2. CASE Len(left) = 1
    <3>1. Due(left) = {step} \cap Commits
      BY <1>3, <2>2 DEF Due
    <3> QED BY <3>1, <2>1 DEF left
  <2>3. CASE step = "who"
    <3>1. Due(left) = {}
      BY <1>2, <1>3, <2>3 DEF Due, Ordered
    <3>2. did = {}
      BY <2>3 DEF Commits, left
    <3> QED BY <3>1, <3>2
  <2> QED BY <2>1, <2>2, <2>3 DEF left
<1>10. new.stage \notin {"sent", "no route"}
  BY <1>4
<1> QED BY <1>1, <1>4, <1>5, <1>6, <1>7, <1>8, <1>9, <1>10 DEF CallOK, new

(* The step behind the first one.                                          *)
LEMMA HeadOfTail ==
  ASSUME NEW S, NEW s \in Seq(S), s # <<>>, Len(s) # 1
  PROVE  Head(Tail(s)) = s[2]
<1>1. Len(s) \in Nat /\ Len(s) # 0
  BY EmptySeq
<1>2. \A n \in Nat : n # 0 /\ n # 1 => n > 1
  OBVIOUS
<1>3. Len(s) > 1
  BY <1>1, <1>2
<1> QED BY <1>3

\* All that a step of the request can come to.
Moves(c, step) ==
  \/ /\ Advances(c, {step} \cap Commits)
     /\ step = "auth" => Authenticates(calls[c].cred)
     /\ step = "admin" => accounts[Me(c)] = "admin"
  \/ \E did \in SUBSET ({step} \cap Commits) : Answered(c, "failed", did)
  \/ step \notin Quiet /\ Answered(c, "refused", {})
  \/ step = "who" /\ Answered(c, "ok", {})

(* Whatever a step comes to, every request is as it should be, as far as   *)
(* the rows of before the step go; and a bootstrap is about to insert only *)
(* behind its count.                                                       *)
LEMMA MovesOK ==
  ASSUME CallsOK, NEW c \in Clients, NEW step, At(c, step), Moves(c, step)
  PROVE  /\ calls' \in [Clients -> Requests]
         /\ \A d \in Clients : CallOK(calls'[d])
         /\ \A d \in Clients : At(d, "root")' => IF d = c THEN step = "count" ELSE At(d, "root")
<1> DEFINE call == calls[c]
<1>1. /\ calls \in [Clients -> Requests] /\ call \in Requests /\ CallOK(call) /\ call.stage = "sent"
      /\ \A d \in Clients : CallOK(calls[d])
  BY DEF CallsOK, At
<1>2. /\ call.left \in Seq(Names) /\ call.left # <<>>
  BY <1>1 DEF CallOK, StepsLeft, Requests
<1>3. call.left[1] = step
  BY <1>2 DEF At
<1>4. step = "admin" => call.cred # NoCredential
  <2>1. 1 \in DOMAIN call.left
    BY <1>2, EmptySeq
  <2> QED BY <1>1, <1>3, <2>1 DEF CallOK, StepsLeft
<1>5. CASE \E new : /\ CallOK(new) /\ calls' = [calls EXCEPT ![c] = new]
                    /\ new.stage = "sent" /\ Head(new.left) = "root" => step = "count"
  <2>1. PICK new : /\ CallOK(new) /\ calls' = [calls EXCEPT ![c] = new]
                   /\ new.stage = "sent" /\ Head(new.left) = "root" => step = "count"
    BY <1>5
  <2>2. new \in Requests /\ calls' \in [Clients -> Requests] /\ calls'[c] = new
    BY <2>1, <1>1 DEF CallOK
  <2>3. \A d \in Clients : d # c => calls'[d] = calls[d]
    BY <2>1, <1>1
  <2>4. \A d \in Clients : At(d, "root")' => IF d = c THEN step = "count" ELSE At(d, "root")
    BY <2>1, <2>2, <2>3 DEF At
  <2> QED BY <1>1, <2>1, <2>2, <2>3, <2>4
<1>6. ASSUME NEW stage, NEW did, Answered(c, stage, did), CallOK(Ended(call, stage, did)), stage # "sent"
      PROVE  \E new : /\ CallOK(new) /\ calls' = [calls EXCEPT ![c] = new]
                      /\ new.stage = "sent" /\ Head(new.left) = "root" => step = "count"
  <2>1. calls' = [calls EXCEPT ![c] = Ended(call, stage, did)]
    BY <1>1, <1>6, AnswersOne
  <2>2. Ended(call, stage, did).stage = stage
    BY DEF Ended
  <2> QED BY <1>6, <2>1, <2>2
<1>7. CASE \E did \in SUBSET ({step} \cap Commits) : Answered(c, "failed", did)
  <2>1. PICK did \in SUBSET ({step} \cap Commits) : Answered(c, "failed", did)
    BY <1>7
  <2>2. CallOK(Ended(call, "failed", did))
    BY <1>1, <1>3, EndedOK
  <2> QED BY <2>1, <2>2, <1>5, <1>6
<1>8. CASE step \notin Quiet /\ Answered(c, "refused", {})
  <2>1. CallOK(Ended(call, "refused", {}))
    BY <1>1, <1>3, <1>8, EndedOK
  <2> QED BY <2>1, <1>5, <1>6, <1>8
<1>9. CASE step = "who" /\ Answered(c, "ok", {})
  <2>1. {step} \cap Commits = {}
    BY <1>9 DEF Commits
  <2>2. CallOK(Ended(call, "ok", {}))
    BY <1>1, <1>3, <1>9, <2>1, EndedOK
  <2> QED BY <2>2, <1>5, <1>6, <1>9
<1>10. CASE /\ Advances(c, {step} \cap Commits)
            /\ step = "auth" => Authenticates(call.cred)
            /\ step = "admin" => accounts[Me(c)] = "admin"
  <2> DEFINE did == {step} \cap Commits
  <2>1. CASE Len(call.left) = 1 /\ calls' = [calls EXCEPT ![c] = Ended(call, "ok", did)]
    <3>1. CallOK(Ended(call, "ok", did))
      BY <1>1, <1>3, <1>10, <2>1, EndedOK
    <3>2. Ended(call, "ok", did).stage = "ok"
      BY DEF Ended
    <3> QED BY <2>1, <3>1, <3>2, <1>5
  <2>2. CASE Len(call.left) # 1 /\ calls' = [calls EXCEPT ![c] = Behind(call, did)]
    <3>1. step = "admin" => AdminBehind(call.cred)
      BY <1>4, <1>10 DEF AdminBehind, Me
    <3>2. CallOK(Behind(call, did)) /\ (call.left[2] = "root" => step = "count")
      BY <1>1, <1>3, <1>10, <2>2, <3>1, BehindOK
    <3>3. Head(Behind(call, did).left) = call.left[2]
      <4>1. Behind(call, did).left = Tail(call.left)
        BY DEF Behind
      <4> QED BY <1>2, <2>2, <4>1, HeadOfTail
    <3> QED BY <2>2, <3>2, <3>3, <1>5
  <2> QED BY <1>1, <1>10, <2>1, <2>2, AdvancesOne
<1> QED BY <1>7, <1>8, <1>9, <1>10 DEF Moves

-----------------------------------------------------------------------------
(* The invariant is kept *)

(* A step of one request keeps it if it leaves the rows sound, takes       *)
(* nothing back, and creates the first account only behind a bootstrap's   *)
(* count, which in turn sees the other bootstraps.                         *)
LEMMA StepKeeps ==
  ASSUME BrokerInv, NEW c \in Clients, NEW step, At(c, step), Moves(c, step),
         RowsOK', RowsGrow, overlapped => overlapped',
         Existing' # {} /\ Existing = {} => step = "root",
         step = "count" /\ At(c, "root")' =>
           Existing' = {} /\ ((\E d \in Clients \ {c} : At(d, "root")) => overlapped')
  PROVE  BrokerInv'
<1>1. RowsOK /\ CallsOK
  BY DEF BrokerInv
<1>2. /\ calls' \in [Clients -> Requests]
      /\ \A d \in Clients : CallOK(calls'[d])
      /\ \A d \in Clients : At(d, "root")' => IF d = c THEN step = "count" ELSE At(d, "root")
  BY <1>1, MovesOK
<1>3. CallsOK'
  <2>1. \A call : CallOK(call) => CallOK(call)'
    BY <1>1, CallStable
  <2>2. \A d \in Clients : CallOK(calls[d])'
    BY <1>2, <2>1
  <2> QED BY <1>2, <2>2 DEF CallsOK
<1>4. ASSUME NEW d \in Clients, At(d, "root")', Existing' # {} PROVE overlapped'
  <2>1. d # c /\ At(d, "root")
    BY <1>2, <1>4
  <2>2. CASE Existing # {}
    BY <2>1, <2>2 DEF BrokerInv, BootstrapOK
  <2>3. CASE Existing = {}
    <3>1. At(c, "root")
      BY <1>4, <2>3
    <3> QED BY <2>1, <3>1 DEF BrokerInv, BootstrapOK
  <2> QED BY <2>2, <2>3
<1>5. ASSUME NEW d \in Clients, NEW e \in Clients \ {d}, At(d, "root")', At(e, "root")' PROVE overlapped'
  <2>1. CASE d # c /\ e # c
    <3>1. At(d, "root") /\ At(e, "root")
      BY <1>2, <1>5, <2>1
    <3> QED BY <3>1 DEF BrokerInv, BootstrapOK
  <2>2. CASE d = c
    BY <1>2, <1>5, <2>2
  <2>3. CASE e = c
    BY <1>2, <1>5, <2>3
  <2> QED BY <2>1, <2>2, <2>3
<1>6. BootstrapOK'
  BY <1>4, <1>5 DEF BootstrapOK
<1> QED BY <1>3, <1>6 DEF BrokerInv

(* The same for a step that leaves the rows alone.                         *)
LEMMA StepBeside ==
  ASSUME BrokerInv, NEW c \in Clients, NEW step, At(c, step), Moves(c, step),
         step # "count", UNCHANGED rows
  PROVE  BrokerInv'
<1>1. RowsOK
  BY DEF BrokerInv
<1>2. RowsOK' /\ Existing' = Existing /\ overlapped' = overlapped
  BY <1>1 DEF RowsOK, rows, Existing
<1>3. RowsGrow
  BY <1>1 DEF RowsOK, RowsGrow, rows
<1> QED BY <1>2, <1>3, StepKeeps

(* A step that commits nothing and checks no credential goes on.           *)
LEMMA GoesOnMoves ==
  ASSUME NEW c \in Clients, NEW step, GoesOn(c), step \notin Commits,
         step = "auth" => Authenticates(calls[c].cred),
         step = "admin" => accounts[Me(c)] = "admin"
  PROVE  Moves(c, step)
<1>1. {step} \cap Commits = {}
  OBVIOUS
<1> QED BY <1>1 DEF GoesOn, Moves

(* A step that commits goes on, or its answer is lost.                     *)
LEMMA DoneMoves ==
  ASSUME NEW c \in Clients, NEW step \in Commits, Done(c, step)
  PROVE  Moves(c, step)
<1>1. {step} \cap Commits = {step} /\ step \notin {"auth", "admin"}
  BY DEF Commits
<1> QED BY <1>1 DEF Done, Moves

(* Rows that other rows are added to stay sound.                           *)
LEMMA RowsAmongMore ==
  ASSUME RowsOK, NEW S, Existing \subseteq S
  PROVE  /\ sessions \in Seq(RowsOf(S)) /\ tokens \in Seq(RowsOf(S)) /\ views \in Seq(S)
         /\ Len(sessions) \in Nat /\ Len(tokens) \in Nat
<1>1. RowsOf(Existing) \subseteq RowsOf(S)
  BY DEF RowsOf
<1>2. \A A, B : A \subseteq B => Seq(A) \subseteq Seq(B)
  OBVIOUS
<1> QED BY <1>1, <1>2 DEF RowsOK

(* The owner of the credential of a request that needs one is an account.  *)
LEMMA OwnerExists ==
  ASSUME RowsOK, NEW cred \in Credentials, cred # NoCredential
  PROVE  RowOf(cred).owner \in Existing
<1>1. CASE cred \in [kind : {"session"}, id : 1 .. Len(sessions)]
  <2>1. sessions[cred.id] \in RowsOf(Existing)
    BY <1>1 DEF RowsOK
  <2> QED BY <1>1, <2>1 DEF RowOf, RowsOf
<1>2. CASE cred \in [kind : {"token"}, id : 1 .. Len(tokens)]
  <2>1. tokens[cred.id] \in RowsOf(Existing)
    BY <1>2 DEF RowsOK
  <2> QED BY <1>2, <2>1 DEF RowOf, RowsOf
<1> QED BY <1>1, <1>2 DEF Credentials

(* A request carries a credential at a step that uses one.                 *)
LEMMA UsesCredential ==
  ASSUME BrokerInv, NEW c \in Clients, NEW step \in {"token", "view"}, At(c, step)
  PROVE  Me(c) \in Existing
<1>1. RowsOK /\ CallOK(calls[c]) /\ calls[c].stage = "sent"
  BY DEF BrokerInv, CallsOK, At
<1>2. calls[c].left \in Seq(Names) /\ calls[c].left # <<>> /\ calls[c].cred \in Credentials
  BY <1>1 DEF CallOK, StepsLeft, Requests
<1>3. calls[c].left[1] = step /\ 1 \in DOMAIN calls[c].left
  <2>1. 1 \in DOMAIN calls[c].left
    BY <1>2, EmptySeq
  <2>2. Head(calls[c].left) = step
    BY DEF At
  <2> QED BY <1>2, <2>1, <2>2
<1>4. calls[c].cred # NoCredential
  BY <1>1, <1>3 DEF CallOK, StepsLeft
<1> QED BY <1>1, <1>2, <1>4, OwnerExists DEF Me

(* Nobody creates accounts before there is an administrator.               *)
LEMMA AccountNeedsAdmin ==
  ASSUME BrokerInv, NEW c \in Clients, At(c, "account")
  PROVE  Existing # {}
<1>1. RowsOK /\ CallOK(calls[c]) /\ calls[c].stage = "sent"
  BY DEF BrokerInv, CallsOK, At
<1>2. calls[c].left \in Seq(Names) /\ calls[c].left # <<>> /\ calls[c].cred \in Credentials
  BY <1>1 DEF CallOK, StepsLeft, Requests
<1>3. calls[c].left[1] = "account" /\ 1 \in DOMAIN calls[c].left
  <2>1. 1 \in DOMAIN calls[c].left
    BY <1>2, EmptySeq
  <2>2. Head(calls[c].left) = "account"
    BY DEF At
  <2> QED BY <1>2, <2>1, <2>2
<1>4. NeedsAdmin(calls[c].at, "account")
  BY DEF NeedsAdmin, Commits
<1>5. AdminBehind(calls[c].cred)
  <2>1. (\E j \in 1 .. (1 - 1) : calls[c].left[j] = "admin") \/ AdminBehind(calls[c].cred)
    BY <1>1, <1>3, <1>4 DEF CallOK, StepsLeft
  <2> QED BY <2>1
<1>6. RowOf(calls[c].cred).owner \in Existing
  BY <1>1, <1>2, <1>5, OwnerExists DEF AdminBehind
<1> QED BY <1>6

-----------------------------------------------------------------------------
(* The steps that leave the rows alone. *)

(* Steps that only read, check, or write what no other step reads.         *)
LEMMA BesideKeeps ==
  ASSUME BrokerInv, NEW c \in Clients,
         \/ Reads(c) \/ CheckPasses(c) \/ CheckRefuses(c) \/ NotReady(c)
         \/ requireAuth(c) \/ loadSessionState(c) \/ requireAdmin(c) \/ resolveTargetAccountId(c)
         \/ updateView(c) \/ Writes(c) \/ ProfileRefuses(c)
         \/ Settles(c) \/ Lists(c) \/ Looks(c) \/ Commands(c) \/ Fails(c)
  PROVE  BrokerInv'
<1>1. ASSUME NEW step, At(c, step), Moves(c, step), UNCHANGED rows, step # "count" PROVE BrokerInv'
  BY <1>1, StepBeside
<1>2. ASSUME NEW step, At(c, step), Refuses(c), step \notin Quiet, step # "count" PROVE BrokerInv'
  BY <1>1, <1>2 DEF Refuses, Moves
<1>3. ASSUME NEW step, At(c, step), GoesOn(c), step \notin Commits, UNCHANGED rows,
             step \notin {"auth", "admin", "count"}
      PROVE  BrokerInv'
  BY <1>1, <1>3, GoesOnMoves
<1>4. ASSUME NEW step \in Commits, At(c, step), Done(c, step), UNCHANGED rows PROVE BrokerInv'
  <2>1. step # "count"
    BY DEF Commits
  <2> QED BY <1>1, <1>4, <2>1, DoneMoves
<1>5. CASE Reads(c)
  BY <1>3, <1>5 DEF Reads, Plain, Commits
<1>6. CASE CheckPasses(c)
  BY <1>3, <1>6 DEF CheckPasses, Checks, Commits
<1>7. CASE CheckRefuses(c)
  BY <1>2, <1>7 DEF CheckRefuses, Checks, Quiet
<1>8. CASE NotReady(c)
  <2>1. Moves(c, "ready")
    BY <1>8 DEF NotReady, Moves
  <2> QED BY <1>1, <1>8, <2>1 DEF NotReady
<1>9. CASE requireAuth(c)
  <2>1. CASE Authenticates(calls[c].cred) /\ GoesOn(c) /\ UNCHANGED rows
    <3>1. Moves(c, "auth")
      BY <2>1, GoesOnMoves DEF Commits
    <3> QED BY <1>1, <1>9, <2>1, <3>1 DEF requireAuth
  <2>2. CASE Refuses(c)
    BY <1>2, <1>9, <2>2 DEF requireAuth, Quiet
  <2> QED BY <1>9, <2>1, <2>2 DEF requireAuth
<1>10. CASE loadSessionState(c)
  <2>1. CASE GoesOn(c)
    BY <1>3, <1>10, <2>1 DEF loadSessionState, Commits
  <2>2. CASE Answered(c, "ok", {})
    <3>1. Moves(c, "who")
      BY <2>2 DEF Moves
    <3> QED BY <1>1, <1>10, <3>1 DEF loadSessionState
  <2> QED BY <1>10, <2>1, <2>2 DEF loadSessionState
<1>11. CASE requireAdmin(c)
  <2>1. CASE accounts[Me(c)] = "admin" /\ GoesOn(c) /\ UNCHANGED rows
    <3>1. Moves(c, "admin")
      BY <2>1, GoesOnMoves DEF Commits
    <3> QED BY <1>1, <1>11, <2>1, <3>1 DEF requireAdmin
  <2>2. CASE Refuses(c)
    BY <1>2, <1>11, <2>2 DEF requireAdmin, Quiet
  <2> QED BY <1>11, <2>1, <2>2 DEF requireAdmin
<1>12. CASE resolveTargetAccountId(c)
  BY <1>2, <1>3, <1>12 DEF resolveTargetAccountId, Commits, Quiet
<1>13. CASE updateView(c)
  <2>1. At(c, "own") /\ "own" \in Commits /\ "own" \notin Quiet
    BY <1>13 DEF updateView, Commits, Quiet
  <2>2. (Done(c, "own") /\ UNCHANGED rows) \/ Refuses(c)
    BY <1>13 DEF updateView
  <2> QED BY <1>2, <1>4, <2>1, <2>2
<1>14. CASE Writes(c)
  BY <1>4, <1>14 DEF Writes, Commits
<1>15. CASE ProfileRefuses(c)
  BY <1>2, <1>15 DEF ProfileRefuses, Quiet
<1>16. CASE Settles(c)
  BY <1>3, <1>16 DEF Settles, Commits
<1>17. CASE Lists(c)
  BY <1>3, <1>17 DEF Lists, Commits
<1>18. CASE Looks(c)
  <2>1. PICK step \in {"get", "file", "deck", "kind"} : At(c, step)
    BY <1>18 DEF Looks
  <2>2. step \notin Commits /\ step \notin Quiet
    BY DEF Commits, Quiet
  <2> QED BY <1>2, <1>3, <1>18, <2>1, <2>2 DEF Looks
<1>19. CASE Commands(c)
  <2>1. "command" \in Commits /\ "command" \notin Quiet
    BY DEF Commits, Quiet
  <2> QED BY <1>2, <1>4, <1>19, <2>1 DEF Commands
<1>20. CASE Fails(c)
  <2> DEFINE step == Head(calls[c].left)
  <2>1. At(c, step) /\ Answered(c, "failed", {}) /\ UNCHANGED rows
    BY <1>20 DEF Fails, Breaks
  <2>3. Moves(c, step)
    BY <2>1 DEF Moves
  <2>4. PICK name : name = step
    OBVIOUS
  <2>5. At(c, name) /\ Moves(c, name)
    BY <2>1, <2>3, <2>4
  <2>6. CASE name # "count"
    BY <1>1, <2>1, <2>5, <2>6
  <2>7. CASE name = "count"
    <3>1. RowsOK' /\ RowsGrow /\ Existing' = Existing /\ overlapped' = overlapped
      BY <2>1 DEF BrokerInv, RowsOK, RowsGrow, rows, Existing
    <3>2. ~At(c, "root")'
      <4>1. calls \in [Clients -> Requests]
        BY DEF BrokerInv, CallsOK
      <4>2. calls'[c] = Ended(calls[c], "failed", {})
        BY <2>1, <4>1, AnswersOne
      <4> QED BY <4>2 DEF At, Ended
    <3> QED BY <2>5, <3>1, <3>2, StepKeeps
  <2> QED BY <2>6, <2>7
<1> QED BY <1>5, <1>6, <1>7, <1>8, <1>9, <1>10, <1>11, <1>12, <1>13, <1>14, <1>15, <1>16,
           <1>17, <1>18, <1>19, <1>20

(* The count of the bootstrap route.                                       *)
LEMMA CountKeeps ==
  ASSUME BrokerInv, NEW c \in Clients, countAccounts(c)
  PROVE  BrokerInv'
<1>1. RowsOK' /\ RowsGrow /\ Existing' = Existing
  <2>1. UNCHANGED <<accounts, disabled, sessions, tokens, views, roots>>
    BY DEF countAccounts, Refuses, rows
  <2>2. overlapped => overlapped'
    <3>1. CASE overlapped' = (overlapped \/ \E d \in Clients \ {c} : At(d, "root"))
      BY <3>1, Zenon
    <3>2. CASE overlapped' = overlapped
      BY <3>2
    <3> QED BY <3>1, <3>2 DEF countAccounts, Refuses, rows
  <2>3. Existing' = Existing
    BY <2>1 DEF Existing
  <2>4. RowsOK'
    BY <2>1, <2>2, <2>3 DEF BrokerInv, RowsOK
  <2> QED BY <2>1, <2>3, <2>4 DEF BrokerInv, RowsOK, RowsGrow
<1>2. CASE /\ Existing = {} /\ GoesOn(c)
           /\ overlapped' = (overlapped \/ \E d \in Clients \ {c} : At(d, "root"))
  <2>1. Moves(c, "count")
    BY <1>2, GoesOnMoves DEF Commits
  <2> QED BY <1>1, <1>2, <2>1, StepKeeps DEF countAccounts
<1>3. CASE Existing # {} /\ Refuses(c)
  <2>1. Moves(c, "count")
    BY <1>3 DEF Refuses, Moves, Quiet
  <2>2. ~At(c, "root")'
    <3>1. calls \in [Clients -> Requests]
      BY DEF BrokerInv, CallsOK
    <3>2. calls'[c] = Ended(calls[c], "refused", {})
      BY <1>3, <3>1, AnswersOne DEF Refuses
    <3> QED BY <3>2 DEF At, Ended
  <2>3. overlapped' = overlapped
    BY <1>3 DEF Refuses, rows
  <2> QED BY <1>1, <2>1, <2>2, <2>3, StepKeeps DEF countAccounts
<1> QED BY <1>2, <1>3 DEF countAccounts

-----------------------------------------------------------------------------
(* The steps that change rows. *)

(* The bootstrap's insert: the account, and the session of its answer.     *)
LEMMA RootKeeps ==
  ASSUME BrokerInv, NEW c \in Clients, createRootAccount(c)
  PROVE  BrokerInv'
<1>1. RowsOK /\ At(c, "root")
  BY DEF BrokerInv, createRootAccount
<1>2. PICK a \in Accounts :
        \/ /\ accounts[a] = "absent"
           /\ accounts' = [accounts EXCEPT ![a] = "admin"]
           /\ roots' = roots \cup {a}
           /\ sessions' = Append(sessions, Fresh(a))
           /\ Done(c, "root")
           /\ UNCHANGED <<disabled, tokens, views, overlapped>>
        \/ accounts[a] # "absent" /\ Refuses(c)
  BY DEF createRootAccount
<1>3. CASE accounts[a] # "absent" /\ Refuses(c)
  <2>1. Moves(c, "root") /\ UNCHANGED rows
    BY <1>3 DEF Refuses, Moves, Quiet
  <2> QED BY <1>1, <2>1, StepBeside
<1>4. CASE /\ accounts[a] = "absent"
           /\ accounts' = [accounts EXCEPT ![a] = "admin"]
           /\ roots' = roots \cup {a}
           /\ sessions' = Append(sessions, Fresh(a))
           /\ Done(c, "root")
           /\ UNCHANGED <<disabled, tokens, views, overlapped>>
  <2>1. Moves(c, "root")
    BY <1>4, DoneMoves DEF Commits
  <2>2. /\ accounts' \in [Accounts -> {"absent", "operator", "admin"}]
        /\ Existing \subseteq Existing' /\ a \in Existing'
        /\ \A b \in Accounts : accounts[b] = "admin" => accounts'[b] = "admin"
        /\ roots' \subseteq {b \in Accounts : accounts'[b] = "admin"}
        /\ roots' # {}
    BY <1>1, <1>4 DEF RowsOK, Existing
  <2>3. Cardinality(roots') > 1 => overlapped
    <3>1. CASE Existing # {}
      BY <1>1, <3>1 DEF BrokerInv, BootstrapOK
    <3>2. CASE Existing = {}
      <4>1. roots' = {a}
        BY <1>1, <1>4, <3>2 DEF RowsOK, Existing
      <4>2. Cardinality(roots') = 1
        BY <4>1, FS_Singleton
      <4> QED BY <4>2
    <3> QED BY <3>1, <3>2
  <2>4. /\ sessions \in Seq(RowsOf(Existing')) /\ tokens \in Seq(RowsOf(Existing'))
        /\ views \in Seq(Existing') /\ Len(sessions) \in Nat /\ Len(tokens) \in Nat
    BY <1>1, <2>2, RowsAmongMore
  <2>5. Fresh(a) \in RowsOf(Existing')
    BY <2>2 DEF Fresh, RowsOf
  <2>6. /\ sessions' \in Seq(RowsOf(Existing')) /\ Len(sessions') = Len(sessions) + 1
        /\ \A i \in 1 .. Len(sessions) : sessions'[i] = sessions[i]
    BY <1>4, <2>4, <2>5
  <2>7. RowsOK'
    BY <1>4, <2>2, <2>3, <2>4, <2>6 DEF RowsOK
  <2>8. RowsGrow
    BY <1>4, <2>2, <2>4, <2>6 DEF RowsGrow
  <2>9. overlapped => overlapped'
    BY <1>4
  <2> QED BY <1>1, <2>1, <2>7, <2>8, <2>9, StepKeeps
<1> QED BY <1>2, <1>3, <1>4

(* The rows of a step that opens or ends sessions and tokens, adds views,  *)
(* and leaves the accounts as they are.                                    *)
LEMMA SessionsKeep ==
  ASSUME BrokerInv, NEW c \in Clients, NEW step \in Commits, At(c, step), Done(c, step),
         UNCHANGED <<accounts, disabled, roots, overlapped>>,
         sessions' \in Seq(RowsOf(Existing)), tokens' \in Seq(RowsOf(Existing)), views' \in Seq(Existing),
         Len(sessions) <= Len(sessions'), Len(tokens) <= Len(tokens'),
         \A i \in 1 .. Len(sessions) :
           sessions'[i].owner = sessions[i].owner /\ (sessions[i].over => sessions'[i].over),
         \A i \in 1 .. Len(tokens) :
           tokens'[i].owner = tokens[i].owner /\ (tokens[i].over => tokens'[i].over)
  PROVE  BrokerInv'
<1>1. Existing' = Existing /\ overlapped' = overlapped
  BY DEF Existing
<1>2. RowsOK'
  BY <1>1 DEF BrokerInv, RowsOK
<1>3. RowsGrow
  BY DEF RowsGrow
<1>4. Moves(c, step) /\ step # "count"
  BY DoneMoves DEF Commits
<1> QED BY <1>1, <1>2, <1>3, <1>4, StepKeeps

(* A row added to the end of a table.                                      *)
LEMMA RowAdded ==
  ASSUME NEW S, NEW table \in Seq(RowsOf(S)), NEW a \in S
  PROVE  /\ Append(table, Fresh(a)) \in Seq(RowsOf(S))
         /\ Len(table) <= Len(Append(table, Fresh(a)))
         /\ \A i \in 1 .. Len(table) :
              /\ Append(table, Fresh(a))[i].owner = table[i].owner
              /\ table[i].over => Append(table, Fresh(a))[i].over
<1>1. Fresh(a) \in RowsOf(S)
  BY DEF Fresh, RowsOf
<1>2. \A x \in RowsOf(S) :
        /\ Append(table, x) \in Seq(RowsOf(S))
        /\ Len(table) <= Len(Append(table, x))
        /\ \A i \in 1 .. Len(table) : Append(table, x)[i] = table[i]
  OBVIOUS
<1> QED BY <1>1, <1>2

(* A table nothing happens to.                                             *)
LEMMA RowsAsBefore ==
  ASSUME NEW S, NEW table \in Seq(RowsOf(S))
  PROVE  Len(table) <= Len(table)
<1>1. Len(table) \in Nat
  OBVIOUS
<1> QED BY <1>1

(* A row that is ended.                                                    *)
LEMMA RowEnded ==
  ASSUME NEW S, NEW table \in Seq(RowsOf(S)), NEW k \in 1 .. Len(table)
  PROVE  /\ [table EXCEPT ![k].over = TRUE] \in Seq(RowsOf(S))
         /\ Len([table EXCEPT ![k].over = TRUE]) = Len(table)
         /\ \A i \in 1 .. Len(table) :
              /\ [table EXCEPT ![k].over = TRUE][i].owner = table[i].owner
              /\ table[i].over => [table EXCEPT ![k].over = TRUE][i].over
<1> DEFINE ended == [owner |-> table[k].owner, over |-> TRUE]
<1>1. /\ table[k] \in RowsOf(S) /\ Len(table) \in Nat /\ DOMAIN table = 1 .. Len(table)
      /\ \A i \in 1 .. Len(table) : table[i] \in RowsOf(S)
  OBVIOUS
<1>2. [table[k] EXCEPT !.over = TRUE] = ended
  <2>1. \A A, B, t : \A r \in [owner : A, over : B] :
          [r EXCEPT !.over = t] = [owner |-> r.owner, over |-> t]
    OBVIOUS
  <2>2. table[k] \in [owner : S, over : BOOLEAN]
    BY <1>1 DEF RowsOf
  <2>3. \A t : [table[k] EXCEPT !.over = t] = [owner |-> table[k].owner, over |-> t]
    BY <2>1, <2>2
  <2> QED BY <2>3, Zenon
<1>3. [table EXCEPT ![k].over = TRUE] = [table EXCEPT ![k] = ended]
  BY <1>2
<1>4. ended \in RowsOf(S)
  BY <1>1 DEF RowsOf
<1>5. \A x \in RowsOf(S) :
        /\ [table EXCEPT ![k] = x] \in Seq(RowsOf(S))
        /\ Len([table EXCEPT ![k] = x]) = Len(table)
        /\ \A i \in 1 .. Len(table) : [table EXCEPT ![k] = x][i] = IF i = k THEN x ELSE table[i]
  OBVIOUS
<1>6. ended.owner = table[k].owner /\ ended.over = TRUE
  OBVIOUS
<1> HIDE DEF ended
<1>7. PICK new : new = [table EXCEPT ![k] = ended]
  OBVIOUS
<1>8. /\ new \in Seq(RowsOf(S)) /\ Len(new) = Len(table)
      /\ \A i \in 1 .. Len(table) : new[i] = IF i = k THEN ended ELSE table[i]
  BY <1>4, <1>5, <1>7
<1>9. \A i \in 1 .. Len(table) : new[i].owner = table[i].owner /\ (table[i].over => new[i].over)
  BY <1>6, <1>8
<1> QED BY <1>3, <1>7, <1>8, <1>9

(* Logging in and out.                                                     *)
LEMMA LoginKeeps ==
  ASSUME BrokerInv, NEW c \in Clients, login(c) \/ logout(c)
  PROVE  BrokerInv'
<1>1. /\ RowsOK /\ CallsOK /\ sessions \in Seq(RowsOf(Existing)) /\ tokens \in Seq(RowsOf(Existing))
      /\ views \in Seq(Existing)
  BY DEF BrokerInv, RowsOK
<1>2. Len(sessions) <= Len(sessions) /\ Len(tokens) <= Len(tokens)
  BY <1>1, RowsAsBefore
<1>3. CASE login(c)
  <2>1. CASE Refuses(c)
    <3>1. Moves(c, "login") /\ UNCHANGED rows
      BY <2>1 DEF Refuses, Moves, Quiet
    <3> QED BY <1>3, <3>1, StepBeside DEF login
  <2>2. CASE \E a \in Existing \ disabled :
               /\ sessions' = Append(sessions, Fresh(a))
               /\ Done(c, "login")
               /\ UNCHANGED <<accounts, disabled, tokens, views, roots, overlapped>>
    <3>1. PICK a \in Existing :
            /\ sessions' = Append(sessions, Fresh(a))
            /\ Done(c, "login")
            /\ UNCHANGED <<accounts, disabled, tokens, views, roots, overlapped>>
      BY <2>2
    <3>2. /\ sessions' \in Seq(RowsOf(Existing)) /\ Len(sessions) <= Len(sessions')
          /\ \A i \in 1 .. Len(sessions) :
               sessions'[i].owner = sessions[i].owner /\ (sessions[i].over => sessions'[i].over)
      BY <1>1, <3>1, RowAdded
    <3>3. At(c, "login") /\ "login" \in Commits
      BY <1>3 DEF login, Commits
    <3> QED BY <1>1, <1>2, <3>1, <3>2, <3>3, SessionsKeep
  <2> QED BY <1>3, <2>1, <2>2 DEF login
<1>4. CASE logout(c)
  <2>1. /\ Done(c, "logout") /\ At(c, "logout") /\ "logout" \in Commits
        /\ UNCHANGED <<accounts, disabled, tokens, views, roots, overlapped>>
    BY <1>4 DEF logout, Commits
  <2>2. /\ sessions' \in Seq(RowsOf(Existing)) /\ Len(sessions) <= Len(sessions')
        /\ \A i \in 1 .. Len(sessions) :
             sessions'[i].owner = sessions[i].owner /\ (sessions[i].over => sessions'[i].over)
    <3>1. CASE calls[c].cred.kind = "session"
      <4>1. calls[c].cred \in Credentials
        BY <1>1 DEF CallsOK, CallOK
      <4>2. calls[c].cred.id \in 1 .. Len(sessions)
        BY <3>1, <4>1 DEF Credentials, NoCredential
      <4>3. sessions' = [sessions EXCEPT ![calls[c].cred.id].over = TRUE]
        BY <1>4, <3>1 DEF logout
      <4>4. PICK k \in 1 .. Len(sessions) : k = calls[c].cred.id
        BY <4>2
      <4>5. sessions' = [sessions EXCEPT ![k].over = TRUE]
        BY <4>3, <4>4
      <4> QED BY <1>1, <1>2, <4>5, RowEnded
    <3>2. CASE calls[c].cred.kind # "session"
      <4>1. sessions' = sessions
        BY <1>4, <3>2 DEF logout
      <4> QED BY <1>1, <1>2, <4>1
    <3> QED BY <3>1, <3>2
  <2> QED BY <1>1, <1>2, <2>1, <2>2, SessionsKeep
<1> QED BY <1>3, <1>4

(* Opening and revoking tokens, and saving views.                          *)
LEMMA TokensKeep ==
  ASSUME BrokerInv, NEW c \in Clients, createApiToken(c) \/ revokeApiToken(c) \/ createView(c)
  PROVE  BrokerInv'
<1>1. /\ sessions \in Seq(RowsOf(Existing)) /\ tokens \in Seq(RowsOf(Existing)) /\ views \in Seq(Existing)
  BY DEF BrokerInv, RowsOK
<1>2. Len(sessions) <= Len(sessions) /\ Len(tokens) <= Len(tokens)
  BY <1>1, RowsAsBefore
<1>3. CASE createApiToken(c)
  <2>1. /\ Done(c, "token") /\ At(c, "token") /\ "token" \in Commits
        /\ tokens' = Append(tokens, Fresh(Me(c)))
        /\ UNCHANGED <<accounts, disabled, sessions, views, roots, overlapped>>
    BY <1>3 DEF createApiToken, Commits
  <2>2. Me(c) \in Existing
    BY <2>1, UsesCredential
  <2>3. PICK a \in Existing : tokens' = Append(tokens, Fresh(a))
    BY <2>1, <2>2
  <2>4. /\ tokens' \in Seq(RowsOf(Existing)) /\ Len(tokens) <= Len(tokens')
        /\ \A i \in 1 .. Len(tokens) :
             tokens'[i].owner = tokens[i].owner /\ (tokens[i].over => tokens'[i].over)
    BY <1>1, <2>3, RowAdded
  <2> QED BY <1>1, <1>2, <2>1, <2>4, SessionsKeep
<1>4. CASE revokeApiToken(c)
  <2>1. /\ Done(c, "revoke") /\ At(c, "revoke") /\ "revoke" \in Commits
        /\ UNCHANGED <<accounts, disabled, sessions, views, roots, overlapped>>
    BY <1>4 DEF revokeApiToken, Commits
  <2>2. tokens' = tokens \/ \E k \in 1 .. Len(tokens) : tokens' = [tokens EXCEPT ![k].over = TRUE]
    <3>1. DOMAIN tokens = 1 .. Len(tokens)
      BY <1>1
    <3> QED BY <1>4, <3>1 DEF revokeApiToken
  <2>3. /\ tokens' \in Seq(RowsOf(Existing)) /\ Len(tokens) <= Len(tokens')
        /\ \A i \in 1 .. Len(tokens) :
             tokens'[i].owner = tokens[i].owner /\ (tokens[i].over => tokens'[i].over)
    <3>1. CASE tokens' = tokens
      BY <1>1, <1>2, <3>1
    <3>2. ASSUME NEW k \in 1 .. Len(tokens), tokens' = [tokens EXCEPT ![k].over = TRUE]
          PROVE  /\ tokens' \in Seq(RowsOf(Existing)) /\ Len(tokens) <= Len(tokens')
                 /\ \A i \in 1 .. Len(tokens) :
                      tokens'[i].owner = tokens[i].owner /\ (tokens[i].over => tokens'[i].over)
      BY <1>1, <1>2, <3>2, RowEnded
    <3> QED BY <2>2, <3>1, <3>2
  <2> QED BY <1>1, <1>2, <2>1, <2>3, SessionsKeep
<1>5. CASE createView(c)
  <2>1. /\ Done(c, "view") /\ At(c, "view") /\ "view" \in Commits
        /\ views' = Append(views, Me(c))
        /\ UNCHANGED <<accounts, disabled, sessions, tokens, roots, overlapped>>
    BY <1>5 DEF createView, Commits
  <2>2. Me(c) \in Existing
    BY <2>1, UsesCredential
  <2>3. views' \in Seq(Existing)
    BY <1>1, <2>1, <2>2
  <2> QED BY <1>1, <1>2, <2>1, <2>3, SessionsKeep
<1> QED BY <1>3, <1>4, <1>5

(* An administrator's new account.                                         *)
LEMMA CreateAccountKeeps ==
  ASSUME BrokerInv, NEW c \in Clients, createAccount(c)
  PROVE  BrokerInv'
<1>1. RowsOK /\ At(c, "account") /\ Existing # {}
  BY AccountNeedsAdmin DEF BrokerInv, createAccount
<1>2. PICK a \in Accounts, role \in {"operator", "admin"} :
        \/ /\ accounts[a] = "absent"
           /\ accounts' = [accounts EXCEPT ![a] = role]
           /\ Done(c, "account")
           /\ UNCHANGED <<disabled, sessions, tokens, views, roots, overlapped>>
        \/ accounts[a] # "absent" /\ Refuses(c)
  BY DEF createAccount
<1>3. CASE accounts[a] # "absent" /\ Refuses(c)
  <2>1. Moves(c, "account") /\ UNCHANGED rows
    BY <1>3 DEF Refuses, Moves, Quiet
  <2> QED BY <1>1, <2>1, StepBeside
<1>4. CASE /\ accounts[a] = "absent"
           /\ accounts' = [accounts EXCEPT ![a] = role]
           /\ Done(c, "account")
           /\ UNCHANGED <<disabled, sessions, tokens, views, roots, overlapped>>
  <2>1. Moves(c, "account")
    BY <1>4, DoneMoves DEF Commits
  <2>2. /\ accounts' \in [Accounts -> {"absent", "operator", "admin"}]
        /\ Existing \subseteq Existing'
        /\ \A b \in Accounts : accounts[b] = "admin" => accounts'[b] = "admin"
        /\ roots \subseteq {b \in Accounts : accounts'[b] = "admin"}
    BY <1>1, <1>4 DEF RowsOK, Existing
  <2>3. /\ sessions \in Seq(RowsOf(Existing')) /\ tokens \in Seq(RowsOf(Existing'))
        /\ views \in Seq(Existing') /\ Len(sessions) \in Nat /\ Len(tokens) \in Nat
    BY <1>1, <2>2, RowsAmongMore
  <2>4. RowsOK'
    BY <1>1, <1>4, <2>2, <2>3 DEF RowsOK
  <2>5. RowsGrow
    BY <1>4, <2>2, <2>3 DEF RowsGrow
  <2> QED BY <1>1, <1>4, <2>1, <2>4, <2>5, StepKeeps
<1> QED BY <1>2, <1>3, <1>4

-----------------------------------------------------------------------------
(* What no request does: a session expires, an account is disabled.        *)
LEMMA TimeKeeps ==
  ASSUME BrokerInv, SessionExpires \/ AccountDisabled
  PROVE  BrokerInv'
<1>1. /\ RowsOK /\ CallsOK /\ BootstrapOK /\ sessions \in Seq(RowsOf(Existing))
      /\ tokens \in Seq(RowsOf(Existing))
  BY DEF BrokerInv, RowsOK
<1>2. /\ UNCHANGED <<accounts, tokens, views, calls, roots, overlapped>>
      /\ disabled \subseteq disabled'
      /\ sessions' = sessions \/ \E k \in 1 .. Len(sessions) : sessions' = [sessions EXCEPT ![k].over = TRUE]
  <2>1. DOMAIN sessions = 1 .. Len(sessions)
    BY <1>1
  <2> QED BY <2>1 DEF SessionExpires, AccountDisabled
<1>3. Existing' = Existing
  BY <1>2 DEF Existing
<1>4. Len(sessions) <= Len(sessions) /\ Len(tokens) <= Len(tokens)
  BY <1>1, RowsAsBefore
<1>5. /\ sessions' \in Seq(RowsOf(Existing)) /\ Len(sessions) <= Len(sessions')
      /\ \A i \in 1 .. Len(sessions) :
           sessions'[i].owner = sessions[i].owner /\ (sessions[i].over => sessions'[i].over)
  <2>1. CASE sessions' = sessions
    BY <1>1, <1>4, <2>1
  <2>2. ASSUME NEW k \in 1 .. Len(sessions), sessions' = [sessions EXCEPT ![k].over = TRUE]
        PROVE  /\ sessions' \in Seq(RowsOf(Existing)) /\ Len(sessions) <= Len(sessions')
               /\ \A i \in 1 .. Len(sessions) :
                    sessions'[i].owner = sessions[i].owner /\ (sessions[i].over => sessions'[i].over)
    BY <1>1, <1>4, <2>2, RowEnded
  <2> QED BY <1>2, <2>1, <2>2
<1>6. RowsOK'
  BY <1>1, <1>2, <1>3, <1>5 DEF RowsOK
<1>7. RowsGrow
  BY <1>1, <1>2, <1>4, <1>5 DEF RowsGrow
<1>8. CallsOK'
  <2>1. \A call : CallOK(call) => CallOK(call)'
    BY <1>1, <1>7, CallStable
  <2>2. \A d \in Clients : CallOK(calls[d])'
    BY <1>1, <1>2, <2>1 DEF CallsOK
  <2> QED BY <1>1, <1>2, <2>2 DEF CallsOK
<1>9. BootstrapOK'
  BY <1>1, <1>2, <1>3 DEF BootstrapOK, At
<1> QED BY <1>6, <1>8, <1>9 DEF BrokerInv

-----------------------------------------------------------------------------
(* A request that is sent with the steps of a route.                       *)
LEMMA RequestOK ==
  ASSUME NEW cred \in Credentials, NEW server \in {"api", "broker"}, NEW steps, StepsOK(server, steps)
  PROVE  /\ CallOK(Request(cred, server, steps))
         /\ steps # <<>> => Head(steps) # "root"
<1> DEFINE new == Request(cred, server, steps)
<1>1. /\ steps \in Seq(Names) /\ Ordered(steps)
      /\ \A i \in DOMAIN steps : steps[i] = "root" => i > 1
      /\ \A i \in DOMAIN steps : steps[i] \in {"admin", "token", "view"} => steps[1] = "auth"
      /\ \A i \in DOMAIN steps : NeedsAdmin(server, steps[i]) => \E j \in 1 .. (i - 1) : steps[j] = "admin"
      /\ \A i \in DOMAIN steps : steps[i] = "auth" => i = 1
  BY DEF StepsOK, Ordered
<1>2. /\ new.stage = (IF steps = <<>> THEN "ok" ELSE "sent") /\ new.cred = cred /\ new.at = server
      /\ new.dead = (NeedsLogin(steps) /\ Worthless(cred)) /\ new.left = steps
      /\ new.due = Due(steps) /\ new.did = {}
  BY DEF Request
<1>3. new \in Requests
  <2>1. cred \in [kind : {"none", "session", "token"}, id : Nat]
    BY DEF Credentials, NoCredential
  <2>2. (IF steps = <<>> THEN "ok" ELSE "sent") \in Stages /\ (NeedsLogin(steps) /\ Worthless(cred)) \in BOOLEAN
    BY DEF Stages
  <2>3. Due(steps) \in SUBSET Commits /\ {} \in SUBSET Commits
    BY DEF Due
  <2> QED BY <1>1, <2>1, <2>2, <2>3 DEF Requests, Request
<1> HIDE DEF new
<1>4. steps # <<>> => Head(steps) = steps[1] /\ 1 \in DOMAIN steps
  BY <1>1, EmptySeq
<1>5. new.dead => steps[1] = "auth" /\ steps # <<>> /\ Worthless(cred)
  <2>1. NeedsLogin(steps) => steps[1] = "auth" /\ steps # <<>>
    BY <1>1 DEF NeedsLogin
  <2> QED BY <1>2, <2>1
<1>6. steps = <<>> => Due(steps) = {}
  BY DEF Due
<1>7. new.stage = "sent" => StepsLeft(new)
  <2>1. SUFFICES ASSUME steps # <<>> PROVE StepsLeft(new)
    BY <1>2
  <2> QED BY <1>1, <1>2, <1>5, <2>1 DEF StepsLeft
<1>8. CallOK(new)
  BY <1>2, <1>3, <1>5, <1>6, <1>7 DEF CallOK
<1>9. steps # <<>> => Head(steps) # "root"
  BY <1>1, <1>4
<1> QED BY <1>8, <1>9 DEF new

(* A request that its server has no route for.                             *)
Missed == [Idle EXCEPT !.stage = "no route", !.at = "broker"]
LEMMA MissedOK == CallOK(Missed) /\ Missed.stage = "no route"
<1>1. Missed = [stage |-> "no route", cred |-> NoCredential, at |-> "broker", dead |-> FALSE,
                left |-> <<>>, due |-> {}, did |-> {}]
  <2>1. PICK call : call = [Idle EXCEPT !.stage = "no route"]
    OBVIOUS
  <2>2. call = [stage |-> "no route", cred |-> NoCredential, at |-> "api", dead |-> FALSE,
                left |-> <<>>, due |-> {}, did |-> {}]
    BY <2>1 DEF Idle
  <2>3. Missed = [call EXCEPT !.at = "broker"]
    BY <2>1, Zenon DEF Missed
  <2> QED BY <2>2, <2>3
<1>2. Missed \in Requests
  <2>1. NoCredential \in [kind : {"none", "session", "token"}, id : Nat]
    BY DEF NoCredential
  <2>2. <<>> \in Seq(Names)
    OBVIOUS
  <2> QED BY <1>1, <2>1, <2>2 DEF Requests, Stages
<1>3. NoCredential \in Credentials
  BY DEF Credentials
<1> QED BY <1>1, <1>2, <1>3 DEF CallOK

(* Sending a request, to a route or in vain.                               *)
LEMMA SendKeeps ==
  ASSUME BrokerInv, NEW c \in Clients, SendToApi(c) \/ SendToBroker(c)
  PROVE  BrokerInv'
<1>1. ASSUME NEW cred \in Credentials, NEW server \in {"api", "broker"}, NEW steps,
             StepsOK(server, steps)
      PROVE  LET new == Request(cred, server, steps)
             IN  CallOK(new) /\ (new.stage = "sent" => Head(new.left) # "root")
  <2>1. LET new == Request(cred, server, steps)
        IN  new.stage = (IF steps = <<>> THEN "ok" ELSE "sent") /\ new.left = steps
    BY DEF Request
  <2> QED BY <1>1, <2>1, RequestOK
<1>2. PICK new : /\ CallOK(new) /\ (new.stage = "sent" => Head(new.left) # "root")
                 /\ calls' = [calls EXCEPT ![c] = new]
  <2>1. CASE SendToApi(c)
    <3>1. PICK name \in RuntimeRequests : Send(c, "api", ApiRoutes, name)
      BY <2>1 DEF SendToApi
    <3>2. \E route \in ApiRoutes : route.name = name
      BY RuntimeRoutes
    <3>3. PICK cred \in Credentials, route \in ApiRoutes :
            calls' = [calls EXCEPT ![c] = Request(cred, "api", route.steps)]
      BY <3>1, <3>2 DEF Send
    <3> QED BY <1>1, <3>3, ApiRoutesOK
  <2>2. CASE SendToBroker(c)
    <3>1. PICK name \in BrokerRequests : Send(c, "broker", BrokerRoutes, name)
      BY <2>2 DEF SendToBroker
    <3>2. CASE \E cred \in Credentials, route \in BrokerRoutes :
                 calls' = [calls EXCEPT ![c] = Request(cred, "broker", route.steps)]
      <4>1. PICK cred \in Credentials, route \in BrokerRoutes :
              calls' = [calls EXCEPT ![c] = Request(cred, "broker", route.steps)]
        BY <3>2
      <4> QED BY <1>1, <4>1, BrokerRoutesOK
    <3>3. CASE calls' = [calls EXCEPT ![c] = Missed]
      BY <3>3, MissedOK
    <3> QED BY <3>1, <3>2, <3>3 DEF Send, Missed
  <2> QED BY <2>1, <2>2
<1>3. RowsOK /\ CallsOK /\ BootstrapOK
  BY DEF BrokerInv
<1>4. RowsOK' /\ RowsGrow /\ Existing' = Existing /\ overlapped' = overlapped
  <2>1. UNCHANGED rows
    BY DEF SendToApi, SendToBroker, Send
  <2> QED BY <1>3, <2>1 DEF RowsOK, RowsGrow, rows, Existing
<1>5. new \in Requests
  BY <1>2 DEF CallOK
<1>7. /\ calls' \in [Clients -> Requests] /\ calls'[c] = new
      /\ \A d \in Clients : d # c => calls'[d] = calls[d]
  BY <1>2, <1>3, <1>5 DEF CallsOK
<1>8. CallsOK'
  <2>1. \A call : CallOK(call) => CallOK(call)'
    BY <1>3, <1>4, CallStable
  <2>2. \A d \in Clients : CallOK(calls'[d])
    BY <1>2, <1>3, <1>7 DEF CallsOK
  <2>3. \A d \in Clients : CallOK(calls[d])'
    BY <2>1, <2>2
  <2> QED BY <1>7, <2>3 DEF CallsOK
<1>9. \A d \in Clients : At(d, "root")' => At(d, "root")
  <2>1. ~At(c, "root")'
    BY <1>2, <1>7 DEF At
  <2>2. \A d \in Clients : d # c => (At(d, "root")' <=> At(d, "root"))
    BY <1>7 DEF At
  <2> QED BY <2>1, <2>2
<1>10. BootstrapOK'
  BY <1>3, <1>4, <1>9 DEF BootstrapOK
<1> QED BY <1>4, <1>8, <1>10 DEF BrokerInv

(* Fresh databases, and an installation in use.                            *)
LEMMA InitOK == AccountsInit => BrokerInv
<1> SUFFICES ASSUME AccountsInit PROVE BrokerInv
  OBVIOUS
<1>1. Cardinality(Existing) \in Nat
  <2>1. Existing \subseteq Accounts
    BY DEF Existing
  <2>2. IsFiniteSet(Existing)
    BY <2>1, RuntimeAccountsAssumption, FS_Subset
  <2> QED BY <2>2, FS_CardinalityType
<1>2. PICK owners \in OnePerAccount(Existing) :
        /\ sessions = [i \in DOMAIN owners |-> Fresh(owners[i])]
        /\ tokens = [i \in DOMAIN owners |-> Fresh(owners[i])]
        /\ views = owners
  BY DEF AccountsInit
<1>3. owners \in [1 .. Cardinality(Existing) -> Existing]
  BY DEF OnePerAccount
<1>4. owners \in Seq(Existing)
  BY <1>1, <1>3
<1>5. sessions \in Seq(RowsOf(Existing)) /\ tokens \in Seq(RowsOf(Existing))
  <2>1. \A x \in Existing : Fresh(x) \in RowsOf(Existing)
    BY DEF Fresh, RowsOf
  <2>2. sessions \in [1 .. Cardinality(Existing) -> RowsOf(Existing)]
    BY <1>2, <1>3, <2>1
  <2> QED BY <1>1, <1>2, <2>2
<1>6. /\ roots = {a \in Accounts : accounts[a] = "admin"}
      /\ Cardinality(roots) = IF Existing = {} THEN 0 ELSE 1
  BY DEF AccountsInit
<1>7. Existing # {} => roots # {}
  BY <1>6, FS_EmptySet
<1>8. ~(Cardinality(roots) > 1)
  BY <1>6
<1>9. RowsOK
  BY <1>2, <1>4, <1>5, <1>6, <1>7, <1>8 DEF AccountsInit, RowsOK
<1>10. CallOK(Idle)
  <2>1. NoCredential \in Credentials
    BY DEF Credentials
  <2>2. Idle \in Requests
    BY DEF Idle, Requests, Stages, NoCredential
  <2> QED BY <2>1, <2>2 DEF CallOK, Idle
<1>11. \A c \in Clients : calls[c] = Idle
  BY DEF AccountsInit
<1>12. CallsOK
  BY <1>10, <1>11 DEF CallsOK, CallOK, AccountsInit
<1>13. BootstrapOK
  BY <1>11 DEF BootstrapOK, At, Idle
<1> QED BY <1>9, <1>12, <1>13 DEF BrokerInv

(* Every step of the system keeps the invariant.                           *)
LEMMA StepOK == BrokerInv /\ [SystemNext]_vars => BrokerInv'
<1> SUFFICES ASSUME BrokerInv, [SystemNext]_vars PROVE BrokerInv'
  OBVIOUS
<1>1. CASE UNCHANGED vars
  <2>1. /\ UNCHANGED <<accounts, disabled, sessions, tokens, views, calls, roots, overlapped>>
        /\ UNCHANGED Existing
    BY <1>1 DEF vars, Existing
  <2>2. RowsOK' /\ RowsOK
    BY <2>1 DEF BrokerInv, RowsOK
  <2>3. RowsGrow
    BY <2>1, <2>2 DEF RowsGrow, RowsOK
  <2>4. \A call : CallOK(call) => CallOK(call)'
    BY <2>2, <2>3, CallStable
  <2>5. \A d \in Clients : CallOK(calls[d])'
    BY <2>1, <2>4 DEF BrokerInv, CallsOK
  <2>6. CallsOK'
    BY <2>1, <2>5 DEF BrokerInv, CallsOK
  <2>7. BootstrapOK'
    BY <2>1 DEF BrokerInv, BootstrapOK, At
  <2> QED BY <2>2, <2>6, <2>7 DEF BrokerInv
<1>2. ASSUME NEW c \in MayMove,
             SendToApi(c) \/ SendToBroker(c) \/ ApiStep(c) \/ BrokerStep(c) \/ Fails(c)
      PROVE  BrokerInv'
  <2>1. c \in Clients
    BY DEF MayMove, AtUnnoticed
  <2>2. CASE SendToApi(c) \/ SendToBroker(c)
    BY <2>1, <2>2, SendKeeps
  <2>3. CASE \/ Reads(c) \/ CheckPasses(c) \/ CheckRefuses(c) \/ NotReady(c)
             \/ requireAuth(c) \/ loadSessionState(c) \/ requireAdmin(c) \/ resolveTargetAccountId(c)
             \/ updateView(c) \/ Writes(c) \/ ProfileRefuses(c)
             \/ Settles(c) \/ Lists(c) \/ Looks(c) \/ Commands(c) \/ Fails(c)
    BY <2>1, <2>3, BesideKeeps
  <2>4. CASE countAccounts(c)
    BY <2>1, <2>4, CountKeeps
  <2>5. CASE createRootAccount(c)
    BY <2>1, <2>5, RootKeeps
  <2>6. CASE login(c) \/ logout(c)
    BY <2>1, <2>6, LoginKeeps
  <2>7. CASE createApiToken(c) \/ revokeApiToken(c) \/ createView(c)
    BY <2>1, <2>7, TokensKeep
  <2>8. CASE createAccount(c)
    BY <2>1, <2>8, CreateAccountKeeps
  <2> QED BY <1>2, <2>2, <2>3, <2>4, <2>5, <2>6, <2>7, <2>8 DEF ApiStep, BrokerStep
<1>3. CASE SessionExpires \/ AccountDisabled
  BY <1>3, TimeKeeps
<1> QED BY <1>1, <1>2, <1>3 DEF SystemNext

-----------------------------------------------------------------------------
(* The invariant holds of the runtime API and the broker in any number of  *)
(* requests: what a request may still do is bound by what the steps behind *)
(* it have established.                                                    *)
THEOREM BrokerInvHolds == SystemSpec => []BrokerInv
<1> QED BY InitOK, StepOK, PTL DEF SystemSpec

(* Sessions, tokens and views have owners, there is an administrator as    *)
(* soon as there is an account, and bootstrap makes a second one only when *)
(* two of them overlap (the count and the insert of index.ts:199).         *)
THEOREM AccountsSoundHolds == SystemSpec => []AccountsSound
<1>1. BrokerInv => AccountsSound
  <2> SUFFICES ASSUME BrokerInv PROVE AccountsSound
    OBVIOUS
  <2>1. \A s \in DOMAIN sessions : sessions[s] \in RowsOf(Existing)
    BY DEF BrokerInv, RowsOK
  <2>2. \A t \in DOMAIN tokens : tokens[t] \in RowsOf(Existing)
    BY DEF BrokerInv, RowsOK
  <2>3. \A v \in DOMAIN views : views[v] \in Existing
    BY DEF BrokerInv, RowsOK
  <2>4. /\ \A s \in DOMAIN sessions : sessions[s].owner \in Existing
        /\ \A t \in DOMAIN tokens : tokens[t].owner \in Existing
    BY <2>1, <2>2 DEF RowsOf
  <2> QED BY <2>3, <2>4 DEF BrokerInv, RowsOK, AccountsSound
<1> QED BY <1>1, BrokerInvHolds, PTL

(* A credential that is good for nothing when it is sent does nothing, and *)
(* behind what only an administrator may do there is one's credential, at  *)
(* the runtime API (requireAdmin) and over the broker's hop.               *)
THEOREM AuthorityBehindEffectsHolds == SystemSpec => []AuthorityBehindEffects
<1>1. BrokerInv => AuthorityBehindEffects
  BY DEF BrokerInv, CallsOK, CallOK, AuthorityBehindEffects, HasAuthority, AdminBehind, Me
<1> QED BY <1>1, BrokerInvHolds, PTL

(* A refusal means that nothing was done and a success that everything     *)
(* was, for every route of the two servers; and only the broker is asked   *)
(* for routes it has not.                                                  *)
THEOREM AnswersTellEffectsHolds == SystemSpec => []AnswersTellEffects
<1>1. BrokerInv => AnswersTellEffects
  BY DEF BrokerInv, CallsOK, CallOK, AnswersTellEffects, TellsEffects
<1> QED BY <1>1, BrokerInvHolds, PTL

(* The requests the broker's client makes in vain are those of its four    *)
(* methods for runtime hardware, and no others (api-client/src/index.ts:   *)
(* 838, whose base URL is the broker's in dev-console-web/src/App.tsx:77). *)
THEOREM UnservedMethods == Unserved = RuntimeHardwareCalls
<1>1. Unserved \subseteq RuntimeHardwareCalls
  BY ConsoleRoutes DEF Unserved
<1>2. RuntimeHardwareCalls \subseteq BrokerRequests
  BY DEF BrokerRequests
<1>3. ASSUME NEW route \in BrokerRoutes PROVE route.name \notin RuntimeHardwareCalls
  <2> DEFINE Served(r) == r.name \notin RuntimeHardwareCalls
  <2>1. \A name, steps : name \notin RuntimeHardwareCalls => Served(Route(name, steps))
    BY DEF Route
  <2> HIDE DEF Served
  <2>2. Served(brokerHealth) /\ Served(getOverview) /\ Served(getCoordinatorStatus) /\
        Served(getTasks) /\ Served(getTask) /\ Served(enqueueTask) /\ Served(retryTask) /\
        Served(getRuns) /\ Served(getRun) /\ Served(getUiReviewRuns)
    BY <2>1 DEF RuntimeHardwareCalls, Get, GetOne, brokerHealth, getOverview, getCoordinatorStatus, getTasks, getTask, enqueueTask,
        retryTask, getRuns, getRun, getUiReviewRuns
  <2>3. Served(getUiReviewRun) /\ Served(startUiReview) /\ Served(getFindings) /\
        Served(getBaselines) /\ Served(reviewFinding) /\ Served(promoteBaseline) /\
        Served(getUiReviewAsset) /\ Served(getDecks) /\ Served(getPreviewRuns) /\
        Served(getPreviewRun)
    BY <2>1 DEF RuntimeHardwareCalls, Get, GetOne, getUiReviewRun, startUiReview, getFindings, getBaselines, reviewFinding,
        promoteBaseline, getUiReviewAsset, getDecks, getPreviewRuns, getPreviewRun
  <2>4. Served(startPreview) /\ Served(getFeedback) /\ Served(postFeedback) /\
        Served(getPreviewAsset) /\ Served(getItems) /\ Served(getItem) /\ Served(getUnits) /\
        Served(getUnit) /\ Served(getInventoryBuilds) /\ Served(getInventoryBuild)
    BY <2>1 DEF RuntimeHardwareCalls, Get, GetOne, startPreview, getFeedback, postFeedback, getPreviewAsset, getItems, getItem, getUnits,
        getUnit, getInventoryBuilds, getInventoryBuild
  <2>5. Served(getEvents) /\ Served(startBuild) /\ Served(runtimePublish) /\
        Served(seedInventory) /\ Served(getRunDeployments) /\ Served(getRunDeployment) /\
        Served(startDeployment) /\ Served(resumeDeployment) /\ Served(completeStep) /\
        Served(cancelDeployment)
    BY <2>1 DEF RuntimeHardwareCalls, Get, GetOne, getEvents, startBuild, runtimePublish, seedInventory, getRunDeployments,
        getRunDeployment, startDeployment, resumeDeployment, completeStep, cancelDeployment
  <2>6. Served(getSourceDocuments) /\ Served(getClaims) /\ Served(searchClaims) /\
        Served(getEvaluations) /\ Served(getDocsCatalog) /\ Served(getSkills) /\
        Served(getProfileSummary) /\ Served(getDevProfile) /\ Served(postSignal) /\
        Served(postDecision)
    BY <2>1 DEF RuntimeHardwareCalls, Get, GetOne, getSourceDocuments, getClaims, searchClaims, getEvaluations, getDocsCatalog,
        getSkills, getProfileSummary, getDevProfile, postSignal, postDecision
  <2> QED BY <2>2, <2>3, <2>4, <2>5, <2>6 DEF BrokerRoutes, Served
<1> QED BY <1>1, <1>2, <1>3 DEF Unserved
=============================================================================
