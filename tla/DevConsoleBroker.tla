--------------------------- MODULE DevConsoleBroker ---------------------------
(***************************************************************************)
(* The development console's broker (services/dev-console-api/src/index.ts)*)
(* between the console, the runtime API and agent-memory.  It keeps        *)
(* nothing: every route forwards the caller's cookie or token to GET /v1/me*)
(* of the runtime API, asks for the role "admin", and passes the request on*)
(* with its own token.  A 4xx answer of either service is passed back as it*)
(* came.                                                                   *)
(*                                                                         *)
(* The module composes the broker with the runtime API and with the        *)
(* requests the clients can send.                                          *)
(***************************************************************************)
EXTENDS RuntimeAccounts, ApiClient

\* requireAdmin: authentication and read of GET /v1/me, then the role
ForAdmins(steps) == <<"auth", "read", "admin">> \o steps
Get(name) == Route(name, ForAdmins(<<"list">>))
GetOne(name) == Route(name, ForAdmins(<<"body", "get">>))

brokerHealth == Route("GET /health", <<>>)
OverviewSteps == <<"settle", "settle", "settle">>              \* port, probes, backup
CoordinatorSteps == OverviewSteps \o <<"settle", "settle", "settle">>
getOverview == Route("GET /v1/workspace/overview", ForAdmins(OverviewSteps))
getCoordinatorStatus == Route("GET /v1/workspace/coordinator-status", ForAdmins(CoordinatorSteps))

getTasks == Get("GET /v1/coordination/tasks")
getTask == GetOne("GET /v1/coordination/tasks/:taskId")
\* Mutant: the task is enqueued before its kind is looked up.
enqueueTaskFirst == Route("POST /v1/coordination/tasks/enqueue", ForAdmins(<<"body", "command", "kind">>))

enqueueTask == Route("POST /v1/coordination/tasks/enqueue", ForAdmins(<<"body", "kind", "command">>))
retryTask == Route("POST /v1/coordination/tasks/:taskId/retry", ForAdmins(<<"body", "command">>))
getRuns == Get("GET /v1/coordination/runs")
getRun == GetOne("GET /v1/coordination/runs/:runId")

getUiReviewRuns == Get("GET /v1/reviews/ui/runs")
getUiReviewRun == GetOne("GET /v1/reviews/ui/runs/:uiReviewRunId")
startUiReview == Route("POST /v1/reviews/ui/runs", ForAdmins(<<"body", "command">>))
getFindings == Get("GET /v1/reviews/ui/findings")
getBaselines == Get("GET /v1/reviews/ui/baselines")
reviewFinding == Route("POST /v1/reviews/ui/findings/:findingId/review", ForAdmins(<<"body", "command">>))
promoteBaseline == Route("POST /v1/reviews/ui/runs/:uiReviewRunId/promote-baseline", ForAdmins(<<"body", "command">>))
getUiReviewAsset == Route("GET /v1/reviews/ui/assets", ForAdmins(<<"body", "file">>))

CatalogSteps == <<"list">>    \* the files of docs/, read one after the other
getDecks == Route("GET /v1/previews/decks", ForAdmins(CatalogSteps))
getPreviewRuns == Get("GET /v1/previews/runs")
getPreviewRun == GetOne("GET /v1/previews/runs/:previewRunId")
startPreview == Route("POST /v1/previews/runs", ForAdmins(<<"body">> \o CatalogSteps \o <<"deck", "command">>))
getFeedback == Get("GET /v1/previews/feedback")
postFeedback == Route("POST /v1/previews/runs/:previewRunId/feedback", ForAdmins(<<"body", "command">>))
getPreviewAsset == Route("GET /v1/previews/assets", ForAdmins(<<"body", "file">>))

getItems == Get("GET /v1/inventory/items")
getItem == GetOne("GET /v1/inventory/items/:itemId")
getUnits == Get("GET /v1/inventory/units")
getUnit == GetOne("GET /v1/inventory/units/:unitId")
getInventoryBuilds == Get("GET /v1/inventory/builds")
getInventoryBuild == GetOne("GET /v1/inventory/builds/:buildId")
getEvents == Get("GET /v1/inventory/events")
startBuild == Route("POST /v1/inventory/builds", ForAdmins(<<"body", "command">>))
runtimePublish == Route("POST /v1/inventory/builds/:buildId/runtime-publish", ForAdmins(<<"body", "command">>))
seedInventory == Route("POST /v1/inventory/seed", ForAdmins(<<"body", "command">>))
getRunDeployments == Get("GET /v1/inventory/deployments")
getRunDeployment == GetOne("GET /v1/inventory/deployments/:deploymentRunId")
startDeployment == Route("POST /v1/inventory/deployments", ForAdmins(<<"body", "command">>))
resumeDeployment == Route("POST /v1/inventory/deployments/:deploymentRunId/resume", ForAdmins(<<"body", "command">>))
completeStep ==
  Route("POST /v1/inventory/deployments/:deploymentRunId/steps/:deploymentStepId/complete",
        ForAdmins(<<"body", "command">>))
cancelDeployment == Route("POST /v1/inventory/deployments/:deploymentRunId/cancel", ForAdmins(<<"body", "command">>))

getSourceDocuments == Get("GET /v1/knowledge/source-documents")
getClaims == Get("GET /v1/knowledge/claims")
searchClaims == Get("GET /v1/knowledge/claims/search")
getEvaluations == Get("GET /v1/evaluations")
getDocsCatalog == Route("GET /v1/docs/catalog", ForAdmins(CatalogSteps))
getSkills == Route("GET /v1/skills", ForAdmins(CatalogSteps))
getProfileSummary == Route("GET /v1/preferences/runtime-profile-summary", ForAdmins(<<>>))
getDevProfile == Get("GET /v1/preferences/dev-profile")
postSignal == Route("POST /v1/preferences/signals", ForAdmins(<<"body", "command">>))
\* the decision is recorded, then the profile is read for the answer
postDecision == Route("POST /v1/preferences/decisions", ForAdmins(<<"body", "command", "list">>))

BrokerRoutes == {
  brokerHealth, getOverview, getCoordinatorStatus, getTasks, getTask, enqueueTask, retryTask,
  getRuns, getRun, getUiReviewRuns, getUiReviewRun, startUiReview, getFindings, getBaselines,
  reviewFinding, promoteBaseline, getUiReviewAsset, getDecks, getPreviewRuns, getPreviewRun,
  startPreview, getFeedback, postFeedback, getPreviewAsset, getItems, getItem, getUnits,
  getUnit, getInventoryBuilds, getInventoryBuild, getEvents, startBuild, runtimePublish,
  seedInventory, getRunDeployments, getRunDeployment, startDeployment, resumeDeployment,
  completeStep, cancelDeployment, getSourceDocuments, getClaims, searchClaims, getEvaluations,
  getDocsCatalog, getSkills, getProfileSummary, getDevProfile, postSignal, postDecision }

\* what the broker's client can ask for in vain
Unserved == {name \in BrokerRequests : \A route \in BrokerRoutes : route.name # name}

-----------------------------------------------------------------------------
SendToApi(c) == \E name \in RuntimeRequests : Send(c, "api", ApiRoutes, name)
SendToBroker(c) == \E name \in BrokerRequests : Send(c, "broker", BrokerRoutes, name)

\* the steps that catch their own failures, and those that only read
Settles(c) == At(c, "settle") /\ GoesOn(c) /\ UNCHANGED rows
Lists(c) == At(c, "list") /\ GoesOn(c) /\ UNCHANGED rows

\* 404 of agent-memory, of the file system, of the deck catalogue; 409 of the kinds
Looks(c) ==
  /\ \E step \in {"get", "file", "deck", "kind"} : At(c, step)
  /\ \/ GoesOn(c) /\ UNCHANGED rows
     \/ Refuses(c)

\* a POST to agent-memory, which may refuse it
Commands(c) ==
  /\ At(c, "command")
  /\ \/ Done(c, "command") /\ UNCHANGED rows
     \/ Refuses(c)

BrokerStep(c) == Settles(c) \/ Lists(c) \/ Looks(c) \/ Commands(c)

Fails(c) == calls[c].stage = "sent" /\ Breaks(c, Head(calls[c].left))

(* Steps that read and write nothing another request could notice go       *)
(* first: in any other order they would end alike.                         *)
Unnoticed == Plain \cup Checks \cup {"list", "get", "file", "deck", "kind", "settle"}
AtUnnoticed == {c \in Clients : \E step \in Unnoticed : At(c, step)}
MayMove == IF AtUnnoticed = {} THEN Clients ELSE AtUnnoticed

SystemNext ==
  \/ \E c \in MayMove : \/ SendToApi(c) \/ SendToBroker(c)
                        \/ ApiStep(c) \/ BrokerStep(c)
                        \/ Fails(c)
  \/ AtUnnoticed = {} /\ (SessionExpires \/ AccountDisabled)

SystemSpec == AccountsInit /\ [][SystemNext]_vars

-----------------------------------------------------------------------------
(* Properties *)

(* Every session, token and view belongs to an account there is, nobody is *)
(* an operator where there is no administrator, and there are two accounts *)
(* made by bootstrap only if two bootstraps overlapped: the count and the  *)
(* insert of the route (index.ts:199) are one transaction, but one that    *)
(* does not see the other's row.                                           *)
AccountsSound ==
  /\ accounts \in [Accounts -> {"absent", "operator", "admin"}]
  /\ \A s \in DOMAIN sessions : sessions[s].owner \in Existing
  /\ \A t \in DOMAIN tokens : tokens[t].owner \in Existing
  /\ \A v \in DOMAIN views : views[v] \in Existing
  /\ roots \subseteq {a \in Accounts : accounts[a] = "admin"}
  /\ Existing # {} => roots # {}
  /\ Cardinality(roots) > 1 => overlapped

\* of the request a client has sent last
HasAuthority(c) ==
  /\ calls[c].dead => calls[c].did = {} /\ calls[c].stage # "ok"
  /\ calls[c].did # {} /\ (calls[c].at = "broker" \/ "account" \in calls[c].did)
       => accounts[Me(c)] = "admin"

(* A request that carried a revoked, expired or disabled credential when   *)
(* it was sent does nothing and is not let through, at the API or over the *)
(* broker's hop, whatever happens while it is on its way; and what only an *)
(* administrator may do has an administrator's credential behind it.       *)
AuthorityBehindEffects == \A c \in Clients : HasAuthority(c)

TellsEffects(c) ==
  /\ calls[c].stage = "refused" => calls[c].did = {}
  /\ calls[c].stage = "ok" => calls[c].did = calls[c].due
  /\ calls[c].stage = "no route" => calls[c].at = "broker"

(* What a client can conclude from an answer: a refused request has left   *)
(* nothing behind, and a request answered with success has done all its    *)
(* route does.  The runtime API has every route it is asked for; the       *)
(* broker has not (api-client/src/index.ts:838).  A failure tells nothing: *)
(* the view, the token or the decision may be there (index.ts:394,         *)
(* dev-console-api/src/index.ts:736).                                      *)
AnswersTellEffects == \A c \in Clients : TellsEffects(c)
=============================================================================
