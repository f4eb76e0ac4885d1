------------------------------ MODULE ApiClient ------------------------------
(***************************************************************************)
(* The requests the two HTTP clients of packages/api-client can send: the  *)
(* verb and the path each method writes.  `ApiClient' addresses the        *)
(* runtime API, `DevConsoleClient' the development console's broker.  A    *)
(* method sends one request, never repeats it, carries the browser's       *)
(* cookie, and turns every status that is not a success into an error: it  *)
(* shows its caller nothing of what the server did.  Some pages also ask   *)
(* the runtime API without a method, by a path of their own.               *)
(***************************************************************************)

(* ApiClient *)

ServiceCalls == { "GET /health", "GET /ready" }

RuntimeDataCalls ==
  { "GET /v1/devices", "GET /v1/telemetry/positions", "GET /v1/rtk/solutions", "GET /v1/ui/views" }

AuthCalls ==
  { "POST /v1/auth/bootstrap", "POST /v1/auth/login", "POST /v1/auth/logout",
    "GET /v1/auth/session", "GET /v1/me", "POST /v1/auth/tokens", "DELETE /v1/auth/tokens/:tokenId" }

PreferenceCalls ==
  { "GET /v1/me/profile", "PATCH /v1/me/profile", "GET /v1/me/views", "POST /v1/me/views",
    "PATCH /v1/me/views/:savedViewId", "POST /v1/me/preference-observations" }

SuggestionCalls ==
  { "GET /v1/me/suggestions", "POST /v1/me/suggestions/:suggestionId/review",
    "POST /v1/me/suggestions/:suggestionId/publish" }

AccountCalls == { "GET /v1/admin/accounts", "POST /v1/admin/accounts" }

\* the dashboard's and the native page's own requests
HardwarePageCalls ==
  { "GET /v1/hardware/builds", "GET /v1/hardware/deployments", "GET /v1/hardware/deployments/:deploymentRunId" }

(* DevConsoleClient *)

WorkspaceCalls ==
  { "GET /health", "GET /v1/workspace/overview", "GET /v1/workspace/coordinator-status" }

CoordinationCalls ==
  { "GET /v1/coordination/tasks", "POST /v1/coordination/tasks/enqueue",
    "POST /v1/coordination/tasks/:taskId/retry", "GET /v1/coordination/runs", "GET /v1/coordination/runs/:runId" }

AssetCalls == { "GET /v1/previews/assets", "GET /v1/reviews/ui/assets" }

PreviewCalls ==
  { "GET /v1/previews/decks", "GET /v1/previews/runs", "GET /v1/previews/runs/:previewRunId",
    "POST /v1/previews/runs", "GET /v1/previews/feedback", "POST /v1/previews/runs/:previewRunId/feedback" }

ReviewCalls ==
  { "GET /v1/reviews/ui/runs", "GET /v1/reviews/ui/runs/:uiReviewRunId", "POST /v1/reviews/ui/runs",
    "GET /v1/reviews/ui/findings", "POST /v1/reviews/ui/findings/:findingId/review",
    "GET /v1/reviews/ui/baselines", "POST /v1/reviews/ui/runs/:uiReviewRunId/promote-baseline" }

KnowledgeCalls ==
  { "GET /v1/knowledge/source-documents", "GET /v1/knowledge/claims", "GET /v1/knowledge/claims/search",
    "GET /v1/evaluations", "GET /v1/docs/catalog", "GET /v1/skills" }

DevProfileCalls == { "GET /v1/preferences/runtime-profile-summary", "GET /v1/preferences/dev-profile" }

InventoryCalls ==
  { "GET /v1/inventory/items", "GET /v1/inventory/items/:itemId", "GET /v1/inventory/units",
    "GET /v1/inventory/units/:unitId", "GET /v1/inventory/builds", "GET /v1/inventory/builds/:buildId",
    "GET /v1/inventory/events" }

BuildCalls == { "POST /v1/inventory/builds", "POST /v1/inventory/builds/:buildId/runtime-publish" }

DeploymentCalls == { "GET /v1/inventory/deployments", "GET /v1/inventory/deployments/:deploymentRunId" }

DeploymentWriteCalls ==
  { "POST /v1/inventory/deployments", "POST /v1/inventory/deployments/:deploymentRunId/resume",
    "POST /v1/inventory/deployments/:deploymentRunId/steps/:deploymentStepId/complete",
    "POST /v1/inventory/deployments/:deploymentRunId/cancel" }

\* listRuntimeHardwareBuilds and the like: methods of the broker's client whose
\* paths the runtime API serves and the broker does not
RuntimeHardwareCalls ==
  { "GET /v1/hardware/builds", "GET /v1/hardware/builds/:buildId", "GET /v1/hardware/deployments",
    "GET /v1/hardware/deployments/:deploymentRunId" }

WriteCalls ==
  { "POST /v1/inventory/seed", "POST /v1/preferences/signals", "POST /v1/preferences/decisions" }

RuntimeRequests ==
  ServiceCalls \cup RuntimeDataCalls \cup AuthCalls \cup PreferenceCalls
    \cup SuggestionCalls \cup AccountCalls \cup HardwarePageCalls

BrokerRequests ==
  WorkspaceCalls \cup CoordinationCalls \cup AssetCalls \cup PreviewCalls \cup ReviewCalls
    \cup KnowledgeCalls \cup DevProfileCalls \cup InventoryCalls \cup BuildCalls
    \cup DeploymentCalls \cup DeploymentWriteCalls \cup RuntimeHardwareCalls \cup WriteCalls
=============================================================================
