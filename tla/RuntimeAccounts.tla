--------------------------- MODULE RuntimeAccounts ---------------------------
(***************************************************************************)
(* The runtime API (services/api/src/index.ts): accounts, sessions, bearer *)
(* tokens and saved views, and every route as the sequence of the steps    *)
(* its handler takes.                                                      *)
(*                                                                         *)
(* A step ends where another request can come in between: a transaction or *)
(* query of the pool, a request to agent-memory, or a check on the         *)
(* request.  A step refuses (a 4xx answer), fails (5xx, or no answer at    *)
(* all), or the handler goes on with the next one; what an earlier step    *)
(* committed stays.  `due' is what a handler answers for when it succeeds, *)
(* `did' what it has done so far.                                          *)
(***************************************************************************)
EXTENDS Integers, Sequences, FiniteSets

CONSTANTS
  Accounts,      \* email addresses
  Clients,       \* pages and scripts, each with one request at a time
  MaxCalls,      \* requests sent
  MaxFaults      \* steps that fail, answers lost after the step was done, sessions
                 \* that expire and accounts that are disabled

ASSUME RuntimeAccountsAssumption == {MaxCalls, MaxFaults} \subseteq Nat /\ IsFiniteSet(Accounts)

VARIABLES
  accounts,   \* email -> "absent" or the role of its row in auth.account
  disabled,   \* accounts whose disabled_at is set
  sessions,   \* auth.session: [owner, over]
  tokens,     \* auth.api_token: [owner, over]
  views,      \* ui.saved_view: the owners of the overrides
  calls,      \* client -> its request
  roots,      \* history: the accounts bootstrap has created
  overlapped, \* history: a bootstrap looked while another was about to insert
  sent, faults

vars == <<accounts, disabled, sessions, tokens, views, calls, roots, overlapped, sent, faults>>
rows == <<accounts, disabled, sessions, tokens, views, roots, overlapped>>

Existing == {a \in Accounts : accounts[a] # "absent"}

(* Credentials: the cookie or the bearer token a request carries. *)
NoCredential == [kind |-> "none", id |-> 0]
Credentials == {NoCredential} \cup [kind : {"session"}, id : 1 .. Len(sessions)]
                              \cup [kind : {"token"}, id : 1 .. Len(tokens)]
RowOf(cred) == IF cred.kind = "session" THEN sessions[cred.id] ELSE tokens[cred.id]
\* Mutant: a disabled account's or a revoked credential's row is enough.
AuthenticatesAnyRow(cred) == cred # NoCredential

Authenticates(cred) ==
  /\ cred # NoCredential
  /\ ~RowOf(cred).over
  /\ RowOf(cred).owner \notin disabled

\* for the history of a request: nothing can come of it
Worthless(cred) ==
  cred = NoCredential \/ RowOf(cred).over \/ RowOf(cred).owner \in disabled

(* The kinds of steps. *)
Plain == {"read", "agent-read", "ready"}                        \* change nothing
Checks == {"body", "suggestion"}                                \* a 4xx on data not modelled
Commits == {"root", "login", "logout", "token", "revoke", "view", "own", "event",
            "profile", "account", "agent", "agent-write", "command"}   \* the last one is the broker's

Route(name, steps) == [name |-> name, steps |-> steps]

getHealth == Route("GET /health", <<>>)
getReady == Route("GET /ready", <<"ready">>)
postBootstrap == Route("POST /v1/auth/bootstrap", <<"body", "count", "root", "read">>)
postLogin == Route("POST /v1/auth/login", <<"body", "login", "read">>)
postLogout == Route("POST /v1/auth/logout", <<"logout">>)
getSession == Route("GET /v1/auth/session", <<"who", "read">>)
getMe == Route("GET /v1/me", <<"auth", "read">>)
postTokens == Route("POST /v1/auth/tokens", <<"auth", "body", "token">>)
deleteToken == Route("DELETE /v1/auth/tokens/:tokenId", <<"auth", "revoke">>)
getProfile == Route("GET /v1/me/profile", <<"auth", "read">>)
patchProfile == Route("PATCH /v1/me/profile", <<"auth", "body", "profile", "event", "agent", "read">>)
getViews == Route("GET /v1/me/views", <<"auth", "read">>)
\* recordRuntimePreferenceObservation, with agent-memory configured
RecordObservation == <<"event", "agent">>
postViews == Route("POST /v1/me/views", <<"auth", "body", "view">> \o RecordObservation)
patchView == Route("PATCH /v1/me/views/:savedViewId", <<"auth", "body", "own">> \o RecordObservation)
postObservations == Route("POST /v1/me/preference-observations", <<"auth", "body">> \o RecordObservation)
getSuggestions == Route("GET /v1/me/suggestions", <<"auth", "target", "agent-read">>)
postReview ==
  Route("POST /v1/me/suggestions/:suggestionId/review",
        <<"auth", "body", "target", "suggestion", "body", "agent-write">>)
postPublish ==
  Route("POST /v1/me/suggestions/:suggestionId/publish",
        <<"auth", "body", "target", "suggestion", "profile", "agent-write", "read">>)
getBuilds == Route("GET /v1/hardware/builds", <<"auth", "agent-read">>)
getBuild == Route("GET /v1/hardware/builds/:buildId", <<"auth", "body", "agent-read">>)
getDeployments == Route("GET /v1/hardware/deployments", <<"auth", "body", "agent-read">>)
getDeployment == Route("GET /v1/hardware/deployments/:deploymentRunId", <<"auth", "body", "agent-read">>)
getAccounts == Route("GET /v1/admin/accounts", <<"auth", "admin", "read">>)
postAccounts == Route("POST /v1/admin/accounts", <<"auth", "admin", "body", "account">>)
getDevices == Route("GET /v1/devices", <<"auth", "body", "read">>)
getPositions == Route("GET /v1/telemetry/positions", <<"auth", "body", "read">>)
getSolutions == Route("GET /v1/rtk/solutions", <<"auth", "body", "read">>)
getSavedViews == Route("GET /v1/ui/views", <<"auth", "read">>)

ApiRoutes == {
  getHealth, getReady, postBootstrap, postLogin, postLogout, getSession, getMe, postTokens,
  deleteToken, getProfile, patchProfile, getViews, postViews, patchView, postObservations,
  getSuggestions, postReview, postPublish, getBuilds, getBuild, getDeployments, getDeployment,
  getAccounts, postAccounts, getDevices, getPositions, getSolutions, getSavedViews }

NeedsLogin(steps) == \E i \in DOMAIN steps : steps[i] = "auth"
Due(steps) == {steps[i] : i \in DOMAIN steps} \cap Commits

Idle == [stage |-> "idle", cred |-> NoCredential, at |-> "api", dead |-> FALSE,
         left |-> <<>>, due |-> {}, did |-> {}]

\* one row per account: a session, a token, a view
OnePerAccount(R) ==
  {s \in [1 .. Cardinality(R) -> R] : \A i, j \in 1 .. Cardinality(R) : s[i] = s[j] => i = j}
Fresh(owner) == [owner |-> owner, over |-> FALSE]

\* fresh databases, or an installation in use
AccountsInit ==
  /\ accounts \in [Accounts -> {"absent", "operator", "admin"}]
  /\ Cardinality({a \in Accounts : accounts[a] = "admin"}) = IF Existing = {} THEN 0 ELSE 1
  /\ disabled = {}
  /\ \E owners \in OnePerAccount(Existing) :
       /\ sessions = [i \in DOMAIN owners |-> Fresh(owners[i])]
       /\ tokens = [i \in DOMAIN owners |-> Fresh(owners[i])]
       /\ views = owners
  /\ calls = [c \in Clients |-> Idle]
  /\ roots = {a \in Accounts : accounts[a] = "admin"}
  /\ overlapped = FALSE
  /\ sent = 0 /\ faults = 0

-----------------------------------------------------------------------------
(* A request: fetch with the cookie, or nothing when nobody is signed in.  *)
(* `dead' remembers a request that needs a login and carries a credential  *)
(* that was already good for nothing when it was sent.                     *)

Request(cred, server, steps) ==
  [stage |-> IF steps = <<>> THEN "ok" ELSE "sent", cred |-> cred, at |-> server,
   dead |-> NeedsLogin(steps) /\ Worthless(cred), left |-> steps, due |-> Due(steps), did |-> {}]

Send(c, server, routes, name) ==
  /\ calls[c].stage # "sent" /\ sent < MaxCalls
  /\ sent' = sent + 1
  /\ \/ \E cred \in Credentials, route \in routes :
          route.name = name /\ calls' = [calls EXCEPT ![c] = Request(cred, server, route.steps)]
     \/ /\ \A route \in routes : route.name # name              \* 404, whoever asks
        /\ calls' = [calls EXCEPT ![c] = [Idle EXCEPT !.stage = "no route", !.at = server]]
  /\ UNCHANGED <<rows, faults>>

At(c, step) == calls[c].stage = "sent" /\ Head(calls[c].left) = step
Me(c) == RowOf(calls[c].cred).owner

Answered(c, stage, did) ==
  calls' = [calls EXCEPT ![c].stage = stage, ![c].left = <<>>, ![c].did = @ \cup did]

\* the handler goes on behind the step it has done; the last step answers
Advances(c, did) ==
  IF Len(calls[c].left) = 1 THEN Answered(c, "ok", did)
  ELSE calls' = [calls EXCEPT ![c].left = Tail(@), ![c].did = @ \cup did]
GoesOn(c) == Advances(c, {}) /\ UNCHANGED <<sent, faults>>
Refuses(c) == Answered(c, "refused", {}) /\ UNCHANGED <<rows, sent, faults>>

\* a step that commits: its answer may still be lost
Done(c, step) ==
  /\ UNCHANGED sent
  /\ \/ Advances(c, {step}) /\ UNCHANGED faults
     \/ faults < MaxFaults /\ faults' = faults + 1 /\ Answered(c, "failed", {step})

\* the error handler: the transaction is rolled back, earlier ones are not
Breaks(c, step) ==
  /\ At(c, step) /\ step \notin {"body", "admin", "target", "kind", "settle"}
  /\ faults < MaxFaults /\ faults' = faults + 1
  /\ Answered(c, "failed", {})
  /\ UNCHANGED <<rows, sent>>

-----------------------------------------------------------------------------
(* The steps *)

Reads(c) == /\ \E step \in Plain : At(c, step)
            /\ GoesOn(c) /\ UNCHANGED rows

CheckPasses(c) == /\ \E step \in Checks : At(c, step)
                  /\ GoesOn(c) /\ UNCHANGED rows
CheckRefuses(c) == (\E step \in Checks : At(c, step)) /\ Refuses(c)

\* buildRuntimeApiReadiness: the ledger of applied migrations against the files
LedgerStatus(files, ledger) ==
  IF \E f \in files : ledger[f] = "changed" THEN "drift"
  ELSE IF \E f \in files : ledger[f] = "missing" THEN "pending" ELSE "ready"
NotReady(c) ==
  /\ At(c, "ready")
  /\ \E ledger \in [1 .. 2 -> {"applied", "changed", "missing"}] : LedgerStatus(1 .. 2, ledger) # "ready"
  /\ Answered(c, "failed", {}) /\ UNCHANGED <<rows, sent, faults>>

requireAuth(c) ==
  /\ At(c, "auth")
  /\ \/ Authenticates(calls[c].cred) /\ GoesOn(c) /\ UNCHANGED rows
     \/ ~Authenticates(calls[c].cred) /\ Refuses(c)

\* GET /v1/auth/session answers a 401 with `authenticated: false'
loadSessionState(c) ==
  /\ At(c, "who")
  /\ \/ Authenticates(calls[c].cred) /\ GoesOn(c)
     \/ ~Authenticates(calls[c].cred) /\ Answered(c, "ok", {}) /\ UNCHANGED <<sent, faults>>
  /\ UNCHANGED rows

requireAdmin(c) ==
  /\ At(c, "admin")
  /\ \/ accounts[Me(c)] = "admin" /\ GoesOn(c) /\ UNCHANGED rows
     \/ accounts[Me(c)] # "admin" /\ Refuses(c)

\* the request names no account or its own one, or an administrator another
resolveTargetAccountId(c) ==
  /\ At(c, "target")
  /\ \/ GoesOn(c) /\ UNCHANGED rows
     \/ accounts[Me(c)] # "admin" /\ Refuses(c)

\* Mutant: the bootstrap route does not look for accounts.
countAccountsSkipped(c) == At(c, "count") /\ GoesOn(c) /\ UNCHANGED rows

\* the count and the insert of one transaction at READ COMMITTED
countAccounts(c) ==
  /\ At(c, "count")
  /\ \/ /\ Existing = {} /\ GoesOn(c)
        /\ overlapped' = (overlapped \/ \E d \in Clients \ {c} : At(d, "root"))
        /\ UNCHANGED <<accounts, disabled, sessions, tokens, views, roots>>
     \/ Existing # {} /\ Refuses(c)

createRootAccount(c) ==
  /\ At(c, "root")
  /\ \E a \in Accounts :
       \/ /\ accounts[a] = "absent"
          /\ accounts' = [accounts EXCEPT ![a] = "admin"]
          /\ roots' = roots \cup {a}
          /\ sessions' = Append(sessions, Fresh(a))
          /\ Done(c, "root")
          /\ UNCHANGED <<disabled, tokens, views, overlapped>>
       \/ accounts[a] # "absent" /\ Refuses(c)

\* a wrong password, an unknown address and a disabled account are refused
login(c) ==
  /\ At(c, "login")
  /\ \/ \E a \in Existing \ disabled :
          /\ sessions' = Append(sessions, Fresh(a))
          /\ Done(c, "login")
          /\ UNCHANGED <<accounts, disabled, tokens, views, roots, overlapped>>
     \/ Refuses(c)

\* no login needed: the cookie's session is revoked, or there is nothing to do
logout(c) ==
  /\ At(c, "logout")
  /\ sessions' = IF calls[c].cred.kind = "session"
                 THEN [sessions EXCEPT ![calls[c].cred.id].over = TRUE] ELSE sessions
  /\ Done(c, "logout")
  /\ UNCHANGED <<accounts, disabled, tokens, views, roots, overlapped>>

createApiToken(c) ==
  /\ At(c, "token")
  /\ tokens' = Append(tokens, Fresh(Me(c)))
  /\ Done(c, "token")
  /\ UNCHANGED <<accounts, disabled, sessions, views, roots, overlapped>>

\* only the caller's own token; another one's is answered 204 as well
revokeApiToken(c) ==
  /\ At(c, "revoke")
  /\ \E t \in 1 .. Len(tokens) + 1 :
       tokens' = IF t \in DOMAIN tokens /\ tokens[t].owner = Me(c)
                 THEN [tokens EXCEPT ![t].over = TRUE] ELSE tokens
  /\ Done(c, "revoke")
  /\ UNCHANGED <<accounts, disabled, sessions, views, roots, overlapped>>

createView(c) ==
  /\ At(c, "view")
  /\ views' = Append(views, Me(c))
  /\ Done(c, "view")
  /\ UNCHANGED <<accounts, disabled, sessions, tokens, roots, overlapped>>

updateView(c) ==
  /\ At(c, "own")
  /\ \E v \in 1 .. Len(views) + 1 :
       \/ v \in DOMAIN views /\ views[v] = Me(c) /\ Done(c, "own") /\ UNCHANGED rows
       \/ ~(v \in DOMAIN views /\ views[v] = Me(c)) /\ Refuses(c)

\* rows no other step of this model reads; only publication refuses (409)
Writes(c) ==
  /\ \E step \in {"event", "agent", "agent-write", "profile"} : At(c, step) /\ Done(c, step)
  /\ UNCHANGED rows
ProfileRefuses(c) ==
  /\ At(c, "profile") /\ "agent-write" \in calls[c].due /\ Refuses(c)

createAccount(c) ==
  /\ At(c, "account")
  /\ \E a \in Accounts, role \in {"operator", "admin"} :
       \/ /\ accounts[a] = "absent"
          /\ accounts' = [accounts EXCEPT ![a] = role]
          /\ Done(c, "account")
          /\ UNCHANGED <<disabled, sessions, tokens, views, roots, overlapped>>
       \/ accounts[a] # "absent" /\ Refuses(c)

\* a session past its expires_at, and an operator who sets disabled_at
SessionExpires ==
  /\ faults < MaxFaults /\ faults' = faults + 1
  /\ \E s \in DOMAIN sessions : ~sessions[s].over /\ sessions' = [sessions EXCEPT ![s].over = TRUE]
  /\ UNCHANGED <<accounts, disabled, tokens, views, calls, roots, overlapped, sent>>
AccountDisabled ==
  /\ faults < MaxFaults /\ faults' = faults + 1
  /\ \E a \in Existing \ disabled : disabled' = disabled \cup {a}
  /\ UNCHANGED <<accounts, sessions, tokens, views, calls, roots, overlapped, sent>>

ApiStep(c) ==
  \/ Reads(c) \/ CheckPasses(c) \/ CheckRefuses(c) \/ NotReady(c)
  \/ requireAuth(c) \/ loadSessionState(c) \/ requireAdmin(c) \/ resolveTargetAccountId(c)
  \/ countAccounts(c) \/ createRootAccount(c) \/ login(c) \/ logout(c)
  \/ createApiToken(c) \/ revokeApiToken(c) \/ createView(c) \/ updateView(c)
  \/ Writes(c) \/ ProfileRefuses(c) \/ createAccount(c)
=============================================================================
