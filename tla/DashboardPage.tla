---------------------------- MODULE DashboardPage ----------------------------
(***************************************************************************)
(* The operators' page (apps/dashboard-web/src/App.tsx): one refresh that  *)
(* every handler starts when its order is answered, the forms, the         *)
(* selections, and the session cookie the browser keeps for it.            *)
(*                                                                         *)
(* A handler reads the page's state of the moment it was clicked in, also  *)
(* for the refresh it starts later.  Refreshes carry no number: any that   *)
(* is under way writes the page when it ends.  What the lists hold is      *)
(* abstracted to a clock of the orders the API has done, and to the        *)
(* account they belong to.  A form is filled in as it is submitted.        *)
(***************************************************************************)
EXTENDS Integers, Sequences, SequencesExt

CONSTANTS
  Accounts,
  Admins,      \* those with the role "admin"
  MaxEvents    \* what the user does, and what goes wrong: requests that fail,
               \* answers that are lost, sessions that expire

CONSTANT Nobody

ASSUME DashboardAssumption ==
  Admins \subseteq Accounts /\ Nobody \notin Accounts /\ MaxEvents \in Nat

VARIABLES
  sessions,    \* the API's sessions: their accounts
  over,        \* the sessions that are revoked or expired
  cookie,      \* the browser's session, or 0
  clock,       \* orders done that the page's lists show
  page,        \* DashboardState
  draft,       \* the account whose defaults are in the profile form
  editing,     \* the view form holds an override
  refreshes,   \* the refreshes under way
  orders,      \* the orders under way
  shaken,      \* history: since the last refresh that started alone, another
               \* overlapped it or something went wrong
  events,
  issues,      \* history: the ticks of the clock that were tokens issued
  late,        \* history: the token shown came to a page that was signed out
  leftover     \* what a sign-out leaves: whose entries the three forms hold
               \* that it does not empty, and of whose order the notice speaks

vars == <<sessions, over, cookie, clock, page, draft, editing, refreshes, orders, shaken, events,
          issues, late, leftover>>
beside == <<issues, late, leftover>>

Someone == Accounts \cup {Nobody}
\* the selections refreshDashboard takes as arguments
Selection(account, deployment) == [account |-> account, deployment |-> deployment]
NoSelection == Selection(Nobody, 0)
EmptyPage(status) ==
  [status |-> status, me |-> Nobody, profile |-> Nobody, suggestions |-> Nobody,
   selected |-> NoSelection, issued |-> Nobody, seen |-> 0]

\* the credential a request sent now carries: an expired session is none
Credential == IF cookie \in over THEN 0 ELSE cookie
AccountOf(s) == IF s = 0 THEN Nobody ELSE sessions[s]

Refresh(selection) == [stage |-> "health", selection |-> selection, cred |-> 0,
                       me |-> Nobody, profile |-> Nobody, since |-> 0]
StartRefresh(selection) ==
  /\ refreshes' = Append(refreshes, Refresh(selection))
  /\ shaken' = (refreshes # <<>>)

DashboardInit ==
  /\ \E a \in Someone : /\ sessions = IF a = Nobody THEN <<>> ELSE <<a>>
                        /\ cookie = IF a = Nobody THEN 0 ELSE 1
  /\ over = {} /\ clock = 0
  /\ page = EmptyPage("loading") /\ draft = Nobody /\ editing = FALSE
  /\ refreshes = <<Refresh(NoSelection)>> /\ orders = <<>>
  /\ shaken = FALSE /\ events = 0
  /\ issues = {} /\ late = FALSE
  /\ leftover = [login |-> Nobody, bootstrap |-> Nobody, account |-> Nobody, notice |-> Nobody]

-----------------------------------------------------------------------------
(* refreshDashboard, request by request.  The answer to a request whose    *)
(* session ends on the way may be either.                                  *)

Stage(k, stage) == refreshes[k].stage = stage
Accepted(k) == refreshes[k].cred # 0
Refused(k) == refreshes[k].cred \in over \cup {0}
Ends(k) == refreshes' = RemoveAt(refreshes, k)
Asks(k, stage, r) ==
  refreshes' = [refreshes EXCEPT ![k] = [r EXCEPT !.stage = stage, !.cred = Credential]]

HealthAnswered(k) ==
  /\ Stage(k, "health") /\ Asks(k, "me", [refreshes[k] EXCEPT !.since = clock])
  /\ UNCHANGED <<sessions, over, cookie, clock, page, draft, editing, orders, shaken, events, beside>>

MeAnswered(k) ==
  /\ Stage(k, "me") /\ Accepted(k)
  /\ Asks(k, "profile", [refreshes[k] EXCEPT !.me = AccountOf(refreshes[k].cred)])
  /\ UNCHANGED <<sessions, over, cookie, clock, page, draft, editing, orders, shaken, events, beside>>

pickSuggestionAccountId(me, selected) == IF selected # Nobody THEN selected ELSE me

ProfileAnswered(k) ==
  LET r == refreshes[k] IN
  /\ Stage(k, "profile") /\ Accepted(k)
  /\ Asks(k, "lists", [r EXCEPT !.profile = AccountOf(r.cred),
                                !.selection.account = pickSuggestionAccountId(r.me, @)])
  /\ UNCHANGED <<sessions, over, cookie, clock, page, draft, editing, orders, shaken, events, beside>>

\* 403: another account's suggestions, or the accounts, for an operator
ListsForbidden(r) ==
  /\ AccountOf(r.cred) \notin Admins
  /\ r.selection.account # AccountOf(r.cred) \/ r.me \in Admins

ListsAnswered(k) ==
  LET r == refreshes[k] IN
  /\ Stage(k, "lists") /\ Accepted(k) /\ ~ListsForbidden(r)
  /\ \E v \in r.since .. clock :
       page' = [page EXCEPT !.status = "signed_in", !.me = r.me, !.profile = r.profile,
                            !.suggestions = r.selection.account, !.selected = r.selection, !.seen = v]
  /\ draft' = r.profile
  /\ Ends(k)
  /\ UNCHANGED <<sessions, over, cookie, clock, editing, orders, shaken, events, beside>>

\* Mutant: the token issued to who signed out stays on the page.
SignedOutKeepsToken(k) ==
  /\ refreshes[k].stage \in {"me", "profile", "lists"} /\ Refused(k)
  /\ page' = [EmptyPage("signed_out") EXCEPT !.issued = page.issued]
  /\ draft' = Nobody /\ editing' = FALSE
  /\ Ends(k)
  /\ UNCHANGED <<sessions, over, cookie, clock, orders, shaken, events, beside>>

\* a 401 to any of them empties the lists, the selections, the issued token,
\* the profile form and the view form; the sign-in forms, the account form
\* and the notice stay
SignedOut(k) ==
  /\ refreshes[k].stage \in {"me", "profile", "lists"} /\ Refused(k)
  /\ page' = EmptyPage("signed_out") /\ draft' = Nobody /\ editing' = FALSE
  /\ late' = FALSE
  /\ Ends(k)
  /\ UNCHANGED <<sessions, over, cookie, clock, orders, shaken, events, issues, leftover>>

\* every other failure leaves the page as it is
RefreshFails(k) ==
  /\ \/ Stage(k, "lists") /\ Accepted(k) /\ ListsForbidden(refreshes[k]) /\ UNCHANGED events
     \/ events < MaxEvents /\ events' = events + 1
  /\ Ends(k) /\ shaken' = TRUE
  /\ UNCHANGED <<sessions, over, cookie, clock, page, draft, editing, orders, beside>>

-----------------------------------------------------------------------------
(* What the user does.  `who', `selection' and `of' are what the page      *)
(* showed at the click: the account, the selections, and the account the   *)
(* order is about.                                                         *)

\* the last refresh has ended, overlapped no other, and nothing went wrong since
Settled == ~shaken /\ refreshes = <<>>

\* "change": the orders that differ in nothing the page could notice;
\* "decide": a review or a publication; `of' an account to create is who
\* filled in its form
Order(kind, of) ==
  [kind |-> kind, stage |-> "sent", cred |-> Credential, who |-> page.me,
   selection |-> page.selected, of |-> of, new |-> 0,
   settled |-> Settled]
Click(kind, of) ==
  /\ events < MaxEvents /\ events' = events + 1
  /\ orders' = Append(orders, Order(kind, of))
  /\ UNCHANGED <<sessions, over, cookie, clock, page, draft, editing, refreshes, shaken, issues, late>>
Press(kind, of) == Click(kind, of) /\ UNCHANGED leftover
ShownSignedIn == page.status = "signed_in"
\* the profile form saves what is in it: a refresh's answer, edited or not
ProfileForm == draft
\* a card's suggestion belongs to the account whose list is shown
CardAccount == page.suggestions

handleLogin ==
  ~ShownSignedIn /\ \E a \in Accounts : Click("login", a) /\ leftover' = [leftover EXCEPT !.login = a]
handleBootstrap ==
  /\ ~ShownSignedIn /\ sessions = <<>>
  /\ \E a \in Admins : Click("bootstrap", a) /\ leftover' = [leftover EXCEPT !.bootstrap = a]
handleLogout == ShownSignedIn /\ Press("logout", page.me)
handleCreateApiToken == ShownSignedIn /\ Press("token", page.me)
handleRevokeToken == ShownSignedIn /\ Press("change", page.me)
handleProfileSave == ShownSignedIn /\ Press("save", ProfileForm)
handleUseSharedTemplate == ShownSignedIn /\ Press("change", page.me)
handleViewSubmit == ShownSignedIn /\ Press("view", page.me)
handleReviewSuggestion == ShownSignedIn /\ Press("decide", CardAccount)
handlePublishSuggestion == ShownSignedIn /\ Press("decide", CardAccount)
\* the account form may hold what somebody else has left in it
handleAdminAccountCreate ==
  /\ ShownSignedIn /\ page.me \in Admins
  /\ \E who \in {page.me, leftover.account} \ {Nobody} :
       Click("account", who) /\ leftover' = [leftover EXCEPT !.account = who]

beginViewEdit ==
  /\ ShownSignedIn /\ ~editing /\ events < MaxEvents /\ events' = events + 1
  /\ editing' = TRUE
  /\ UNCHANGED <<sessions, over, cookie, clock, page, draft, refreshes, orders, shaken, beside>>

ClearEdit ==
  /\ ShownSignedIn /\ editing /\ editing' = FALSE
  /\ UNCHANGED <<sessions, over, cookie, clock, page, draft, refreshes, orders, shaken, events, beside>>

Look(selection) ==
  /\ ShownSignedIn /\ events < MaxEvents /\ events' = events + 1
  /\ StartRefresh(selection)
  /\ UNCHANGED <<sessions, over, cookie, clock, draft, editing, orders, beside>>
InspectDeployment ==
  Look([page.selected EXCEPT !.deployment = 1]) /\ UNCHANGED page
\* the select shows the account at once, the lists when they come
SelectAccount ==
  /\ page.me \in Admins
  /\ \E a \in Accounts : /\ page' = [page EXCEPT !.selected.account = a]
                         /\ Look(Selection(a, page.selected.deployment))

-----------------------------------------------------------------------------
(* The API does an order or refuses it; the order's handler goes on when   *)
(* the answer arrives.                                                     *)

SignsIn(kind) == kind \in {"login", "bootstrap"}
Actor(o) == IF SignsIn(o.kind) THEN o.of ELSE AccountOf(o.cred)
\* the page's lists show it: an issued token is one of me.apiTokens
TakesNotice(kind) == kind \notin {"login", "bootstrap", "logout"}

\* review and publish: the account named must be the suggestion's, and the
\* caller's own unless an administrator names it
TargetOf(o) == pickSuggestionAccountId(AccountOf(o.cred), o.selection.account)
\* Mutant: the suggestion's account is not compared with the one named.
SuggestionOfAnyone(o) == TargetOf(o) = AccountOf(o.cred) \/ AccountOf(o.cred) \in Admins

SuggestionFound(o) ==
  /\ TargetOf(o) = AccountOf(o.cred) \/ AccountOf(o.cred) \in Admins
  /\ o.of = TargetOf(o)

Permitted(o) ==
  CASE SignsIn(o.kind) -> o.kind = "login" \/ sessions = <<>>
    [] o.kind = "logout" -> TRUE
    [] o.kind = "decide" -> o.cred # 0 /\ SuggestionFound(o)
    [] o.kind = "account" -> o.cred # 0 /\ AccountOf(o.cred) \in Admins
    [] OTHER -> o.cred # 0

Served(i) ==
  LET o == orders[i] IN
  /\ o.stage = "sent" /\ Permitted(o) /\ (o.cred \notin over \/ o.kind = "logout" \/ SignsIn(o.kind))
  /\ sessions' = IF SignsIn(o.kind) THEN Append(sessions, o.of) ELSE sessions
  /\ over' = IF o.kind = "logout" /\ o.cred # 0 THEN over \cup {o.cred} ELSE over
  /\ clock' = IF TakesNotice(o.kind) THEN clock + 1 ELSE clock
  /\ issues' = IF o.kind = "token" THEN issues \cup {clock'} ELSE issues
  /\ orders' = [orders EXCEPT ![i].stage = "done", ![i].new = IF SignsIn(o.kind) THEN Len(sessions) + 1 ELSE 0]
  /\ UNCHANGED <<cookie, page, draft, editing, refreshes, shaken, events, late, leftover>>

\* the page shows the error and asks for nothing
OrderFails(i) ==
  LET o == orders[i] IN
  /\ \/ /\ o.stage = "sent"
        /\ ~Permitted(o) \/ (o.cred \in over /\ o.kind # "logout") \/ o.kind = "login"
        /\ UNCHANGED <<events, shaken>>
     \/ /\ events < MaxEvents /\ events' = events + 1 /\ shaken' = TRUE
  /\ orders' = RemoveAt(orders, i)
  /\ UNCHANGED <<sessions, over, cookie, clock, page, draft, editing, refreshes, beside>>

\* which selections the handler hands to the refresh
NextSelection(o) ==
  IF SignsIn(o.kind) \/ o.kind = "logout" THEN Selection(Nobody, o.selection.deployment) ELSE o.selection

\* Mutant: saving a view does not refresh either.
StartsFewRefreshes(kind) == kind \in {"token", "view"}

\* issuing a token ends in the reset of a form React has already let go of:
\* the handler's catch shows the TypeError, and the page is not refreshed
StartsNoRefresh(kind) == kind = "token"

OrderAnswered(i) ==
  LET o == orders[i] IN
  /\ o.stage = "done"
  /\ orders' = RemoveAt(orders, i)
  /\ cookie' = IF SignsIn(o.kind) THEN o.new ELSE IF o.kind = "logout" THEN 0 ELSE cookie
  /\ page' = IF o.kind = "token" THEN [page EXCEPT !.issued = Actor(o)] ELSE page
  /\ editing' = (editing /\ o.kind # "view")
  /\ late' = IF o.kind = "token" THEN ~ShownSignedIn ELSE late
  /\ leftover' = [leftover EXCEPT !.account = IF o.kind = "account" THEN Nobody ELSE @,
                                      !.notice = IF SignsIn(o.kind) \/ o.kind = "logout" THEN Nobody ELSE Actor(o)]
  /\ IF StartsNoRefresh(o.kind) THEN UNCHANGED <<refreshes, shaken>>
     ELSE StartRefresh(NextSelection(o))
  /\ UNCHANGED <<sessions, over, clock, draft, events, issues>>

SessionExpires ==
  /\ events < MaxEvents /\ events' = events + 1 /\ shaken' = TRUE
  /\ Credential # 0 /\ over' = over \cup {cookie}
  /\ UNCHANGED <<sessions, cookie, clock, page, draft, editing, refreshes, orders, beside>>

DashboardNext ==
  \/ \E k \in DOMAIN refreshes :
       HealthAnswered(k) \/ MeAnswered(k) \/ ProfileAnswered(k) \/ ListsAnswered(k) \/ SignedOut(k) \/ RefreshFails(k)
  \/ \E i \in DOMAIN orders : Served(i) \/ OrderFails(i) \/ OrderAnswered(i)
  \/ handleLogin \/ handleBootstrap \/ handleLogout \/ handleCreateApiToken \/ handleRevokeToken
  \/ handleProfileSave \/ handleUseSharedTemplate \/ handleViewSubmit \/ handleReviewSuggestion
  \/ handlePublishSuggestion \/ handleAdminAccountCreate
  \/ beginViewEdit \/ ClearEdit \/ InspectDeployment \/ SelectAccount \/ SessionExpires

DashboardSpec == DashboardInit /\ [][DashboardNext]_vars

-----------------------------------------------------------------------------
(* Properties *)

(* What a sign-out takes away is gone for good (App.tsx:199-221): while    *)
(* nobody is shown as signed in, there are no lists, no selections, no     *)
(* entries in the profile and view forms and no token issued before,       *)
(* however many answers were on their way.  One thing comes back: a token  *)
(* whose answer is late.  The notice and the entries of the sign-in and    *)
(* account forms (`leftover') are not taken away at all.                   *)
ListsLeaveWithAccount ==
  /\ page.status \in {"loading", "signed_out", "signed_in"}
  /\ {page.me, page.profile, page.suggestions, page.selected.account, page.issued, draft} \subseteq Someone
  /\ ShownSignedIn <=> page.me # Nobody
  /\ ~ShownSignedIn => /\ [page EXCEPT !.issued = Nobody] = EmptyPage(page.status)
                       /\ page.issued # Nobody => late
                       /\ draft = Nobody /\ ~editing

(* An order the API has done was done in the name of the account the page  *)
(* showed at the click, and a saved profile was that account's own, if the *)
(* click found the page settled: a page shows an account that is no longer *)
(* signed in until the refresh behind the sign-in ends, and longer when    *)
(* that refresh fails or a late one ends behind it.  A suggestion reviewed *)
(* or published always belongs to the account the page named, although the *)
(* select names it before its list is there (App.tsx:1009, index.ts:513).  *)
OrdersInOwnName ==
  \A i \in DOMAIN orders :
    orders[i].stage = "done" =>
      LET o == orders[i] IN
      /\ o.settled /\ TakesNotice(o.kind) => Actor(o) = o.who
      /\ o.settled /\ o.kind = "save" => o.of = Actor(o)
      /\ o.kind = "decide" => o.of = o.selection.account

(* A settled page shows the account of its cookie and, once no order is on *)
(* its way, all that its orders have changed but the tokens issued since:  *)
(* the handlers refresh behind their orders, and a refresh that runs alone *)
(* (App.tsx:129) brings the page up to date again, whatever overlapped or  *)
(* failed before.  Issuing a token refreshes nothing (App.tsx:304), though *)
(* the page lists tokens (App.tsx:633).                                    *)
SettledPageIsCurrent ==
  Settled /\ ShownSignedIn =>
    /\ page.me = AccountOf(cookie) /\ page.profile = page.me /\ draft = page.me
    /\ orders = <<>> => (page.seen + 1) .. clock \subseteq issues
=============================================================================
