---------------------------- MODULE ConsoleLoads ----------------------------
(***************************************************************************)
(* The loading logic of the development console's page                     *)
(* (apps/dev-console-web/src/App.tsx): the session check, the load that    *)
(* every handler, timer and tick may start, the requests a load leaves     *)
(* behind it, and the answers that arrive in any order.                    *)
(*                                                                         *)
(* What the lists hold is abstracted to a clock: `server' counts the       *)
(* changes of the data behind the page, a shown section carries the clock  *)
(* of the answer it was filled with (0: null), and at clock v each list    *)
(* holds the runs 1 .. v - 1, newest first.  An answer was composed at     *)
(* some moment between its request and its arrival.                        *)
(*                                                                         *)
(* The lists a load fills write disjoint parts of the page and share only  *)
(* the load that asks for them.  A behaviour therefore watches one of them *)
(* (`watched'), with the session, the load and the coordination lists,     *)
(* and leaves the requests of the others out.                              *)
(*                                                                         *)
(* stateRef.current, which a load falls back on, is the state of the last  *)
(* render; it is taken here to be the state itself, that is, no answer     *)
(* arrives between a setState and the effect after its render.  The lists  *)
(* are never as long as the 12 runs a request asks for.                    *)
(***************************************************************************)
EXTENDS Integers, FiniteSets, FiniteSetsExt

CONSTANTS
  MaxActs,   \* what the user does (sign in or out, select, order), and
               \* changes others make to the data behind the page
  MaxFaults,   \* requests of a signed-in administrator that fail
  Rendered,    \* the preview runs that have something to show
  Planned      \* the preview runs that wait to be started

ASSUME ConsoleAssumption ==
  /\ {MaxActs, MaxFaults} \subseteq Nat
  /\ Rendered \subseteq Nat /\ Planned \subseteq Nat

VARIABLES
  watched,    \* the slice of the page this behaviour follows
  me,         \* who the page believes is signed in
  holder,     \* whom the session cookie really stands for
  asks,       \* session requests in flight
  loading,    \* state.loading
  server,     \* the clock of the data
  shown,      \* section -> clock of what is shown
  selected,   \* lane -> id of the selected run
  detail,     \* lane -> id of the run whose detail is shown
  primary,    \* the load in flight (consoleLoadInFlight), or NoLoad
  pending,    \* every other request in flight and every retry timer
  retried,    \* the lists whose one retry is used up
  post,       \* [flag, timer] of the refresh a second after sign-in
  visible,    \* document.visibilityState
  acts, faults

consoleVars ==
  <<watched, me, holder, asks, loading, server, shown, selected, detail,
    primary, pending, retried, post, visible, acts, faults>>

Who == {"nobody", "operator", "admin"}
\* "profile" stands for the twelve lists of the supplemental load
Sections == {"coordination", "decks", "previews", "profile"}
\* "review" stands for the review and the deployment selection
Lanes == {"run", "preview", "review"}
Slices == {"run", "decks", "previews", "profile"}
WatchedSections == {"coordination", watched} \cap Sections
WatchedLanes == CASE watched = "run" -> {"run"} [] watched = "decks" -> {}
                  [] watched = "previews" -> {"preview"} [] watched = "profile" -> {"review"}
\* what the caller of loadConsoleData does when the call returns
Return(then, lane, id) == [then |-> then, lane |-> lane, id |-> id]
Nothing == Return("nothing", "run", 0)
Session == Return("session", "run", 0)
NoLoad == [since |-> 0, ok |-> FALSE, old |-> 0, sel |-> 0, next |-> Nothing]
NullSections == [s \in Sections |-> 0]
NoRuns == [l \in Lanes |-> 0]

ListAt(v) == 1 .. (v - 1)
Newest(v) == IF v > 1 THEN v - 1 ELSE 0

\* pickPreferredPreviewRun: the selected run if listed, else the newest that is
\* rendered, or started, or any
Preferred(v, sel) ==
  LET rendered == Rendered \cap ListAt(v)
      started == ListAt(v) \ Planned
  IN  IF sel \in ListAt(v) THEN sel
      ELSE IF rendered # {} THEN Max(rendered)
      ELSE IF started # {} THEN Max(started)
      ELSE Newest(v)

-----------------------------------------------------------------------------
(* Requests.                                                               *)

NoHandler == [reloads |-> FALSE, then |-> "nothing", lane |-> "run", creates |-> FALSE, about |-> FALSE]

\* old: what is kept when the request fails, or the summary a choice falls back
\* on; sel: the id it is about;
\* kept: the review shown when a supplemental load began, or the run selected
\* when an order was given
Request(job, about, old, sel) ==
  [job |-> job, about |-> about, old |-> old, sel |-> sel,
   handler |-> NoHandler,
   kept |-> IF about = "profile" THEN detail["review"] ELSE 0,
   since |-> server, ok |-> holder = "admin"]

\* the requests that compare their token when they arrive
OfLoad(r) == r.job \in {"list", "retry", "detail"}
\* Mutant: requests of an older load still count.
KeepsOldLoads == pending
Survivors == {r \in pending : ~OfLoad(r)}

\* resolveSettledResult: the answer, or the fallback when the request failed
Answers(r) ==
  (IF r.ok THEN {[v |-> v, failed |-> FALSE, cost |-> 0] : v \in r.since .. server}
           ELSE {})
  \cup
  (IF ~r.ok \/ holder # "admin" \/ faults < MaxFaults
   THEN {[v |-> r.old, failed |-> TRUE,
          cost |-> IF r.ok /\ holder = "admin" THEN 1 ELSE 0]}
   ELSE {})

\* the arrival of the answer to r leaves the requests `more' behind
Arrives(r, answer, more) ==
  /\ pending' = (pending \ {r}) \cup more
  /\ faults' = faults + answer.cost

Busy == primary # NoLoad

\* loadConsoleData: nothing when a load is in flight, else a new token and
\* four requests.  `next' is what its caller does when the call returns.
BeginLoad(sel, next, others) ==
  /\ loading' = TRUE
  /\ primary' = [since |-> server, ok |-> holder = "admin",
                 old |-> shown["coordination"],
                 sel |-> IF sel # 0 THEN sel ELSE selected["run"],
                 next |-> next]
  /\ pending' = (Survivors \ others)
       \cup {Request("list", s, shown[s],
                     IF s = "previews" THEN selected["preview"]
                     ELSE IF s = "profile" THEN selected["review"] ELSE 0)
             : s \in {watched} \cap Sections}

-----------------------------------------------------------------------------
(* What happens when a call of loadConsoleData returns to its caller: the  *)
(* session check schedules one refresh, an order selects what it ordered.  *)

PostAfter(next) ==
  IF next.then = "session" /\ ~post.flag THEN [flag |-> TRUE, timer |-> TRUE] ELSE post
SelectedAfter(next, sel) ==
  IF next.then \in {"select", "show"} /\ next.lane \in WatchedLanes THEN [sel EXCEPT ![next.lane] = next.id] ELSE sel
DetailAfter(next) ==
  IF next.then = "show" /\ next.lane \in WatchedLanes THEN [detail EXCEPT ![next.lane] = next.id] ELSE detail

\* the call returns at once because a load is in flight
ReturnsAtOnce(next) ==
  /\ Busy
  /\ post' = PostAfter(next)
  /\ selected' = SelectedAfter(next, selected)
  /\ detail' = DetailAfter(next)
  /\ UNCHANGED <<loading, primary>>

-----------------------------------------------------------------------------
(* The session.                                                            *)

ConsoleInit ==
  /\ watched \in Slices
  /\ me = "nobody" /\ holder \in {"nobody", "admin"}
  /\ asks = 1 /\ loading = TRUE
  /\ server = 1
  /\ shown = NullSections /\ selected = NoRuns /\ detail = NoRuns
  /\ primary = NoLoad /\ pending = {}
  /\ retried = {} /\ post = [flag |-> FALSE, timer |-> FALSE] /\ visible = TRUE
  /\ acts = 0 /\ faults = 0

\* loadSession, up to its first await
AskSession ==
  /\ asks' = asks + 1
  /\ loading' = TRUE
  /\ retried' = {}
  /\ post' = [post EXCEPT !.flag = FALSE]

\* handleAuthSubmit: the sign-in succeeded
SignIn ==
  /\ me = "nobody" /\ acts < MaxActs /\ asks < 2
  /\ acts' = acts + 1
  /\ holder' \in {"operator", "admin"}
  /\ AskSession
  /\ UNCHANGED <<me, server, shown, selected, detail, primary, pending, faults>>

\* only an administrator's page goes on loading
\* Mutant: an operator's page is left loading.
LoadingForAll(role) == TRUE
StillLoading(role) == role = "admin"

\* getSessionState answers: the role is set, an administrator's page loads
SessionAnswered ==
  /\ asks > 0
  /\ asks' = asks - 1
  /\ me' = holder
  /\ \/ /\ holder # "admin"
        /\ loading' = StillLoading(holder)
        /\ UNCHANGED <<selected, detail, primary, pending, post>>
     \/ /\ holder = "admin"
        /\ \/ /\ ~Busy
              /\ BeginLoad(0, Session, {})
              /\ UNCHANGED <<selected, detail, post>>
           \/ ReturnsAtOnce(Session) /\ UNCHANGED pending
  /\ UNCHANGED <<holder, server, shown, retried, acts, faults>>

\* getSessionState fails
SessionFails ==
  /\ asks > 0 /\ faults < MaxFaults
  /\ asks' = asks - 1 /\ faults' = faults + 1
  /\ me' = "nobody" /\ loading' = FALSE
  /\ UNCHANGED <<holder, server, shown, selected, detail, primary, pending,
                 retried, post, acts>>

\* handleLogout: the lists go, the load in flight and its requests stay
SignOut ==
  /\ me # "nobody" /\ acts < MaxActs
  /\ acts' = acts + 1
  /\ holder' = "nobody" /\ me' = "nobody"
  /\ shown' = NullSections /\ detail' = NoRuns
  /\ selected' = [NoRuns EXCEPT !["run"] = selected["run"]]
  /\ retried' = {} /\ post' = [post EXCEPT !.flag = FALSE]
  /\ UNCHANGED <<asks, loading, server, primary, pending, faults>>

-----------------------------------------------------------------------------
(* The load.                                                               *)

\* the run that is selected when the lists have come
NextRun(sel, v) == IF sel # 0 THEN sel ELSE Newest(v)

\* loadRunDetailData
\* Mutant: the detail is not asked for again when the run stays.
AskChangedRunDetail(run) ==
  IF run = selected["run"] THEN {} ELSE {Request("detail", lane, detail["run"], run) : lane \in {"run"} \cap WatchedLanes}
AskRunDetail(run) ==
  {Request("detail", lane, detail["run"], run) : lane \in {"run"} \cap WatchedLanes}

\* the end of loadConsoleData, and its caller's next step
PrimaryLands ==
  /\ Busy
  /\ \E answer \in Answers(primary) :
       LET run == NextRun(primary.sel, answer.v)
       IN /\ shown' = [shown EXCEPT !["coordination"] = answer.v]
          /\ selected' = SelectedAfter(primary.next, [selected EXCEPT !["run"] = run])
          /\ detail' = DetailAfter(primary.next)
          /\ post' = PostAfter(primary.next)
          /\ pending' = pending \cup AskRunDetail(run)
          /\ faults' = faults + answer.cost
  /\ loading' = FALSE /\ primary' = NoLoad
  /\ UNCHANGED <<me, holder, asks, server, retried, acts>>

\* a list that came empty is asked for once more, 750 ms later
RetryTimer(r) == [r EXCEPT !.job = "retry"]
\* Mutant: the retry is not used up.
AskForEver(r, v) == Newest(v) = 0 /\ r.old = 0
AskAgain(r, v) == Newest(v) = 0 /\ r.old = 0 /\ r.about \notin retried
Used(r, v) == IF AskAgain(r, v) THEN retried \cup {r.about}
              ELSE IF Newest(v) # 0 THEN retried \ {r.about} ELSE retried

\* loadPreviewDeckData: the list is shown in any case
DecksLand ==
  \E r \in pending : \E answer \in Answers(r) :
    /\ r.job = "list" /\ r.about = "decks"
    /\ shown' = [shown EXCEPT !["decks"] = answer.v]
    /\ retried' = IF answer.v = 0 THEN retried ELSE Used(r, answer.v)
    /\ Arrives(r, answer, IF answer.v # 0 /\ AskAgain(r, answer.v) THEN {RetryTimer(r)} ELSE {})
    /\ UNCHANGED <<me, holder, asks, loading, server, selected, detail, primary, post, acts>>

\* loadPreviewRunData: an empty list is first treated as unknown
PreviewsLand ==
  \E r \in pending : \E answer \in Answers(r) :
    /\ r.job = "list" /\ r.about = "previews"
    /\ retried' = Used(r, answer.v)
    /\ LET run == Preferred(answer.v, r.sel)
       IN \/ /\ AskAgain(r, answer.v)
             /\ shown' = [shown EXCEPT !["previews"] = 0]
             /\ Arrives(r, answer, {RetryTimer(r)})
             /\ UNCHANGED <<selected, detail>>
          \/ /\ ~AskAgain(r, answer.v)
             /\ shown' = [shown EXCEPT !["previews"] = answer.v]
             /\ selected' = [selected EXCEPT !["preview"] = run]
             /\ detail' = IF run = 0 THEN detail ELSE [detail EXCEPT !["preview"] = run]
             /\ Arrives(r, answer, {Request("detail", "preview", 0, run)})
    /\ UNCHANGED <<me, holder, asks, loading, server, primary, post, acts>>

\* a retry timer of the load that set it fires
RetryFires ==
  \E r \in pending :
    /\ r.job = "retry"
    /\ pending' = (pending \ {r})
         \cup {Request("list", r.about, shown[r.about],
                       IF r.about = "previews" THEN selected["preview"] ELSE 0)}
    /\ UNCHANGED <<me, holder, asks, loading, server, shown, selected, detail,
                   primary, retried, post, acts, faults>>

\* loadSupplementalConsoleData, its lists
ProfileLands ==
  \E r \in pending : \E answer \in Answers(r) :
    /\ r.job = "list" /\ r.about = "profile"
    /\ shown' = [shown EXCEPT !["profile"] = answer.v]
    /\ LET run == NextRun(r.sel, answer.v)
       IN /\ selected' = [selected EXCEPT !["review"] = run]
          /\ detail' = IF run \in ListAt(answer.v) THEN [detail EXCEPT !["review"] = run] ELSE detail
          /\ Arrives(r, answer, {Request("detail", "review", r.kept, run)})
    /\ UNCHANGED <<me, holder, asks, loading, server, primary, retried, post, acts>>

\* The second stage.  When the detail does not come, the run lane falls back
\* on the detail shown when it was asked for, the review lane on the one shown
\* when the load began, and the preview lane keeps what is shown.
DetailLands ==
  \E r \in pending : \E answer \in Answers(r) :
    /\ r.job = "detail"
    /\ detail' = IF ~answer.failed /\ r.sel # 0 THEN [detail EXCEPT ![r.about] = r.sel]
                 ELSE IF r.about = "preview" THEN detail
                 ELSE [detail EXCEPT ![r.about] = r.old]
    /\ Arrives(r, answer, {})
    /\ UNCHANGED <<me, holder, asks, loading, server, shown, selected, primary,
                   retried, post, acts>>

\* the refresh a second after sign-in, if the page still is an administrator's
PostRefresh ==
  /\ post.timer
  /\ post' = [post EXCEPT !.timer = FALSE]
  /\ IF me = "admin" /\ ~Busy THEN BeginLoad(selected["run"], Nothing, {})
     ELSE UNCHANGED <<loading, primary, pending>>
  /\ UNCHANGED <<me, holder, asks, server, shown, selected, detail, retried, acts, faults>>

\* The interval, of a page in view.  Requests are assumed to end within the 30 s
\* between ticks.
Quiet == ~Busy /\ pending = {} /\ asks = 0 /\ ~post.timer
Tick ==
  /\ me = "admin" /\ visible /\ Quiet
  /\ BeginLoad(selected["run"], Nothing, {})
  /\ UNCHANGED <<me, holder, asks, server, shown, selected, detail, retried, post, acts, faults>>

-----------------------------------------------------------------------------
(* The preview panel's own load, without a token, when it is mounted or    *)
(* the decks come while the preview runs are unknown.                      *)

Hydrate ==
  /\ me = "admin" /\ watched = "previews" /\ shown["previews"] = 0
  /\ \A r \in pending : r.job # "hydrate"
  /\ pending' = pending \cup {Request("hydrate", "previews", 0, 0)}
  /\ UNCHANGED <<me, holder, asks, loading, server, shown, selected, detail,
                 primary, retried, post, acts, faults>>

HydrationLands ==
  \E r \in pending : \E answer \in Answers(r) :
    /\ r.job = "hydrate"
    /\ LET run == Preferred(answer.v, selected["preview"])
       IN \/ /\ answer.failed
             /\ Arrives(r, answer, {})
             /\ UNCHANGED <<shown, selected, detail>>
          \/ /\ ~answer.failed
             /\ shown' = [shown EXCEPT !["previews"] = answer.v]
             /\ selected' = [selected EXCEPT !["preview"] = run]
             /\ detail' = IF run = 0 THEN detail ELSE [detail EXCEPT !["preview"] = run]
             /\ Arrives(r, answer, IF run = 0 THEN {} ELSE {Request("choose", "preview", run, run)})
    /\ UNCHANGED <<me, holder, asks, loading, server, primary, retried, post, acts>>

-----------------------------------------------------------------------------
(* The user.                                                               *)

\* most selections ask first and select when the detail has come
AskSelection(lane, id, others) ==
  /\ pending' = (pending \ others) \cup {Request("choose", lane, 0, id)}
  /\ UNCHANGED <<selected, detail>>
handleRunSelection(id) == id \in ListAt(shown["coordination"]) /\ AskSelection("run", id, {})
handleUiReviewSelection(id, others) == AskSelection("review", id, others)
handleHardwareDeploymentSelection(id) ==
  id \in ListAt(shown["profile"]) /\ AskSelection("review", id, {})

\* a preview run is selected at once, and shown as the list has it
handlePreviewRunSelection(id, others) ==
  LET summary == IF id \in ListAt(shown["previews"]) THEN id ELSE 0 IN
  /\ pending' = (pending \ others) \cup {Request("choose", "preview", summary, id)}
  /\ selected' = [selected EXCEPT !["preview"] = id]
  /\ detail' = IF summary # 0 THEN [detail EXCEPT !["preview"] = summary] ELSE detail

Select ==
  /\ me = "admin" /\ acts < MaxActs
  /\ acts' = acts + 1
  /\ \E id \in 1 .. server :
       \/ watched = "run" /\ handleRunSelection(id)
       \/ watched = "profile" /\ handleHardwareDeploymentSelection(id)
       \/ watched = "profile" /\ id \in ListAt(shown["profile"]) /\ handleUiReviewSelection(id, {})
       \/ watched = "previews" /\ id \in ListAt(shown["previews"]) /\ handlePreviewRunSelection(id, {})
  /\ UNCHANGED <<me, holder, asks, loading, server, shown, primary, retried, post, faults>>

\* The detail of a selection, or of the run a hydration picked, arrives.  When
\* it does not, a preview lane shows the summary that was found for it, over
\* whatever it shows by now; the other lanes keep what they have.
SelectionLands ==
  \E r \in pending : \E answer \in Answers(r) :
    /\ r.job = "choose"
    /\ detail' = IF ~answer.failed THEN [detail EXCEPT ![r.about] = r.sel]
                 ELSE IF r.old # 0 THEN [detail EXCEPT ![r.about] = r.old]
                 ELSE detail
    /\ selected' = IF answer.failed \/ r.about = "preview" THEN selected
                   ELSE [selected EXCEPT ![r.about] = r.sel]
    /\ Arrives(r, answer, {})
    /\ UNCHANGED <<me, holder, asks, loading, server, shown, primary, retried, post, acts>>

\* What a handler does with the answer to its order: it reloads or not, and
\* then it is done ("nothing"), selects a run or shows one; it shows the profile
\* it was answered with, or chooses again the run it was about.
Reload == [reloads |-> TRUE, then |-> "nothing", lane |-> "run", creates |-> FALSE, about |-> FALSE]
Show(lane) == [Reload EXCEPT !.then = "show", !.lane = lane]
handleEnqueue == Reload
handleRetrySelectedTask == [Reload EXCEPT !.about = TRUE]
handleHardwareBuildStart == Reload
handleHardwareRuntimePublish == Reload
handlePreviewStart == [Show("preview") EXCEPT !.creates = TRUE]
handleUiReviewStart == [Show("review") EXCEPT !.creates = TRUE]
handleHardwareDeploymentStart == [Show("review") EXCEPT !.creates = TRUE]
handleHardwareDeploymentResume == [Show("review") EXCEPT !.about = TRUE]
handleHardwareDeploymentStepComplete == [Show("review") EXCEPT !.about = TRUE]
handleUiReviewPromoteBaseline == [Show("review") EXCEPT !.then = "select", !.about = TRUE]
handlePreviewFeedbackSubmit == [Show("preview") EXCEPT !.reloads = FALSE, !.then = "choose", !.about = TRUE]
handleUiReviewFindingReview == [Show("review") EXCEPT !.reloads = FALSE, !.then = "choose", !.about = TRUE]
handleSupervision == [Reload EXCEPT !.reloads = FALSE, !.then = "profile", !.lane = "review"]
recordPreferenceDecision == handleSupervision
Handlers ==
  {handleEnqueue, handleRetrySelectedTask, handleHardwareBuildStart, handleHardwareRuntimePublish,
   handlePreviewStart, handleUiReviewStart, handleHardwareDeploymentStart,
   handleHardwareDeploymentResume, handleHardwareDeploymentStepComplete,
   handleUiReviewPromoteBaseline, handlePreviewFeedbackSubmit, handleUiReviewFindingReview,
   handleSupervision, recordPreferenceDecision}

\* the handler keeps the run selected in its render and the run it is about
GiveOrder ==
  /\ me = "admin" /\ acts < MaxActs
  /\ acts' = acts + 1
  /\ \E h \in Handlers :
       /\ h = Reload \/ h.lane \in WatchedLanes
       /\ h.about => detail[h.lane] # 0
       /\ pending' = pending \cup
            {[Request("order", h.lane, selected[h.lane], 0)
                EXCEPT !.kept = selected["run"], !.handler = h]}
  /\ UNCHANGED <<me, holder, asks, loading, server, shown, selected, detail,
                 primary, retried, post, faults>>

\* The order was carried out.  Its call of loadConsoleData may do nothing.
OrderLands ==
  \E r \in pending :
    /\ r.job = "order" /\ r.ok
    /\ server' = server + 1
    /\ LET h == r.handler
           next == Return(h.then, h.lane, IF h.creates THEN Newest(server + 1) ELSE r.old)
       IN \/ /\ h.reloads /\ ~Busy
             /\ BeginLoad(r.kept, next, {r})
             /\ UNCHANGED <<shown, selected, detail, post>>
          \/ /\ h.reloads
             /\ ReturnsAtOnce(next)
             /\ pending' = pending \ {r}
             /\ UNCHANGED shown
          \/ /\ h.then = "profile"
             /\ shown' = [shown EXCEPT !["profile"] = server + 1]
             /\ pending' = pending \ {r}
             /\ UNCHANGED <<loading, primary, selected, detail, post>>
          \/ /\ h.then = "choose"
             /\ IF h.lane = "preview" THEN handlePreviewRunSelection(r.old, {r})
                ELSE handleUiReviewSelection(r.old, {r})
             /\ UNCHANGED <<loading, primary, shown, post>>
    /\ UNCHANGED <<me, holder, asks, retried, acts, faults>>

\* the order is refused, or its answer is lost: an error is shown
OrderRefused ==
  \E r \in pending :
    /\ r.job = "order"
    /\ \E answer \in Answers(r) : answer.failed /\ Arrives(r, answer, {})
    /\ UNCHANGED <<me, holder, asks, loading, server, shown, selected, detail,
                   primary, retried, post, acts>>

-----------------------------------------------------------------------------
(* What others do: agents and workers change the data, a session expires.  *)

DataChanges ==
  /\ acts < MaxActs
  /\ acts' = acts + 1
  /\ server' = server + 1
  /\ UNCHANGED <<me, holder, asks, loading, shown, selected, detail, primary,
                 pending, retried, post, faults>>

CookieExpires ==
  /\ holder # "nobody"
  /\ holder' = "nobody"
  /\ UNCHANGED <<me, asks, loading, server, shown, selected, detail, primary,
                 pending, retried, post, acts, faults>>

\* the page is put behind another, or brought back
VisibilityChanges ==
  /\ IF visible THEN acts < MaxActs /\ acts' = acts + 1 ELSE UNCHANGED acts
  /\ visible' = ~visible
  /\ UNCHANGED <<watched, me, holder, asks, loading, server, shown, selected,
                 detail, primary, pending, retried, post, faults>>

Arrival ==
  \/ SessionAnswered \/ PrimaryLands \/ DecksLand \/ PreviewsLand \/ ProfileLands
  \/ DetailLands \/ HydrationLands \/ SelectionLands \/ OrderLands \/ OrderRefused
  \/ RetryFires \/ PostRefresh
ConsoleStep ==
  \/ Arrival \/ Tick \/ Hydrate
  \/ SignIn \/ SignOut \/ Select \/ GiveOrder
  \/ SessionFails \/ DataChanges \/ CookieExpires
ConsoleNext ==
  \/ ConsoleStep /\ UNCHANGED <<watched, visible>>
  \/ VisibilityChanges

\* every request is answered or fails, every timer fires
ConsoleFairness ==
  /\ WF_consoleVars(Arrival /\ UNCHANGED <<watched, visible>>)
  /\ WF_consoleVars(Tick /\ UNCHANGED <<watched, visible>>)
ConsoleSpec == ConsoleInit /\ [][ConsoleNext]_consoleVars /\ ConsoleFairness

-----------------------------------------------------------------------------
(* Properties.                                                             *)

\* The page says it is loading only while a session check or a load is in
\* flight, whoever signs in and whatever fails or lands in between; and no
\* list is being asked for by two loads.  (Also the types of the page's state.)
LoadingExplained ==
  /\ me \in Who /\ holder \in Who /\ asks \in 0 .. 2
  /\ shown \in [Sections -> 0 .. server]
  /\ selected \in [Lanes -> 0 .. server - 1] /\ detail \in [Lanes -> 0 .. server - 1]
  /\ loading => asks > 0 \/ Busy
  /\ \A q, r \in pending :
       OfLoad(q) /\ OfLoad(r) /\ q.about = r.about /\ q.job # "detail" /\ r.job # "detail" => q = r

\* The sections only a load fills (coordination, decks) never go back to an
\* older state of the data, however the answers of overlapping loads are
\* ordered: an older load's answer is thrown away.  Signing out empties them.
SectionsNeverGoBack ==
  [][\A s \in {"coordination", "decks"} :
       shown'[s] >= shown[s] \/ (me # "nobody" /\ me' = "nobody")]_consoleVars

Working == me = "admin" /\ holder = "admin"
InView == Working /\ visible

\* A page that stays in view and signed in as an administrator shows the present
\* data in the end, although a reload asked for during a load is dropped: the
\* tick makes up for it.
ConsoleCatchesUp == <>[]InView => <>[](\A s \in WatchedSections : shown[s] = server)

\* In the end every lane of such a page shows the detail, or the summary, of the
\* run it has selected, although the selection and the detail are written by
\* handlers that do not wait for one another, and a choice that fails puts its
\* own summary over what was selected since.
DetailsMatchSelection == <>[]InView => <>[](\A l \in WatchedLanes : selected[l] = detail[l])
=============================================================================
