----------------------------- MODULE PagesProofs -----------------------------
(***************************************************************************)
(* Proofs about the two web pages: DashboardPage, for any number of        *)
(* accounts, events, orders and refreshes under way at once, and           *)
(* ConsoleLoads, for any number of acts, faults, changes of the data and   *)
(* requests in flight.  The two share neither state nor constants.         *)
(*                                                                         *)
(* The operators' page.  Refreshes carry no number, so nothing follows for *)
(* one that overlaps another.  The invariant says what follows for one     *)
(* that runs alone (AloneOK): it carries the cookie or nothing, what it    *)
(* has fetched is of the cookie's account and, while no order waits for an *)
(* answer that refreshes, lacks nothing but tokens issued since.  Of an    *)
(* order it says what the page promised at the click (OrderOK).            *)
(*                                                                         *)
(* The development console's page.  Its loads carry a number, and a load   *)
(* that begins drops the requests of the one before.  So at most one       *)
(* request asks for a list at a time (AskedOnce), and a section can only   *)
(* go back to what is older if the request falls back on what was shown    *)
(* when it was sent: the invariant says that this is no older than what is *)
(* shown now (PrimaryAhead, DecksAhead).  The mark `loading' is explained  *)
(* by the session check or the load it waits for.                          *)
(***************************************************************************)
EXTENDS DashboardPage, ConsoleLoads,
        SequenceTheorems, FiniteSetTheorems, WellFoundedInduction, TLAPS

Selections == [account : Someone, deployment : {0, 1}]
Kinds == {"login", "bootstrap", "logout", "token", "change", "save", "view", "decide", "account"}
Refreshes == [stage : {"health", "me", "profile", "lists"}, selection : Selections, cred : Nat,
              me : Someone, profile : Someone, since : Nat]
Orders == [kind : Kinds, stage : {"sent", "done"}, cred : Nat, who : Someone,
           selection : Selections, of : Someone, new : Nat, settled : BOOLEAN]
Pages == [status : {"loading", "signed_in", "signed_out"}, me : Someone, profile : Someone,
          suggestions : Someone, selected : Selections, issued : Someone, seen : Nat]
Forms == [login : Someone, bootstrap : Someone, account : Someone, notice : Someone]

StateOK ==
  /\ sessions \in Seq(Accounts)
  /\ cookie \in 0 .. Len(sessions)
  /\ clock \in Nat
  /\ page \in Pages
  /\ draft \in Someone
  /\ editing \in BOOLEAN
  /\ shaken \in BOOLEAN
  /\ late \in BOOLEAN
  /\ leftover \in Forms

\* What a refresh has fetched is somebody's.
RefreshOK(r) ==
  /\ r \in Refreshes /\ r.cred <= Len(sessions)
  /\ r.stage \in {"profile", "lists"} => r.me # Nobody
  /\ r.stage = "lists" => r.selection.account # Nobody

\* An order's credential is that of the account the page showed, if the
\* click found it settled; a decision names the account it is about.
OrderOK(o) ==
  /\ o \in Orders /\ o.cred <= Len(sessions)
  /\ SignsIn(o.kind) => o.of \in Accounts
  /\ o.stage = "done" /\ SignsIn(o.kind) => o.new \in 1 .. Len(sessions)
  /\ o.stage = "done" /\ TakesNotice(o.kind) => o.cred # 0
  /\ o.settled /\ TakesNotice(o.kind) /\ o.cred # 0 => sessions[o.cred] = o.who
  /\ o.settled /\ o.kind = "save" /\ o.cred # 0 => sessions[o.cred] = o.of
  /\ o.kind = "decide" => o.selection.account # Nobody
  /\ o.kind = "decide" /\ o.stage = "done" => o.of = o.selection.account

UnderWay ==
  /\ refreshes \in Seq({r \in Refreshes : RefreshOK(r)})
  /\ orders \in Seq({o \in Orders : OrderOK(o)})

ShownOK ==
  /\ ShownSignedIn <=> page.me # Nobody
  /\ ShownSignedIn => page.selected.account # Nobody
  /\ ~ShownSignedIn =>
       /\ page.profile = Nobody /\ page.suggestions = Nobody
       /\ page.selected = NoSelection /\ page.seen = 0
       /\ page.issued # Nobody => late
       /\ draft = Nobody /\ ~editing

\* An order is done, and the refresh behind it is still to come.
Unseen == \E i \in DOMAIN orders :
            /\ orders[i].stage = "done"
            /\ TakesNotice(orders[i].kind) /\ ~StartsNoRefresh(orders[i].kind)

\* All that was done later than this are tokens issued.
Lacks(tick) == (tick + 1) .. clock \subseteq issues

AloneOK ==
  ~shaken =>
    /\ Len(refreshes) <= 1
    /\ \A k \in DOMAIN refreshes : LET r == refreshes[k] IN
         /\ r.cred \in {0, cookie}
         /\ r.stage \in {"profile", "lists"} => r.me = AccountOf(cookie)
         /\ r.stage = "lists" => r.profile = AccountOf(cookie)
         /\ r.stage # "health" /\ ~Unseen => Lacks(r.since)
    /\ refreshes = <<>> /\ ShownSignedIn =>
         /\ page.me = AccountOf(cookie) /\ page.profile = page.me /\ draft = page.me
         /\ ~Unseen => Lacks(page.seen)

PageInv == StateOK /\ UnderWay /\ ShownOK /\ AloneOK

-----------------------------------------------------------------------------
(* The operators' page: updates of the records                             *)

(* A refresh that asks for the next thing.                                 *)
LEMMA Asked ==
  ASSUME NEW r \in Refreshes, NEW stage, NEW cred
  PROVE  [r EXCEPT !.stage = stage, !.cred = cred]
           = [stage |-> stage, selection |-> r.selection, cred |-> cred, me |-> r.me, profile
              |-> r.profile, since |-> r.since]
<1> DEFINE Stages == {"health", "me", "profile", "lists"}
<1>0. r \in [stage : Stages, selection : Selections, cred : Nat, me : Someone, profile :
             Someone, since : Nat]
  BY DEF Refreshes
<1> HIDE DEF Stages
<1>1. PICK x1 : x1 = [r EXCEPT !.stage = stage]
  OBVIOUS
<1>2. x1 = [stage |-> stage, selection |-> r.selection, cred |-> r.cred, me |-> r.me, profile
            |-> r.profile, since |-> r.since]
  BY <1>0, <1>1
<1>3. x1 \in [stage : {stage}, selection : Selections, cred : Nat, me : Someone, profile :
              Someone, since : Nat]
  BY <1>0, <1>2
<1>4. [x1 EXCEPT !.cred = cred]
       = [stage |-> x1.stage, selection |-> x1.selection,
                                          cred |-> cred, me |-> x1.me, profile |->
                                          x1.profile, since |-> x1.since]
  BY <1>3
<1>5. [r EXCEPT !.stage = stage, !.cred = cred] = [x1 EXCEPT !.cred = cred]
  BY <1>1
<1> QED BY <1>2, <1>4, <1>5

(* A refresh that has its profile and picks the account of the lists.      *)
LEMMA Profiled ==
  ASSUME NEW r \in Refreshes, NEW profile, NEW account
  PROVE  [r EXCEPT !.profile = profile, !.selection.account = account]
           = [stage |-> r.stage, selection |-> [r.selection EXCEPT !.account = account], cred
              |-> r.cred, me |-> r.me, profile |-> profile, since |-> r.since]
<1> DEFINE Stages == {"health", "me", "profile", "lists"}
<1>0. r \in [stage : Stages, selection : Selections, cred : Nat, me : Someone, profile :
             Someone, since : Nat]
  BY DEF Refreshes
<1> HIDE DEF Stages
<1>1. PICK x1 : x1 = [r EXCEPT !.profile = profile]
  OBVIOUS
<1>2. x1 = [stage |-> r.stage, selection |-> r.selection, cred |-> r.cred, me |-> r.me,
            profile |-> profile, since |-> r.since]
  BY <1>0, <1>1
<1>3. x1 \in [stage : Stages, selection : Selections, cred : Nat, me : Someone, profile :
              {profile}, since : Nat]
  BY <1>0, <1>2
<1>4. [x1 EXCEPT !.selection.account = account]
       = [stage |-> x1.stage, selection |-> [x1.selection EXCEPT !.account = account],
          cred |-> x1.cred, me |-> x1.me, profile |-> x1.profile, since |-> x1.since]
  BY <1>3
<1>5. [r EXCEPT !.profile = profile, !.selection.account = account] = [x1 EXCEPT !.selection.account = account]
  BY <1>1
<1> QED BY <1>2, <1>4, <1>5

(* An order that is done.                                                  *)
LEMMA OrderDone ==
  ASSUME NEW r \in Orders, NEW stage, NEW new
  PROVE  [r EXCEPT !.stage = stage, !.new = new]
           = [kind |-> r.kind, stage |-> stage, cred |-> r.cred, who |-> r.who, selection |->
              r.selection, of |-> r.of, new |-> new, settled |-> r.settled]
<1> DEFINE Stages == {"sent", "done"}
<1>0. r \in [kind : Kinds, stage : Stages, cred : Nat, who : Someone, selection : Selections,
             of : Someone, new : Nat, settled : BOOLEAN]
  BY DEF Orders
<1> HIDE DEF Stages
<1>1. PICK x1 : x1 = [r EXCEPT !.stage = stage]
  OBVIOUS
<1>2. x1 = [kind |-> r.kind, stage |-> stage, cred |-> r.cred, who |-> r.who, selection |->
            r.selection, of |-> r.of, new |-> r.new, settled |-> r.settled]
  BY <1>0, <1>1
<1>3. x1 \in [kind : Kinds, stage : {stage}, cred : Nat, who : Someone, selection :
              Selections, of : Someone, new : Nat, settled : BOOLEAN]
  BY <1>0, <1>2
<1>4. [x1 EXCEPT !.new = new]
       = [kind |-> x1.kind, stage |-> x1.stage, cred |->
                                        x1.cred, who |-> x1.who, selection |-> x1.selection,
                                        of |-> x1.of, new |-> new, settled |-> x1.settled]
  BY <1>3
<1>5. [r EXCEPT !.stage = stage, !.new = new] = [x1 EXCEPT !.new = new]
  BY <1>1
<1> QED BY <1>2, <1>4, <1>5

(* A page that shows what a refresh has fetched.                           *)
LEMMA PageShown ==
  ASSUME NEW r \in Pages, NEW q, NEW seen
  PROVE  [r EXCEPT !.status = "signed_in", !.me = q.me, !.profile = q.profile, !.suggestions = q.selection.account, !.selected = q.selection, !.seen = seen]
           = [status |-> "signed_in", me |-> q.me, profile |-> q.profile, suggestions |->
              q.selection.account, selected |-> q.selection, issued |-> r.issued, seen |->
              seen]
<1> DEFINE Statuses == {"loading", "signed_in", "signed_out"}
<1>0. r \in [status : Statuses, me : Someone, profile : Someone, suggestions : Someone,
             selected : Selections, issued : Someone, seen : Nat]
  BY DEF Pages
<1> HIDE DEF Statuses
<1>1. PICK x1 : x1 = [r EXCEPT !.status = "signed_in"]
  OBVIOUS
<1>2. x1 = [status |-> "signed_in", me |-> r.me, profile |-> r.profile, suggestions |->
            r.suggestions, selected |-> r.selected, issued |-> r.issued, seen |-> r.seen]
  BY <1>0, <1>1
<1>3. x1 \in [status : {"signed_in"}, me : Someone, profile : Someone, suggestions : Someone,
              selected : Selections, issued : Someone, seen : Nat]
  BY <1>0, <1>2
<1>4. PICK x2 : x2 = [x1 EXCEPT !.me = q.me]
  OBVIOUS
<1>5. x2 = [status |-> x1.status, me |-> q.me, profile |-> x1.profile, suggestions |->
            x1.suggestions, selected |-> x1.selected, issued |-> x1.issued, seen |-> x1.seen]
  BY <1>3, <1>4
<1>6. x2 \in [status : {"signed_in"}, me : {q.me}, profile : Someone, suggestions : Someone,
              selected : Selections, issued : Someone, seen : Nat]
  BY <1>3, <1>5
<1>7. PICK x3 : x3 = [x2 EXCEPT !.profile = q.profile]
  OBVIOUS
<1>8. x3 = [status |-> x2.status, me |-> x2.me, profile |-> q.profile, suggestions |->
            x2.suggestions, selected |-> x2.selected, issued |-> x2.issued, seen |-> x2.seen]
  BY <1>6, <1>7
<1>9. x3 \in [status : {"signed_in"}, me : {q.me}, profile : {q.profile}, suggestions :
              Someone, selected : Selections, issued : Someone, seen : Nat]
  BY <1>6, <1>8
<1>10. PICK x4 : x4 = [x3 EXCEPT !.suggestions = q.selection.account]
  OBVIOUS
<1>11. x4 = [status |-> x3.status, me |-> x3.me, profile |-> x3.profile, suggestions |->
             q.selection.account, selected |-> x3.selected, issued |-> x3.issued, seen |->
             x3.seen]
  BY <1>9, <1>10
<1>12. x4 \in [status : {"signed_in"}, me : {q.me}, profile : {q.profile}, suggestions :
               {q.selection.account}, selected : Selections, issued : Someone, seen : Nat]
  BY <1>9, <1>11
<1>13. PICK x5 : x5 = [x4 EXCEPT !.selected = q.selection]
  OBVIOUS
<1>14. x5 = [status |-> x4.status, me |-> x4.me, profile |-> x4.profile, suggestions |->
             x4.suggestions, selected |-> q.selection, issued |-> x4.issued, seen |-> x4.seen]
  BY <1>12, <1>13
<1>15. x5 \in [status : {"signed_in"}, me : {q.me}, profile : {q.profile}, suggestions :
               {q.selection.account}, selected : {q.selection}, issued : Someone, seen : Nat]
  BY <1>12, <1>14
<1>16. [x5 EXCEPT !.seen = seen]
       = [status |-> x5.status, me |-> x5.me, profile |->
                                           x5.profile, suggestions |-> x5.suggestions,
                                           selected |-> x5.selected, issued |-> x5.issued,
                                           seen |-> seen]
  BY <1>15
<1>17. [r EXCEPT !.status = "signed_in", !.me = q.me, !.profile = q.profile, !.suggestions = q.selection.account, !.selected = q.selection, !.seen = seen] = [x5 EXCEPT !.seen = seen]
  BY <1>1, <1>4, <1>7, <1>10, <1>13
<1> QED BY <1>2, <1>5, <1>8, <1>11, <1>14, <1>16, <1>17

-----------------------------------------------------------------------------
(* Sequences of what is under way *)

(* What is left when one element is taken out.                             *)
LEMMA Removed ==
  ASSUME NEW S, NEW s \in Seq(S), NEW i \in DOMAIN s
  PROVE  /\ RemoveAt(s, i) \in Seq(S) /\ Len(RemoveAt(s, i)) = Len(s) - 1
         /\ \A j \in DOMAIN RemoveAt(s, i) : \E k \in DOMAIN s : RemoveAt(s, i)[j] = s[k]
         /\ \A k \in DOMAIN s : k # i => \E j \in DOMAIN RemoveAt(s, i) : RemoveAt(s, i)[j] = s[k]
<1> DEFINE left == SubSeq(s, 1, i - 1)
           right == SubSeq(s, i + 1, Len(s))
           rest == RemoveAt(s, i)
<1>1. /\ Len(s) \in Nat /\ i \in 1 .. Len(s) /\ DOMAIN s = 1 .. Len(s)
  OBVIOUS
<1>2. /\ left \in Seq(S) /\ Len(left) = i - 1
      /\ \A j \in 1 .. (i - 1) : left[j] = s[j]
  BY <1>1
<1>3. /\ right \in Seq(S) /\ Len(right) = Len(s) - i
      /\ \A j \in 1 .. (Len(s) - i) : right[j] = s[j + i]
  BY <1>1
<1>4. rest = left \o right
  BY DEF RemoveAt
<1> HIDE DEF left, right, rest
<1>5. /\ rest \in Seq(S) /\ Len(rest) = Len(s) - 1 /\ DOMAIN rest = 1 .. (Len(s) - 1)
      /\ \A j \in 1 .. (Len(s) - 1) : rest[j] = IF j <= i - 1 THEN left[j] ELSE right[j - (i - 1)]
  <2>1. \A a, b \in Seq(S) :
          /\ a \o b \in Seq(S) /\ Len(a \o b) = Len(a) + Len(b)
          /\ \A j \in 1 .. (Len(a) + Len(b)) : (a \o b)[j] = IF j <= Len(a) THEN a[j] ELSE b[j - Len(a)]
    OBVIOUS
  <2>2. (i - 1) + (Len(s) - i) = Len(s) - 1 /\ Len(s) - 1 \in Nat
    BY <1>1
  <2>3. /\ left \o right \in Seq(S) /\ Len(left \o right) = Len(left) + Len(right)
        /\ \A j \in 1 .. (Len(left) + Len(right)) :
             (left \o right)[j] = IF j <= Len(left) THEN left[j] ELSE right[j - Len(left)]
    BY <1>2, <1>3, <2>1, Zenon
  <2>4. /\ rest \in Seq(S) /\ Len(rest) = Len(s) - 1
        /\ \A j \in 1 .. (Len(s) - 1) : rest[j] = IF j <= i - 1 THEN left[j] ELSE right[j - (i - 1)]
    <3>1. Len(left) = i - 1 /\ Len(right) = Len(s) - i
      BY <1>2, <1>3
    <3>2. Len(left) + Len(right) = Len(s) - 1
      BY <2>2, <3>1
    <3> QED BY <1>4, <2>3, <3>1, <3>2, Zenon
  <2>5. DOMAIN rest = 1 .. Len(rest)
    BY <2>4
  <2> QED BY <2>4, <2>5
<1>6. \A j \in 1 .. (Len(s) - 1) : rest[j] = IF j <= i - 1 THEN s[j] ELSE s[j + 1]
  <2> SUFFICES ASSUME NEW j \in 1 .. (Len(s) - 1)
               PROVE  rest[j] = IF j <= i - 1 THEN s[j] ELSE s[j + 1]
    OBVIOUS
  <2>1. CASE j <= i - 1
    BY <1>1, <1>2, <1>5, <2>1
  <2>2. CASE j > i - 1
    <3>1. PICK m \in Int : m = j - (i - 1)
      BY <1>1
    <3>2. m \in 1 .. (Len(s) - i) /\ m + i = j + 1 /\ ~(j <= i - 1)
      BY <1>1, <2>2, <3>1
    <3>3. rest[j] = right[m]
      BY <1>5, <3>1, <3>2
    <3> QED BY <1>3, <3>2, <3>3
  <2> QED BY <1>1, <2>1, <2>2
<1>7. \A j \in 1 .. (Len(s) - 1) : \E k \in 1 .. Len(s) : rest[j] = s[k]
  BY <1>1, <1>6
<1>8. \A k \in 1 .. Len(s) : k # i => \E j \in 1 .. (Len(s) - 1) : rest[j] = s[k]
  <2> SUFFICES ASSUME NEW k \in 1 .. Len(s), k # i PROVE \E j \in 1 .. (Len(s) - 1) : rest[j] = s[k]
    OBVIOUS
  <2>1. CASE k < i
    BY <1>1, <1>6, <2>1
  <2>2. CASE k > i
    <3>1. k - 1 \in 1 .. (Len(s) - 1) /\ rest[k - 1] = s[k]
      BY <1>1, <1>6, <2>2
    <3> QED BY <3>1
  <2> QED BY <1>1, <2>1, <2>2
<1> QED BY <1>1, <1>5, <1>7, <1>8 DEF rest

-----------------------------------------------------------------------------
(* What is under way, while sessions are only added. *)

RefreshesOK == {r \in Refreshes : RefreshOK(r)}
OrdersOK == {o \in Orders : OrderOK(o)}

\* No session is forgotten or changes hands.
SessionsStay ==
  /\ sessions' \in Seq(Accounts) /\ Len(sessions) <= Len(sessions')
  /\ \A s \in 1 .. Len(sessions) : sessions'[s] = sessions[s]

(* Then what holds of a refresh or an order goes on to hold.               *)
LEMMA StaysOK ==
  ASSUME sessions \in Seq(Accounts), SessionsStay
  PROVE  /\ RefreshesOK \subseteq RefreshesOK' /\ OrdersOK \subseteq OrdersOK'
         /\ Seq(RefreshesOK) \subseteq Seq(RefreshesOK') /\ Seq(OrdersOK) \subseteq Seq(OrdersOK')
<1>1. Len(sessions) \in Nat /\ Len(sessions') \in Nat
  BY DEF SessionsStay
<1>2. \A r \in Refreshes : RefreshOK(r) => RefreshOK(r)'
  BY <1>1 DEF RefreshOK, Refreshes, SessionsStay
<1>3. \A o \in Orders : OrderOK(o) => OrderOK(o)'
  <2> SUFFICES ASSUME NEW o \in Orders, OrderOK(o) PROVE OrderOK(o)'
    OBVIOUS
  <2>1. o.cred \in Nat /\ o.new \in Nat
    BY DEF Orders
  <2>2. o.cred # 0 => o.cred \in 1 .. Len(sessions)
    BY <1>1, <2>1 DEF OrderOK
  <2>3. o.cred # 0 => sessions'[o.cred] = sessions[o.cred]
    BY <2>2 DEF SessionsStay
  <2>4. o.cred <= Len(sessions')
    BY <1>1, <2>1 DEF OrderOK, SessionsStay
  <2>5. o.new \in 1 .. Len(sessions) => o.new \in 1 .. Len(sessions')
    BY <1>1, <2>1 DEF SessionsStay
  <2> QED BY <2>3, <2>4, <2>5 DEF OrderOK
<1>4. RefreshesOK \subseteq RefreshesOK' /\ OrdersOK \subseteq OrdersOK'
  BY <1>2, <1>3 DEF RefreshesOK, OrdersOK
<1>5. \A A, B : A \subseteq B => Seq(A) \subseteq Seq(B)
  OBVIOUS
<1> QED BY <1>4, <1>5

(* The case of the steps that open no session.                             *)
LEMMA SessionsSame ==
  ASSUME sessions \in Seq(Accounts), UNCHANGED sessions
  PROVE  SessionsStay
<1>1. Len(sessions) \in Nat
  OBVIOUS
<1> QED BY <1>1 DEF SessionsStay

(* A refresh that is started overlaps the others, or runs alone and has    *)
(* asked for nothing yet.                                                  *)
LEMMA Started ==
  ASSUME refreshes \in Seq(RefreshesOK), sessions \in Seq(Accounts), cookie' \in Nat,
         NEW selection \in Selections, StartRefresh(selection)
  PROVE  refreshes' \in Seq(RefreshesOK) /\ AloneOK' /\ shaken' \in BOOLEAN
<1> DEFINE new == Refresh(selection)
<1>1. Len(sessions) \in Nat
  OBVIOUS
<1>2. new \in Refreshes /\ new.stage = "health" /\ new.cred = 0
  BY DEF Refresh, Refreshes, Someone
<1>3. new \in RefreshesOK
  BY <1>1, <1>2 DEF RefreshesOK, RefreshOK
<1>4. refreshes' = Append(refreshes, new) /\ shaken' = (refreshes # <<>>)
  BY DEF StartRefresh
<1> HIDE DEF new
<1>5. refreshes' \in Seq(RefreshesOK) /\ shaken' \in BOOLEAN
  BY <1>3, <1>4
<1>6. ~shaken' => Len(refreshes') = 1 /\ DOMAIN refreshes' = {1} /\ refreshes'[1] = new
  <2> SUFFICES ASSUME ~shaken' PROVE Len(refreshes') = 1 /\ DOMAIN refreshes' = {1} /\ refreshes'[1] = new
    OBVIOUS
  <2>1. refreshes = <<>>
    BY <1>4
  <2>2. Len(refreshes) = 0
    BY <2>1
  <2> QED BY <1>3, <1>4, <2>2
<1>7. AloneOK'
  <2> SUFFICES ASSUME ~shaken' PROVE AloneOK'
    BY DEF AloneOK
  <2>1. Len(refreshes') = 1 /\ DOMAIN refreshes' = {1} /\ refreshes'[1] = new
    BY <1>6
  <2>2. refreshes' # <<>>
    <3>1. Len(<<>>) = 0 /\ 0 # 1
      OBVIOUS
    <3> QED BY <2>1, <3>1, Zenon
  <2>3. \A k \in DOMAIN refreshes' : refreshes'[k] = new
    BY <2>1
  <2>4. new.cred = 0 /\ new.stage = "health"
    BY <1>2
  <2> QED BY <2>1, <2>2, <2>3, <2>4 DEF AloneOK
<1> QED BY <1>5, <1>7

-----------------------------------------------------------------------------
(* The steps of a refresh *)

(* A refresh that has an answer and asks for the next thing.               *)
LEMMA AsksKeeps ==
  ASSUME PageInv, NEW k \in DOMAIN refreshes, NEW new \in RefreshesOK,
         refreshes' = [refreshes EXCEPT ![k] = new],
         UNCHANGED <<sessions, cookie, clock, page, draft, editing, orders, shaken, beside>>,
         ~shaken =>
           /\ new.cred \in {0, cookie}
           /\ new.stage \in {"profile", "lists"} => new.me = AccountOf(cookie)
           /\ new.stage = "lists" => new.profile = AccountOf(cookie)
           /\ ~Unseen => Lacks(new.since)
  PROVE  PageInv'
<1>1. /\ StateOK /\ ShownOK /\ AloneOK /\ sessions \in Seq(Accounts)
      /\ refreshes \in Seq(RefreshesOK) /\ orders \in Seq(OrdersOK)
  BY DEF PageInv, StateOK, UnderWay, RefreshesOK, OrdersOK
<1>2. /\ refreshes' \in Seq(RefreshesOK) /\ Len(refreshes') = Len(refreshes)
      /\ DOMAIN refreshes' = DOMAIN refreshes
      /\ \A j \in DOMAIN refreshes : refreshes'[j] = IF j = k THEN new ELSE refreshes[j]
  BY <1>1
<1>3. refreshes' \in Seq(RefreshesOK') /\ orders' \in Seq(OrdersOK')
  <2>1. Seq(RefreshesOK) \subseteq Seq(RefreshesOK') /\ Seq(OrdersOK) \subseteq Seq(OrdersOK')
    BY <1>1, SessionsSame, StaysOK
  <2> QED BY <1>1, <1>2, <2>1
<1>4. StateOK' /\ ShownOK'
  BY <1>1 DEF StateOK, ShownOK, ShownSignedIn, beside
<1>5. AloneOK'
  <2> SUFFICES ASSUME ~shaken PROVE AloneOK'
    BY DEF AloneOK
  <2>1. Len(refreshes) <= 1 /\ DOMAIN refreshes = {1} /\ k = 1
    <3>1. DOMAIN refreshes = 1 .. Len(refreshes) /\ Len(refreshes) \in Nat
      BY <1>1
    <3> QED BY <1>1, <3>1 DEF AloneOK
  <2>2. refreshes'[1] = new /\ DOMAIN refreshes' = {1} /\ Len(refreshes') <= 1
    BY <1>2, <2>1
  <2>3. refreshes' # <<>>
    BY <2>2
  <2>4. /\ AccountOf(cookie)' = AccountOf(cookie) /\ (Unseen' <=> Unseen)
        /\ cookie' = cookie /\ clock' = clock
    BY DEF AccountOf, Unseen
  <2>5. \A j \in DOMAIN refreshes' : refreshes'[j] = new
    BY <2>2
  <2>6. \A tick : Lacks(tick)' <=> Lacks(tick)
    BY DEF Lacks, beside
  <2> QED BY <2>2, <2>3, <2>4, <2>5, <2>6 DEF AloneOK
<1> QED BY <1>3, <1>4, <1>5 DEF PageInv, UnderWay, RefreshesOK, OrdersOK

(* The credential of a request is the cookie or nothing.                   *)
LEMMA CredentialOK ==
  ASSUME StateOK
  PROVE  /\ Credential \in Nat /\ Credential <= Len(sessions) /\ Credential \in {0, cookie}
         /\ AccountOf(cookie) \in Someone
         /\ \A s \in 1 .. Len(sessions) : AccountOf(s) \in Accounts /\ AccountOf(s) # Nobody
<1>1. Len(sessions) \in Nat /\ cookie \in 0 .. Len(sessions)
  BY DEF StateOK
<1>2. \A s \in 1 .. Len(sessions) : sessions[s] \in Accounts
  BY DEF StateOK
<1>3. \A s \in 1 .. Len(sessions) : AccountOf(s) = sessions[s]
  BY <1>1 DEF AccountOf
<1>4. AccountOf(cookie) \in Someone
  BY <1>1, <1>2 DEF AccountOf, Someone
<1> QED BY <1>1, <1>2, <1>3, <1>4, DashboardAssumption DEF Credential

(* The stages that ask for the next thing.                                 *)
LEMMA AskingKeeps ==
  ASSUME PageInv, NEW k \in DOMAIN refreshes, HealthAnswered(k) \/ MeAnswered(k) \/ ProfileAnswered(k)
  PROVE  PageInv'
<1> DEFINE r == refreshes[k]
<1>1. /\ StateOK /\ AloneOK /\ refreshes \in Seq(RefreshesOK) /\ r \in RefreshesOK
      /\ Len(sessions) \in Nat /\ clock \in Nat
  BY DEF PageInv, StateOK, UnderWay, RefreshesOK
<1>2. r \in Refreshes /\ RefreshOK(r) /\ r.cred \in Nat /\ r.cred <= Len(sessions)
  BY <1>1 DEF RefreshesOK, RefreshOK, Refreshes
<1>3. /\ Credential \in Nat /\ Credential <= Len(sessions) /\ Credential \in {0, cookie}
      /\ \A s \in 1 .. Len(sessions) : AccountOf(s) \in Accounts /\ AccountOf(s) # Nobody
      /\ Accounts \subseteq Someone /\ Nobody \in Someone
  BY <1>1, CredentialOK DEF Someone
<1>4. ~shaken =>
        /\ r.cred \in {0, cookie}
        /\ r.stage \in {"profile", "lists"} => r.me = AccountOf(cookie)
        /\ r.stage # "health" /\ ~Unseen => Lacks(r.since)
  BY <1>1 DEF AloneOK
<1>5. ASSUME NEW q \in Refreshes, NEW stage, Asks(k, stage, q)
      PROVE  refreshes' = [refreshes EXCEPT ![k] =
               [stage |-> stage, selection |-> q.selection, cred |-> Credential, me |-> q.me,
                profile |-> q.profile, since |-> q.since]]
  <2>1. \A c : [q EXCEPT !.stage = stage, !.cred = c]
                 = [stage |-> stage, selection |-> q.selection, cred |-> c, me |-> q.me,
                    profile |-> q.profile, since |-> q.since]
    BY Asked, Zenon
  <2> QED BY <1>5, <2>1 DEF Asks
<1>6. CASE HealthAnswered(k)
  <2> DEFINE new == [stage |-> "me", selection |-> r.selection, cred |-> Credential, me |-> r.me,
                     profile |-> r.profile, since |-> clock]
  <2>1. PICK q : q = [r EXCEPT !.since = clock]
    OBVIOUS
  <2>2. q = [stage |-> r.stage, selection |-> r.selection, cred |-> r.cred, me |-> r.me,
             profile |-> r.profile, since |-> clock]
    BY <1>2, <2>1 DEF Refreshes
  <2>3. q \in Refreshes
    BY <1>1, <1>2, <2>2 DEF Refreshes
  <2>4. refreshes' = [refreshes EXCEPT ![k] = new]
    <3>1. Asks(k, "me", q)
      BY <1>6, <2>1 DEF HealthAnswered
    <3>2. q.selection = r.selection /\ q.me = r.me /\ q.profile = r.profile /\ q.since = clock
      BY <2>2
    <3> QED BY <1>5, <2>3, <3>1, <3>2
  <2>5. new \in Refreshes
    BY <1>1, <1>2, <1>3 DEF Refreshes
  <2>6. new \in RefreshesOK
    BY <1>3, <2>5 DEF RefreshesOK, RefreshOK
  <2>7. new.stage = "me" /\ new.cred = Credential /\ new.since = clock
    OBVIOUS
  <2>8. UNCHANGED <<sessions, cookie, clock, page, draft, editing, orders, shaken, beside>>
    BY <1>6 DEF HealthAnswered
  <2>9. Lacks(clock)
    BY <1>1 DEF Lacks
  <2> HIDE DEF new
  <2> QED BY <1>3, <2>4, <2>6, <2>7, <2>8, <2>9, AsksKeeps
<1>7. CASE MeAnswered(k)
  <2> DEFINE owner == AccountOf(r.cred)
             new == [stage |-> "profile", selection |-> r.selection, cred |-> Credential, me |-> owner,
                     profile |-> r.profile, since |-> r.since]
  <2>1. r.cred # 0 /\ Asks(k, "profile", [r EXCEPT !.me = owner])
    BY <1>7 DEF MeAnswered, Accepted
  <2>2. owner \in Someone /\ owner # Nobody
    BY <1>2, <1>3, <2>1
  <2>3. ~shaken => owner = AccountOf(cookie)
    BY <1>4, <2>1
  <2> HIDE DEF owner
  <2>4. PICK q : q = [r EXCEPT !.me = owner]
    OBVIOUS
  <2>5. q = [stage |-> r.stage, selection |-> r.selection, cred |-> r.cred, me |-> owner,
             profile |-> r.profile, since |-> r.since]
    BY <1>2, <2>4 DEF Refreshes
  <2>6. q \in Refreshes
    BY <1>2, <2>2, <2>5 DEF Refreshes
  <2>7. refreshes' = [refreshes EXCEPT ![k] = new]
    <3>1. Asks(k, "profile", q)
      BY <2>1, <2>4
    <3>2. q.selection = r.selection /\ q.me = owner /\ q.profile = r.profile /\ q.since = r.since
      BY <2>5
    <3> QED BY <1>5, <2>6, <3>1, <3>2
  <2>8. new \in Refreshes
    BY <1>2, <1>3, <2>2 DEF Refreshes
  <2>9. new \in RefreshesOK
    BY <1>3, <2>2, <2>8 DEF RefreshesOK, RefreshOK
  <2>10. /\ new.stage = "profile" /\ new.cred = Credential /\ new.me = owner
         /\ new.since = r.since
    OBVIOUS
  <2>11. UNCHANGED <<sessions, cookie, clock, page, draft, editing, orders, shaken, beside>>
    BY <1>7 DEF MeAnswered
  <2>12. r.stage # "health"
    BY <1>7 DEF MeAnswered, Stage
  <2> HIDE DEF new
  <2> QED BY <1>3, <1>4, <2>3, <2>7, <2>9, <2>10, <2>11, <2>12, AsksKeeps
<1>8. CASE ProfileAnswered(k)
  <2> DEFINE profile == AccountOf(r.cred)
             account == pickSuggestionAccountId(r.me, r.selection.account)
             selection == [r.selection EXCEPT !.account = account]
             new == [stage |-> "lists", selection |-> selection, cred |-> Credential, me |-> r.me,
                     profile |-> profile, since |-> r.since]
  <2>1. /\ r.stage = "profile" /\ r.cred # 0
        /\ Asks(k, "lists", [r EXCEPT !.profile = profile, !.selection.account = account])
    BY <1>8 DEF ProfileAnswered, Accepted, Stage
  <2>2. profile \in Someone /\ r.me \in Someone /\ r.me # Nobody
    BY <1>2, <1>3, <2>1 DEF RefreshOK, Refreshes
  <2>3. ~shaken => profile = AccountOf(cookie) /\ r.me = AccountOf(cookie)
    BY <1>4, <2>1
  <2>4. r.selection \in Selections
    BY <1>2 DEF Refreshes
  <2>5. account \in Someone /\ account # Nobody
    BY <2>2, <2>4 DEF pickSuggestionAccountId, Selections
  <2> HIDE DEF profile, account
  <2>6. selection \in Selections /\ selection.account = account
    BY <2>4, <2>5 DEF Selections
  <2>7. PICK q : q = [r EXCEPT !.profile = profile, !.selection.account = account]
    OBVIOUS
  <2>8. q = [stage |-> r.stage, selection |-> selection, cred |-> r.cred, me |-> r.me,
             profile |-> profile, since |-> r.since]
    <3>1. \A a : [r EXCEPT !.profile = profile, !.selection.account = a]
                  = [stage |-> r.stage, selection |-> [r.selection EXCEPT !.account = a],
                     cred |-> r.cred, me |-> r.me, profile |-> profile, since |-> r.since]
      BY <1>2, Profiled, Zenon
    <3>2. [r EXCEPT !.profile = profile, !.selection.account = account]
            = [stage |-> r.stage, selection |-> [r.selection EXCEPT !.account = account],
               cred |-> r.cred, me |-> r.me, profile |-> profile, since |-> r.since]
      BY <3>1, Zenon
    <3> QED BY <2>7, <3>2, Zenon
  <2> HIDE DEF selection
  <2>9. q \in Refreshes
    BY <1>1, <1>2, <2>2, <2>6, <2>8 DEF Refreshes
  <2>10. q.selection = selection /\ q.me = r.me /\ q.profile = profile /\ q.since = r.since
    BY <2>8
  <2>11. refreshes' = [refreshes EXCEPT ![k] = new]
    <3>1. Asks(k, "lists", q)
      BY <2>1, <2>7, Zenon
    <3>2. refreshes' = [refreshes EXCEPT ![k] =
            [stage |-> "lists", selection |-> q.selection, cred |-> Credential, me |-> q.me,
             profile |-> q.profile, since |-> q.since]]
      BY <1>5, <2>9, <3>1, Zenon
    <3> QED BY <2>10, <3>2
  <2>12. new \in Refreshes
    BY <1>1, <1>2, <1>3, <2>2, <2>6 DEF Refreshes
  <2>13. new \in RefreshesOK
    BY <1>3, <2>2, <2>5, <2>6, <2>12 DEF RefreshesOK, RefreshOK
  <2>14. /\ new.stage = "lists" /\ new.cred = Credential /\ new.me = r.me
         /\ new.profile = profile /\ new.since = r.since
    OBVIOUS
  <2>15. UNCHANGED <<sessions, cookie, clock, page, draft, editing, orders, shaken, beside>>
    BY <1>8 DEF ProfileAnswered
  <2> HIDE DEF new
  <2> QED BY <1>3, <1>4, <2>1, <2>3, <2>11, <2>13, <2>14, <2>15, AsksKeeps
<1> QED BY <1>6, <1>7, <1>8

(* A refresh that ends: it was the only one, unless the page is shaken.    *)
LEMMA Ended ==
  ASSUME PageInv, NEW k \in DOMAIN refreshes, Ends(k)
  PROVE  /\ refreshes' \in Seq(RefreshesOK)
         /\ ~shaken => Len(refreshes') = 0 /\ DOMAIN refreshes' = {}
<1>1. refreshes \in Seq(RefreshesOK) /\ AloneOK
  BY DEF PageInv, UnderWay, RefreshesOK
<1>2. refreshes' \in Seq(RefreshesOK) /\ Len(refreshes') = Len(refreshes) - 1
  BY <1>1, Removed DEF Ends
<1>3. k \in 1 .. Len(refreshes) /\ Len(refreshes) \in Nat /\ DOMAIN refreshes' = 1 .. Len(refreshes')
  BY <1>1, <1>2
<1>4. ~shaken => Len(refreshes) <= 1
  BY <1>1 DEF AloneOK
<1> QED BY <1>2, <1>3, <1>4

(* The answer that ends a refresh fills the page.                          *)
LEMMA ListsKeep ==
  ASSUME PageInv, NEW k \in DOMAIN refreshes, ListsAnswered(k)
  PROVE  PageInv'
<1> DEFINE r == refreshes[k]
<1>1. /\ StateOK /\ AloneOK /\ refreshes \in Seq(RefreshesOK) /\ orders \in Seq(OrdersOK)
      /\ sessions \in Seq(Accounts) /\ clock \in Nat /\ page \in Pages
  BY DEF PageInv, StateOK, UnderWay, RefreshesOK, OrdersOK
<1>2. r \in Refreshes /\ RefreshOK(r) /\ r.stage = "lists"
  BY <1>1 DEF RefreshesOK, ListsAnswered, Stage
<1>3. /\ r.me \in Someone /\ r.profile \in Someone /\ r.selection \in Selections /\ r.since \in Nat
      /\ r.me # Nobody /\ r.selection.account \in Someone /\ r.selection.account # Nobody
  BY <1>2 DEF Refreshes, RefreshOK, Selections
<1>4. PICK v \in r.since .. clock :
        page' = [page EXCEPT !.status = "signed_in", !.me = r.me, !.profile = r.profile,
                             !.suggestions = r.selection.account, !.selected = r.selection, !.seen = v]
  BY DEF ListsAnswered
<1>5. /\ draft' = r.profile /\ Ends(k)
      /\ UNCHANGED <<sessions, over, cookie, clock, editing, orders, shaken, issues, late, leftover>>
  BY DEF ListsAnswered, beside
<1>6. v \in Nat
  BY <1>1, <1>3
<1>7. page' = [status |-> "signed_in", me |-> r.me, profile |-> r.profile,
               suggestions |-> r.selection.account, selected |-> r.selection,
               issued |-> page.issued, seen |-> v]
  <2>1. \A q : [page EXCEPT !.status = "signed_in", !.me = q.me, !.profile = q.profile,
                            !.suggestions = q.selection.account, !.selected = q.selection, !.seen = v]
               = [status |-> "signed_in", me |-> q.me, profile |-> q.profile,
                  suggestions |-> q.selection.account, selected |-> q.selection,
                  issued |-> page.issued, seen |-> v]
    BY <1>1, PageShown, Zenon
  <2>2. [page EXCEPT !.status = "signed_in", !.me = r.me, !.profile = r.profile,
                     !.suggestions = r.selection.account, !.selected = r.selection, !.seen = v]
          = [status |-> "signed_in", me |-> r.me, profile |-> r.profile,
             suggestions |-> r.selection.account, selected |-> r.selection,
             issued |-> page.issued, seen |-> v]
    BY <2>1, Zenon
  <2> QED BY <1>4, <2>2, Zenon
<1>8. page' \in Pages
  BY <1>1, <1>3, <1>6, <1>7 DEF Pages
<1>9. /\ page'.status = "signed_in" /\ page'.me = r.me /\ page'.profile = r.profile
      /\ page'.selected = r.selection /\ page'.seen = v
  BY <1>7
<1>10. /\ refreshes' \in Seq(RefreshesOK)
       /\ ~shaken => Len(refreshes') = 0 /\ DOMAIN refreshes' = {}
  BY <1>5, Ended
<1>11. StateOK'
  BY <1>1, <1>3, <1>5, <1>8 DEF StateOK
<1>12. refreshes' \in Seq(RefreshesOK') /\ orders' \in Seq(OrdersOK')
  <2>1. Seq(RefreshesOK) \subseteq Seq(RefreshesOK') /\ Seq(OrdersOK) \subseteq Seq(OrdersOK')
    BY <1>1, <1>5, SessionsSame, StaysOK
  <2> QED BY <1>1, <1>5, <1>10, <2>1
<1>13. ShownOK'
  BY <1>3, <1>9 DEF ShownOK, ShownSignedIn
<1>14. AloneOK'
  <2> SUFFICES ASSUME ~shaken PROVE AloneOK'
    BY <1>5 DEF AloneOK
  <2>1. /\ AccountOf(cookie)' = AccountOf(cookie) /\ (Unseen' <=> Unseen)
        /\ cookie' = cookie /\ clock' = clock
    BY <1>5 DEF AccountOf, Unseen
  <2>2. r.me = AccountOf(cookie) /\ r.profile = AccountOf(cookie) /\ (~Unseen => Lacks(r.since))
    BY <1>1, <1>2 DEF AloneOK
  <2>3. ~Unseen => Lacks(v)'
    <3>1. v \in Int /\ r.since \in Int /\ clock \in Int /\ r.since <= v
      BY <1>1, <1>3, <1>6
    <3>2. (v + 1) .. clock \subseteq (r.since + 1) .. clock
      BY <3>1
    <3> QED BY <1>5, <2>2, <3>2 DEF Lacks
  <2> QED BY <1>5, <1>9, <1>10, <2>1, <2>2, <2>3 DEF AloneOK
<1> QED BY <1>11, <1>12, <1>13, <1>14 DEF PageInv, UnderWay, RefreshesOK, OrdersOK

(* A refresh that finds nobody signed in empties the page.                 *)
LEMMA SignedOutKeeps ==
  ASSUME PageInv, NEW k \in DOMAIN refreshes, SignedOut(k)
  PROVE  PageInv'
<1>1. /\ StateOK /\ refreshes \in Seq(RefreshesOK) /\ orders \in Seq(OrdersOK)
      /\ sessions \in Seq(Accounts)
  BY DEF PageInv, StateOK, UnderWay, RefreshesOK, OrdersOK
<1>2. /\ page' = EmptyPage("signed_out") /\ draft' = Nobody /\ editing' = FALSE
      /\ late' = FALSE /\ Ends(k) /\ UNCHANGED <<sessions, over, cookie, clock, orders, shaken, leftover>>
  BY DEF SignedOut
<1>3. /\ refreshes' \in Seq(RefreshesOK)
      /\ ~shaken => Len(refreshes') = 0 /\ DOMAIN refreshes' = {}
  BY <1>2, Ended
<1>4. page' \in Pages
  BY <1>2 DEF EmptyPage, NoSelection, Selection, Pages, Selections, Someone
<1>5. StateOK'
  BY <1>1, <1>2, <1>4 DEF StateOK, Someone
<1>6. refreshes' \in Seq(RefreshesOK') /\ orders' \in Seq(OrdersOK')
  <2>1. Seq(RefreshesOK) \subseteq Seq(RefreshesOK') /\ Seq(OrdersOK) \subseteq Seq(OrdersOK')
    BY <1>1, <1>2, SessionsSame, StaysOK
  <2> QED BY <1>1, <1>2, <1>3, <2>1
<1>7. ShownOK'
  BY <1>2 DEF ShownOK, ShownSignedIn, EmptyPage
<1>8. ~ShownSignedIn'
  BY <1>2 DEF ShownSignedIn, EmptyPage
<1>9. AloneOK'
  BY <1>2, <1>3, <1>8 DEF AloneOK
<1> QED BY <1>5, <1>6, <1>7, <1>9 DEF PageInv, UnderWay, RefreshesOK, OrdersOK

(* A refresh that fails shakes the page.                                   *)
LEMMA RefreshFailsKeeps ==
  ASSUME PageInv, NEW k \in DOMAIN refreshes, RefreshFails(k)
  PROVE  PageInv'
<1>1. /\ StateOK /\ ShownOK /\ refreshes \in Seq(RefreshesOK) /\ orders \in Seq(OrdersOK)
      /\ sessions \in Seq(Accounts)
  BY DEF PageInv, StateOK, UnderWay, RefreshesOK, OrdersOK
<1>2. /\ Ends(k) /\ shaken' = TRUE
      /\ UNCHANGED <<sessions, over, cookie, clock, page, draft, editing, orders, late, leftover>>
  BY DEF RefreshFails, beside
<1>3. refreshes' \in Seq(RefreshesOK)
  BY <1>2, Ended
<1>4. StateOK' /\ ShownOK'
  BY <1>1, <1>2 DEF StateOK, ShownOK, ShownSignedIn
<1>5. refreshes' \in Seq(RefreshesOK') /\ orders' \in Seq(OrdersOK')
  <2>1. Seq(RefreshesOK) \subseteq Seq(RefreshesOK') /\ Seq(OrdersOK) \subseteq Seq(OrdersOK')
    BY <1>1, <1>2, SessionsSame, StaysOK
  <2> QED BY <1>1, <1>2, <1>3, <2>1
<1>6. AloneOK'
  BY <1>2 DEF AloneOK
<1> QED BY <1>4, <1>5, <1>6 DEF PageInv, UnderWay, RefreshesOK, OrdersOK

-----------------------------------------------------------------------------
(* The user's clicks *)

(* What the page promises stays when neither it nor its refreshes change,  *)
(* and the clock only with an order the page has yet to hear of or with a  *)
(* token issued.                                                           *)
LEMMA AloneStays ==
  ASSUME StateOK, AloneOK, refreshes \in Seq(RefreshesOK),
         UNCHANGED <<cookie, page, draft, refreshes>>,
         AccountOf(cookie)' = AccountOf(cookie), ~shaken' => ~shaken,
         ~shaken' /\ ~Unseen' => ~Unseen /\ \A tick \in Nat : Lacks(tick) => Lacks(tick)'
  PROVE  AloneOK'
<1> SUFFICES ASSUME ~shaken' PROVE AloneOK'
  BY DEF AloneOK
<1>1. ~Unseen' => ~Unseen /\ \A tick \in Nat : Lacks(tick) => Lacks(tick)'
  OBVIOUS
<1>2. /\ Len(refreshes) <= 1
      /\ \A k \in DOMAIN refreshes : LET r == refreshes[k] IN
           /\ r.cred \in {0, cookie}
           /\ r.stage \in {"profile", "lists"} => r.me = AccountOf(cookie)
           /\ r.stage = "lists" => r.profile = AccountOf(cookie)
           /\ r.stage # "health" /\ ~Unseen => Lacks(r.since)
      /\ refreshes = <<>> /\ ShownSignedIn =>
           /\ page.me = AccountOf(cookie) /\ page.profile = page.me /\ draft = page.me
           /\ ~Unseen => Lacks(page.seen)
  BY DEF AloneOK
<1>3. ShownSignedIn' <=> ShownSignedIn
  BY DEF ShownSignedIn
<1>4. page.seen \in Nat /\ \A k \in DOMAIN refreshes : refreshes[k].since \in Nat
  <2>1. \A k \in DOMAIN refreshes : refreshes[k] \in Refreshes
    BY DEF RefreshesOK
  <2> QED BY <2>1 DEF StateOK, Pages, Refreshes
<1>5. ~Unseen' => /\ \A k \in DOMAIN refreshes : refreshes[k].stage # "health" => Lacks(refreshes[k].since)'
                  /\ refreshes = <<>> /\ ShownSignedIn => Lacks(page.seen)'
  BY <1>1, <1>2, <1>4
<1> QED BY <1>2, <1>3, <1>5 DEF AloneOK, Lacks

(* Nothing changes of what the page lacks when nothing is done.            *)
LEMMA LacksSame ==
  ASSUME clock' = clock, issues' = issues
  PROVE  \A tick \in Nat : Lacks(tick) => Lacks(tick)'
BY DEF Lacks

(* A click adds an order; from a settled page it carries the cookie of the *)
(* account shown.                                                          *)
LEMMA ClickKeeps ==
  ASSUME PageInv, NEW kind \in Kinds, NEW of \in Someone, Click(kind, of),
         SignsIn(kind) => of \in Accounts, TakesNotice(kind) => ShownSignedIn,
         kind = "save" => of = draft, leftover' \in Forms
  PROVE  PageInv'
<1> DEFINE new == Order(kind, of)
<1>1. /\ StateOK /\ ShownOK /\ AloneOK /\ refreshes \in Seq(RefreshesOK) /\ orders \in Seq(OrdersOK)
      /\ sessions \in Seq(Accounts) /\ page \in Pages /\ shaken \in BOOLEAN
  BY DEF PageInv, StateOK, UnderWay, RefreshesOK, OrdersOK
<1>2. /\ orders' = Append(orders, new)
      /\ UNCHANGED <<sessions, over, cookie, clock, page, draft, editing, refreshes, shaken, issues, late>>
  BY DEF Click
<1>3. /\ Credential \in Nat /\ Credential <= Len(sessions) /\ Credential \in {0, cookie}
  BY <1>1, CredentialOK
<1>4. new = [kind |-> kind, stage |-> "sent", cred |-> Credential, who |-> page.me,
             selection |-> page.selected, of |-> of, new |-> 0, settled |-> Settled]
  BY DEF Order
<1>5. Settled \in BOOLEAN /\ page.me \in Someone /\ page.selected \in Selections
  BY <1>1 DEF Settled, Pages
<1>6. new \in Orders
  BY <1>3, <1>4, <1>5 DEF Orders
<1>7. Settled /\ ShownSignedIn => page.me = AccountOf(cookie) /\ draft = page.me
  BY <1>1 DEF Settled, AloneOK
<1>8. Credential # 0 => AccountOf(cookie) = sessions[Credential]
  BY <1>3 DEF AccountOf
<1>9. ShownSignedIn => page.selected.account # Nobody
  BY <1>1 DEF ShownOK
<1>10. kind \in {"save", "decide"} => TakesNotice(kind)
  BY DEF TakesNotice
<1>11. OrderOK(new)
  <2>1. /\ new.kind = kind /\ new.stage = "sent" /\ new.cred = Credential /\ new.who = page.me
        /\ new.selection = page.selected /\ new.of = of /\ new.settled = Settled
    BY <1>4
  <2> HIDE DEF new
  <2>2. new.settled /\ TakesNotice(new.kind) /\ new.cred # 0 => sessions[new.cred] = new.who
    BY <1>7, <1>8, <2>1
  <2>3. new.settled /\ new.kind = "save" /\ new.cred # 0 => sessions[new.cred] = new.of
    BY <1>7, <1>8, <1>10, <2>1
  <2>4. new.kind = "decide" => new.selection.account # Nobody
    BY <1>9, <1>10, <2>1
  <2>5. new.stage # "done" /\ new.cred <= Len(sessions) /\ (SignsIn(new.kind) => new.of \in Accounts)
    BY <1>3, <2>1
  <2> QED BY <1>6, <2>2, <2>3, <2>4, <2>5 DEF OrderOK
<1> HIDE DEF new
<1>12. orders' \in Seq(OrdersOK) /\ \A j \in DOMAIN orders : j \in DOMAIN orders' /\ orders'[j] = orders[j]
  <2>1. new \in OrdersOK
    BY <1>6, <1>11 DEF OrdersOK
  <2> QED BY <1>1, <1>2, <2>1
<1>13. Unseen => Unseen'
  BY <1>12 DEF Unseen
<1>14. AccountOf(cookie)' = AccountOf(cookie)
  BY <1>2 DEF AccountOf
<1>15. AloneOK'
  BY <1>1, <1>2, <1>13, <1>14, AloneStays, LacksSame
<1>16. StateOK' /\ ShownOK'
  BY <1>1, <1>2 DEF StateOK, ShownOK, ShownSignedIn
<1>17. refreshes' \in Seq(RefreshesOK') /\ orders' \in Seq(OrdersOK')
  <2>1. Seq(RefreshesOK) \subseteq Seq(RefreshesOK') /\ Seq(OrdersOK) \subseteq Seq(OrdersOK')
    BY <1>1, <1>2, SessionsSame, StaysOK
  <2> QED BY <1>1, <1>2, <1>12, <2>1
<1> QED BY <1>15, <1>16, <1>17 DEF PageInv, UnderWay, RefreshesOK, OrdersOK

(* The handlers that send an order.                                        *)
Sends ==
  \/ handleLogin \/ handleBootstrap \/ handleLogout \/ handleCreateApiToken \/ handleRevokeToken
  \/ handleProfileSave \/ handleUseSharedTemplate \/ handleViewSubmit \/ handleReviewSuggestion
  \/ handlePublishSuggestion \/ handleAdminAccountCreate

(* Each sends an order that fits what the page shows.                      *)
LEMMA SendsKeep ==
  ASSUME PageInv, Sends
  PROVE  PageInv'
<1>1. page.me \in Someone /\ draft \in Someone /\ page.suggestions \in Someone /\ Accounts \subseteq Someone
  BY DEF PageInv, StateOK, Pages, Someone
<1>2. /\ \A kind \in {"logout", "token", "save", "change", "view", "decide", "account"} : ~SignsIn(kind)
      /\ \A kind \in {"login", "bootstrap", "logout"} : ~TakesNotice(kind)
      /\ "save" \notin {"logout", "token", "change", "view", "decide", "account", "login", "bootstrap"}
  BY DEF SignsIn, TakesNotice
<1>3. /\ "login" \in Kinds /\ "bootstrap" \in Kinds /\ "logout" \in Kinds /\ "token" \in Kinds
      /\ "change" \in Kinds /\ "save" \in Kinds /\ "view" \in Kinds /\ "decide" \in Kinds
      /\ "account" \in Kinds
  BY DEF Kinds
<1>k. /\ leftover \in Forms
      /\ \A a \in Someone : /\ [leftover EXCEPT !.login = a] \in Forms /\ [leftover EXCEPT !.bootstrap = a] \in Forms
                           /\ [leftover EXCEPT !.account = a] \in Forms
  <2>1. leftover \in Forms
    BY DEF PageInv, StateOK
  <2> QED BY <2>1 DEF Forms
<1>p. \A kind, of : Press(kind, of) => Click(kind, of) /\ leftover' \in Forms
  BY <1>k DEF Press
<1>4. CASE handleLogin
  <2>1. PICK a \in Accounts : Click("login", a) /\ leftover' = [leftover EXCEPT !.login = a]
    BY <1>4 DEF handleLogin
  <2>2. leftover' \in Forms
    BY <1>1, <1>k, <2>1
  <2> QED BY <1>1, <1>2, <1>3, <2>1, <2>2, ClickKeeps
<1>5. CASE handleBootstrap
  <2>1. PICK a \in Admins : Click("bootstrap", a) /\ leftover' = [leftover EXCEPT !.bootstrap = a]
    BY <1>5 DEF handleBootstrap
  <2>2. a \in Accounts
    BY DashboardAssumption
  <2>3. leftover' \in Forms
    BY <1>1, <1>k, <2>1, <2>2
  <2> QED BY <1>1, <1>2, <1>3, <2>1, <2>2, <2>3, ClickKeeps
<1>6. CASE handleLogout
  BY <1>1, <1>2, <1>3, <1>p, <1>6, ClickKeeps DEF handleLogout
<1>7. CASE handleCreateApiToken
  BY <1>1, <1>2, <1>3, <1>p, <1>7, ClickKeeps DEF handleCreateApiToken
<1>8. CASE handleRevokeToken
  BY <1>1, <1>2, <1>3, <1>p, <1>8, ClickKeeps DEF handleRevokeToken
<1>9. CASE handleProfileSave
  BY <1>1, <1>2, <1>3, <1>p, <1>9, ClickKeeps DEF handleProfileSave, ProfileForm
<1>10. CASE handleUseSharedTemplate
  BY <1>1, <1>2, <1>3, <1>p, <1>10, ClickKeeps DEF handleUseSharedTemplate
<1>11. CASE handleViewSubmit
  BY <1>1, <1>2, <1>3, <1>p, <1>11, ClickKeeps DEF handleViewSubmit
<1>12. CASE handleReviewSuggestion \/ handlePublishSuggestion
  BY <1>1, <1>2, <1>3, <1>p, <1>12, ClickKeeps DEF handleReviewSuggestion, handlePublishSuggestion, CardAccount
<1>13. CASE handleAdminAccountCreate
  <2>1. PICK who \in {page.me, leftover.account} \ {Nobody} :
          Click("account", who) /\ leftover' = [leftover EXCEPT !.account = who]
    BY <1>13 DEF handleAdminAccountCreate
  <2>2. who \in Someone /\ ShownSignedIn
    BY <1>1, <1>k, <1>13 DEF Forms, handleAdminAccountCreate
  <2>3. leftover' \in Forms
    BY <1>k, <2>1, <2>2
  <2> QED BY <1>1, <1>2, <1>3, <2>1, <2>2, <2>3, ClickKeeps
<1> QED BY <1>4, <1>5, <1>6, <1>7, <1>8, <1>9, <1>10, <1>11, <1>12, <1>13 DEF Sends

-----------------------------------------------------------------------------
(* The orders *)

(* What an order that is permitted shows for it.                           *)
LEMMA PermittedOK ==
  ASSUME NEW o \in OrdersOK, Permitted(o)
  PROVE  /\ TakesNotice(o.kind) => o.cred # 0
         /\ o.kind = "decide" => o.of = o.selection.account
<1>1. o.kind = "decide" => o.selection.account # Nobody
  BY DEF OrdersOK, OrderOK
<1>2. o.kind = "decide" => ~SignsIn(o.kind) /\ o.kind # "logout"
  BY DEF SignsIn
<1>3. TakesNotice(o.kind) => ~SignsIn(o.kind) /\ o.kind # "logout"
  BY DEF SignsIn, TakesNotice
<1>4. Permitted(o) = IF SignsIn(o.kind) THEN o.kind = "login" \/ sessions = <<>>
                     ELSE IF o.kind = "logout" THEN TRUE
                     ELSE IF o.kind = "decide" THEN o.cred # 0 /\ SuggestionFound(o)
                     ELSE IF o.kind = "account" THEN o.cred # 0 /\ AccountOf(o.cred) \in Admins
                     ELSE o.cred # 0
  BY DEF Permitted, SignsIn
<1>5. TakesNotice(o.kind) => o.cred # 0
  BY <1>3, <1>4
<1>6. o.kind = "decide" => SuggestionFound(o)
  BY <1>2, <1>4
<1> QED BY <1>1, <1>5, <1>6 DEF SuggestionFound, TargetOf, pickSuggestionAccountId

(* The API does an order: the page has yet to hear of it.                  *)
LEMMA ServedKeeps ==
  ASSUME PageInv, NEW i \in DOMAIN orders, Served(i)
  PROVE  PageInv'
<1>o. PICK o : o = orders[i]
  OBVIOUS
<1>n. PICK number : number = IF SignsIn(o.kind) THEN Len(sessions) + 1 ELSE 0
  OBVIOUS
<1> DEFINE done == [kind |-> o.kind, stage |-> "done", cred |-> o.cred, who |-> o.who,
                    selection |-> o.selection, of |-> o.of, new |-> number, settled |-> o.settled]
<1>1. /\ StateOK /\ ShownOK /\ AloneOK /\ refreshes \in Seq(RefreshesOK) /\ orders \in Seq(OrdersOK)
      /\ sessions \in Seq(Accounts) /\ Len(sessions) \in Nat /\ cookie \in 0 .. Len(sessions)
      /\ clock \in Nat
  BY DEF PageInv, StateOK, UnderWay, RefreshesOK, OrdersOK
<1>2. o \in OrdersOK /\ o \in Orders /\ OrderOK(o)
  BY <1>1, <1>o DEF OrdersOK
<1>3. /\ o.stage = "sent" /\ Permitted(o)
      /\ sessions' = IF SignsIn(o.kind) THEN Append(sessions, o.of) ELSE sessions
      /\ clock' = IF TakesNotice(o.kind) THEN clock + 1 ELSE clock
      /\ orders' = [orders EXCEPT ![i].stage = "done", ![i].new = number]
      /\ issues' = IF o.kind = "token" THEN issues \cup {clock'} ELSE issues
      /\ UNCHANGED <<cookie, page, draft, editing, refreshes, shaken, late, leftover>>
  BY <1>o, <1>n DEF Served
<1>4. TakesNotice(o.kind) => o.cred # 0
  BY <1>2, <1>3, PermittedOK
<1>5. o.kind = "decide" => o.of = o.selection.account
  BY <1>2, <1>3, PermittedOK
<1>6. SignsIn(o.kind) => o.of \in Accounts
  BY <1>2 DEF OrderOK
<1>7. SessionsStay
  <2>1. CASE SignsIn(o.kind)
    <3>1. sessions' = Append(sessions, o.of) /\ o.of \in Accounts
      BY <1>3, <1>6, <2>1
    <3> QED BY <1>1, <3>1 DEF SessionsStay
  <2>2. CASE ~SignsIn(o.kind)
    BY <1>1, <1>3, <2>2, SessionsSame
  <2> QED BY <2>1, <2>2
<1>8. number \in Nat /\ (SignsIn(o.kind) => number \in 1 .. Len(sessions'))
  <2>1. CASE SignsIn(o.kind)
    BY <1>1, <1>3, <1>6, <1>n, <2>1
  <2>2. CASE ~SignsIn(o.kind)
    BY <1>n, <2>2
  <2> QED BY <2>1, <2>2
<1>9. orders' = [orders EXCEPT ![i] = done]
  <2>2. PICK os : os = [orders EXCEPT ![i].stage = "done"]
    OBVIOUS
  <2>3. orders' = [os EXCEPT ![i].new = number]
    BY <1>3, <2>2, Zenon
  <2>4. PICK mid : mid = [o EXCEPT !.stage = "done"]
    OBVIOUS
  <2>5. os = [orders EXCEPT ![i] = mid] /\ os[i] = mid /\ os \in [DOMAIN orders -> OrdersOK \cup {mid}]
    BY <1>1, <1>o, <2>2, <2>4
  <2>6. PICK new : new = [mid EXCEPT !.new = number]
    OBVIOUS
  <2>7. orders' = [orders EXCEPT ![i] = new]
    BY <2>3, <2>5, <2>6
  <2>8. new = done
    <3>1. \A m : [o EXCEPT !.stage = "done", !.new = m]
                   = [kind |-> o.kind, stage |-> "done", cred |-> o.cred, who |-> o.who,
                      selection |-> o.selection, of |-> o.of, new |-> m, settled |-> o.settled]
      BY <1>2, OrderDone, Zenon
    <3>2. new = [o EXCEPT !.stage = "done", !.new = number]
      BY <2>4, <2>6, Zenon
    <3>3. [o EXCEPT !.stage = "done", !.new = number]
            = [kind |-> o.kind, stage |-> "done", cred |-> o.cred, who |-> o.who,
               selection |-> o.selection, of |-> o.of, new |-> number, settled |-> o.settled]
      BY <3>1, Zenon
    <3> QED BY <3>2, <3>3, Zenon
  <2> QED BY <2>7, <2>8, Zenon
<1>10. /\ done.kind = o.kind /\ done.stage = "done" /\ done.cred = o.cred /\ done.who = o.who
       /\ done.selection = o.selection /\ done.of = o.of /\ done.new = number
       /\ done.settled = o.settled
  OBVIOUS
<1>11. done \in Orders
  BY <1>2, <1>8 DEF Orders
<1> HIDE DEF done
<1>12. Seq(RefreshesOK) \subseteq Seq(RefreshesOK') /\ Seq(OrdersOK) \subseteq Seq(OrdersOK')
       /\ OrdersOK \subseteq OrdersOK'
  BY <1>1, <1>7, StaysOK
<1>13. OrderOK(done)'
  <2>1. OrderOK(o)'
    BY <1>2, <1>12 DEF OrdersOK
  <2> QED BY <1>4, <1>5, <1>8, <1>10, <1>11, <2>1 DEF OrderOK
<1>14. orders' \in Seq(OrdersOK') /\ refreshes' \in Seq(RefreshesOK')
  <2>1. done \in OrdersOK' /\ orders \in Seq(OrdersOK')
    BY <1>1, <1>11, <1>12, <1>13 DEF OrdersOK
  <2>2. orders' \in Seq(OrdersOK')
    BY <1>9, <2>1
  <2> QED BY <1>1, <1>3, <1>12, <2>2
<1>15. \A j \in DOMAIN orders : j \in DOMAIN orders' /\ orders'[j] = IF j = i THEN done ELSE orders[j]
  BY <1>1, <1>9
<1>16. TakesNotice(o.kind) /\ o.kind # "token" => Unseen'
  BY <1>10, <1>15 DEF Unseen, StartsNoRefresh
<1>17. Unseen => Unseen'
  BY <1>3, <1>o, <1>15 DEF Unseen
<1>18. AccountOf(cookie)' = AccountOf(cookie)
  BY <1>1, <1>3, <1>7 DEF AccountOf, SessionsStay
<1>19. ~Unseen' => ~Unseen /\ \A tick \in Nat : Lacks(tick) => Lacks(tick)'
  <2>1. CASE ~TakesNotice(o.kind)
    <3>1. o.kind # "token"
      BY <2>1 DEF TakesNotice
    <3>2. clock' = clock /\ issues' = issues
      BY <1>3, <2>1, <3>1
    <3> QED BY <1>17, <3>2, LacksSame
  <2>2. CASE o.kind = "token"
    <3>1. clock' = clock + 1 /\ issues' = issues \cup {clock'}
      BY <1>3, <2>2 DEF TakesNotice
    <3>2. \A tick \in Nat : (tick + 1) .. clock' \subseteq ((tick + 1) .. clock) \cup {clock'}
      BY <1>1, <3>1
    <3>3. \A tick \in Nat : Lacks(tick) => (tick + 1) .. clock' \subseteq issues'
      BY <3>1, <3>2 DEF Lacks
    <3> QED BY <1>17, <3>3 DEF Lacks
  <2>3. CASE TakesNotice(o.kind) /\ o.kind # "token"
    BY <1>16, <2>3
  <2> QED BY <2>1, <2>2, <2>3
<1>20. AloneOK'
  BY <1>1, <1>3, <1>18, <1>19, AloneStays
<1>21. StateOK'
  <2>1. clock' \in Nat /\ cookie' \in 0 .. Len(sessions')
    BY <1>1, <1>3, <1>7 DEF SessionsStay
  <2> QED BY <1>1, <1>3, <1>7, <2>1 DEF StateOK, SessionsStay
<1>22. ShownOK'
  BY <1>1, <1>3 DEF ShownOK, ShownSignedIn
<1> QED BY <1>14, <1>20, <1>21, <1>22 DEF PageInv, UnderWay, RefreshesOK, OrdersOK

(* An order that fails is forgotten; the page asks for nothing.            *)
LEMMA OrderFailsKeeps ==
  ASSUME PageInv, NEW i \in DOMAIN orders, OrderFails(i)
  PROVE  PageInv'
<1>1. /\ StateOK /\ ShownOK /\ AloneOK /\ refreshes \in Seq(RefreshesOK) /\ orders \in Seq(OrdersOK)
      /\ sessions \in Seq(Accounts) /\ shaken \in BOOLEAN
  BY DEF PageInv, StateOK, UnderWay, RefreshesOK, OrdersOK
<1>2. /\ orders' = RemoveAt(orders, i)
      /\ UNCHANGED <<sessions, over, cookie, clock, page, draft, editing, refreshes, issues, late, leftover>>
      /\ (orders[i].stage = "sent" /\ UNCHANGED shaken) \/ shaken' = TRUE
  BY DEF OrderFails, beside
<1>3. orders' \in Seq(OrdersOK)
  BY <1>1, <1>2, Removed
<1>4. \A j \in DOMAIN orders : j # i => \E k \in DOMAIN orders' : orders'[k] = orders[j]
  BY <1>1, <1>2, Removed
<1>5. refreshes' \in Seq(RefreshesOK') /\ orders' \in Seq(OrdersOK')
  <2>1. Seq(RefreshesOK) \subseteq Seq(RefreshesOK') /\ Seq(OrdersOK) \subseteq Seq(OrdersOK')
    BY <1>1, <1>2, SessionsSame, StaysOK
  <2> QED BY <1>1, <1>2, <1>3, <2>1
<1>6. shaken' \in BOOLEAN
  BY <1>1, <1>2
<1>7. StateOK' /\ ShownOK'
  BY <1>1, <1>2, <1>6 DEF StateOK, ShownOK, ShownSignedIn
<1>8. AccountOf(cookie)' = AccountOf(cookie)
  BY <1>2 DEF AccountOf
<1>9. CASE orders[i].stage = "sent" /\ UNCHANGED shaken
  <2>1. Unseen => Unseen'
    BY <1>4, <1>9 DEF Unseen
  <2>2. AloneOK'
    BY <1>1, <1>2, <1>8, <1>9, <2>1, AloneStays, LacksSame
  <2> QED BY <1>5, <1>7, <2>2 DEF PageInv, UnderWay, RefreshesOK, OrdersOK
<1>10. CASE shaken' = TRUE
  <2>1. AloneOK'
    BY <1>10 DEF AloneOK
  <2> QED BY <1>5, <1>7, <2>1 DEF PageInv, UnderWay, RefreshesOK, OrdersOK
<1> QED BY <1>2, <1>9, <1>10

(* The answer to an order starts a refresh; only that to the request for a *)
(* token does not, and the page goes on without it.                        *)
LEMMA OrderAnsweredKeeps ==
  ASSUME PageInv, NEW i \in DOMAIN orders, OrderAnswered(i)
  PROVE  PageInv'
<1> DEFINE o == orders[i]
<1>1. /\ StateOK /\ ShownOK /\ AloneOK /\ refreshes \in Seq(RefreshesOK) /\ orders \in Seq(OrdersOK)
      /\ sessions \in Seq(Accounts) /\ shaken \in BOOLEAN /\ page \in Pages /\ editing \in BOOLEAN
      /\ Len(sessions) \in Nat /\ cookie \in 0 .. Len(sessions)
  BY DEF PageInv, StateOK, UnderWay, RefreshesOK, OrdersOK
<1>2. o \in Orders /\ OrderOK(o) /\ o.stage = "done"
  BY <1>1 DEF OrdersOK, OrderAnswered
<1>3. /\ orders' = RemoveAt(orders, i)
      /\ cookie' = IF SignsIn(o.kind) THEN o.new ELSE IF o.kind = "logout" THEN 0 ELSE cookie
      /\ page' = IF o.kind = "token" THEN [page EXCEPT !.issued = Actor(o)] ELSE page
      /\ editing' = (editing /\ o.kind # "view")
      /\ late' = IF o.kind = "token" THEN ~ShownSignedIn ELSE late
      /\ UNCHANGED <<sessions, over, clock, draft, issues>>
  BY DEF OrderAnswered
<1>3a. Actor(o) \in Someone
  <2>1. CASE SignsIn(o.kind)
    BY <1>2, <2>1 DEF Actor, OrderOK, Someone
  <2>2. CASE ~SignsIn(o.kind)
    <3>1. Actor(o) = AccountOf(o.cred) /\ o.cred \in Nat /\ o.cred <= Len(sessions)
      BY <1>2, <2>2 DEF Actor, OrderOK, Orders
    <3> QED BY <1>1, <3>1 DEF AccountOf, Someone
  <2> QED BY <2>1, <2>2
<1>3b. leftover' \in Forms /\ late' \in BOOLEAN
  <2>1. leftover \in Forms /\ late \in BOOLEAN
    BY <1>1 DEF StateOK
  <2>2. PICK a : a = IF o.kind = "account" THEN Nobody ELSE leftover.account
    OBVIOUS
  <2>3. PICK b : b = IF SignsIn(o.kind) \/ o.kind = "logout" THEN Nobody ELSE Actor(o)
    OBVIOUS
  <2>4. a \in Someone /\ b \in Someone
    BY <1>3a, <2>1, <2>2, <2>3 DEF Forms, Someone
  <2>5. leftover' = [leftover EXCEPT !.account = a, !.notice = b]
    BY <2>2, <2>3 DEF OrderAnswered
  <2>6. leftover' \in Forms
    BY <2>1, <2>4, <2>5 DEF Forms
  <2>7. late' \in BOOLEAN
    BY <1>3, <2>1
  <2> QED BY <2>6, <2>7
<1>4. orders' \in Seq(OrdersOK)
  BY <1>1, <1>3, Removed
<1>5. \A j \in DOMAIN orders : j # i => \E k \in DOMAIN orders' : orders'[k] = orders[j]
  BY <1>1, <1>3, Removed
<1>6. Seq(RefreshesOK) \subseteq Seq(RefreshesOK') /\ Seq(OrdersOK) \subseteq Seq(OrdersOK')
  BY <1>1, <1>3, SessionsSame, StaysOK
<1>7. cookie' \in 0 .. Len(sessions) /\ cookie' \in Nat
  BY <1>1, <1>2, <1>3 DEF OrderOK
<1>8. editing' \in BOOLEAN /\ (~editing => ~editing')
  BY <1>3
<1>9. CASE o.kind = "token"
  <2>1. ~SignsIn(o.kind) /\ o.kind # "logout" /\ StartsNoRefresh(o.kind)
    BY <1>9 DEF SignsIn, StartsNoRefresh
  <2>2. cookie' = cookie /\ UNCHANGED <<refreshes, shaken>>
    BY <1>3, <1>9, <2>1 DEF OrderAnswered, StartsNoRefresh
  <2>3. late' = ~ShownSignedIn
    BY <1>3, <1>9
  <2>4. PICK who \in Someone : page' = [page EXCEPT !.issued = who]
    BY <1>3, <1>3a, <1>9
  <2>5. /\ page' \in Pages /\ page'.status = page.status /\ page'.me = page.me
        /\ page'.profile = page.profile /\ page'.suggestions = page.suggestions
        /\ page'.selected = page.selected /\ page'.seen = page.seen
    BY <1>1, <2>4 DEF Pages
  <2>6. ShownSignedIn' <=> ShownSignedIn
    BY <2>5 DEF ShownSignedIn
  <2>7. StateOK' /\ ShownOK'
    BY <1>1, <1>3, <1>3b, <1>7, <1>8, <2>2, <2>3, <2>5, <2>6 DEF StateOK, ShownOK
  <2>8. Unseen => Unseen'
    BY <1>5, <2>1 DEF Unseen
  <2>9. AccountOf(cookie)' = AccountOf(cookie)
    BY <1>3, <2>2 DEF AccountOf
  <2>10. AloneOK'
    <3> SUFFICES ASSUME ~shaken PROVE AloneOK'
      BY <2>2 DEF AloneOK
    <3>1. (~Unseen' => ~Unseen) /\ \A tick : Lacks(tick)' <=> Lacks(tick)
      BY <1>3, <2>8 DEF Lacks
    <3> QED BY <1>1, <1>3, <2>2, <2>5, <2>6, <2>9, <3>1 DEF AloneOK
  <2>11. refreshes' \in Seq(RefreshesOK') /\ orders' \in Seq(OrdersOK')
    BY <1>1, <1>4, <1>6, <2>2
  <2> QED BY <2>7, <2>10, <2>11 DEF PageInv, UnderWay, RefreshesOK, OrdersOK
<1>10. CASE o.kind # "token"
  <2>1. StartRefresh(NextSelection(o)) /\ UNCHANGED page
    BY <1>3, <1>10 DEF OrderAnswered, StartsNoRefresh
  <2>2. NextSelection(o) \in Selections
    BY <1>2 DEF NextSelection, Selection, Selections, Orders, Someone
  <2>3. refreshes' \in Seq(RefreshesOK) /\ AloneOK' /\ shaken' \in BOOLEAN
    BY <1>1, <1>7, <2>1, <2>2, Started
  <2>4. StateOK' /\ ShownOK'
    BY <1>1, <1>3, <1>3b, <1>7, <1>8, <1>10, <2>1, <2>3 DEF StateOK, ShownOK, ShownSignedIn
  <2>5. refreshes' \in Seq(RefreshesOK') /\ orders' \in Seq(OrdersOK')
    BY <1>4, <1>6, <2>3
  <2> QED BY <2>3, <2>4, <2>5 DEF PageInv, UnderWay, RefreshesOK, OrdersOK
<1> QED BY <1>9, <1>10

-----------------------------------------------------------------------------
(* The other steps *)

(* A look at something else starts a refresh.                              *)
LEMMA LookKeeps ==
  ASSUME PageInv, InspectDeployment \/ SelectAccount
  PROVE  PageInv'
<1>1. /\ StateOK /\ ShownOK /\ refreshes \in Seq(RefreshesOK) /\ orders \in Seq(OrdersOK)
      /\ sessions \in Seq(Accounts) /\ page \in Pages /\ page.selected \in Selections
      /\ Len(sessions) \in Nat /\ cookie \in 0 .. Len(sessions)
  BY DEF PageInv, StateOK, UnderWay, RefreshesOK, OrdersOK, Pages
<1>2. /\ UNCHANGED <<sessions, over, cookie, clock, draft, editing, orders, late, leftover>> /\ ShownSignedIn
      /\ \E selection \in Selections : StartRefresh(selection)
  <2>1. CASE InspectDeployment
    <3>1. [page.selected EXCEPT !.deployment = 1] \in Selections
      BY <1>1 DEF Selections
    <3> QED BY <2>1, <3>1 DEF InspectDeployment, Look, beside
  <2>2. CASE SelectAccount
    <3>1. PICK a \in Accounts : Look(Selection(a, page.selected.deployment))
      BY <2>2 DEF SelectAccount
    <3>2. Selection(a, page.selected.deployment) \in Selections
      BY <1>1 DEF Selection, Selections, Someone
    <3> QED BY <3>1, <3>2 DEF Look, beside
  <2> QED BY <2>1, <2>2
<1>3. /\ page' \in Pages /\ page'.status = page.status /\ page'.me = page.me
      /\ page'.selected.account # Nobody
  <2>1. CASE InspectDeployment
    BY <1>1, <1>2, <2>1 DEF InspectDeployment, ShownOK
  <2>2. CASE SelectAccount
    <3>1. PICK a \in Accounts : page' = [page EXCEPT !.selected.account = a]
      BY <2>2 DEF SelectAccount
    <3>2. a \in Someone /\ a # Nobody
      BY DashboardAssumption DEF Someone
    <3>3. page' = [page EXCEPT !.selected = [page.selected EXCEPT !.account = a]]
      BY <3>1
    <3>4. [page.selected EXCEPT !.account = a] \in Selections
      BY <1>1, <3>2 DEF Selections
    <3>5. [page.selected EXCEPT !.account = a].account = a
      BY <1>1 DEF Selections
    <3> QED BY <1>1, <3>2, <3>3, <3>4, <3>5 DEF Pages
  <2> QED BY <2>1, <2>2
<1>4. refreshes' \in Seq(RefreshesOK) /\ AloneOK' /\ shaken' \in BOOLEAN
  BY <1>1, <1>2, Started
<1>5. StateOK' /\ ShownOK'
  BY <1>1, <1>2, <1>3, <1>4 DEF StateOK, ShownOK, ShownSignedIn
<1>6. refreshes' \in Seq(RefreshesOK') /\ orders' \in Seq(OrdersOK')
  <2>1. Seq(RefreshesOK) \subseteq Seq(RefreshesOK') /\ Seq(OrdersOK) \subseteq Seq(OrdersOK')
    BY <1>1, <1>2, SessionsSame, StaysOK
  <2> QED BY <1>1, <1>2, <1>4, <2>1
<1> QED BY <1>4, <1>5, <1>6 DEF PageInv, UnderWay, RefreshesOK, OrdersOK

(* The view form is opened and closed by who is signed in; a session that  *)
(* expires shakes the page.                                                *)
LEMMA OthersKeep ==
  ASSUME PageInv, beginViewEdit \/ ClearEdit \/ SessionExpires
  PROVE  PageInv'
<1>1. /\ StateOK /\ ShownOK /\ AloneOK /\ refreshes \in Seq(RefreshesOK) /\ orders \in Seq(OrdersOK)
      /\ sessions \in Seq(Accounts)
  BY DEF PageInv, StateOK, UnderWay, RefreshesOK, OrdersOK
<1>2. UNCHANGED <<sessions, cookie, clock, page, draft, refreshes, orders, issues, late, leftover>>
  BY DEF beginViewEdit, ClearEdit, SessionExpires, beside
<1>3. editing' \in BOOLEAN /\ shaken' \in BOOLEAN
  BY <1>1 DEF beginViewEdit, ClearEdit, SessionExpires, StateOK
<1>4. StateOK' /\ ShownOK'
  <2>1. ~ShownSignedIn => editing' = editing
    BY DEF beginViewEdit, ClearEdit, SessionExpires
  <2> QED BY <1>1, <1>2, <1>3, <2>1 DEF StateOK, ShownOK, ShownSignedIn
<1>5. AccountOf(cookie)' = AccountOf(cookie) /\ (Unseen' <=> Unseen)
  BY <1>2 DEF AccountOf, Unseen
<1>6. ~shaken' => ~shaken
  BY DEF beginViewEdit, ClearEdit, SessionExpires
<1>7. AloneOK'
  BY <1>1, <1>2, <1>5, <1>6, AloneStays, LacksSame
<1>8. refreshes' \in Seq(RefreshesOK') /\ orders' \in Seq(OrdersOK')
  <2>1. Seq(RefreshesOK) \subseteq Seq(RefreshesOK') /\ Seq(OrdersOK) \subseteq Seq(OrdersOK')
    BY <1>1, <1>2, SessionsSame, StaysOK
  <2> QED BY <1>1, <1>2, <2>1
<1> QED BY <1>4, <1>7, <1>8 DEF PageInv, UnderWay, RefreshesOK, OrdersOK

(* The page begins empty, with one refresh that has asked for nothing.     *)
LEMMA InitPage ==
  ASSUME DashboardInit
  PROVE  PageInv
<1>1. /\ over = {} /\ clock = 0 /\ page = EmptyPage("loading") /\ draft = Nobody /\ editing = FALSE
      /\ refreshes = <<Refresh(NoSelection)>> /\ orders = <<>> /\ shaken = FALSE
      /\ late = FALSE /\ leftover \in Forms
  BY DEF DashboardInit, Forms, Someone
<1>2. sessions \in Seq(Accounts) /\ cookie \in 0 .. Len(sessions)
  <2>1. PICK a \in Someone : /\ sessions = IF a = Nobody THEN <<>> ELSE <<a>>
                             /\ cookie = IF a = Nobody THEN 0 ELSE 1
    BY DEF DashboardInit
  <2>2. CASE a = Nobody
    <3>1. sessions = <<>> /\ cookie = 0
      BY <2>1, <2>2
    <3> QED BY <3>1
  <2>3. CASE a # Nobody
    <3>1. sessions = <<a>> /\ cookie = 1 /\ a \in Accounts
      BY <2>1, <2>3 DEF Someone
    <3> QED BY <3>1
  <2> QED BY <2>2, <2>3
<1>3. page \in Pages
  BY <1>1 DEF EmptyPage, NoSelection, Selection, Pages, Selections, Someone
<1>4. StateOK
  BY <1>1, <1>2, <1>3 DEF StateOK, Someone
<1>5. ShownOK
  BY <1>1 DEF ShownOK, ShownSignedIn, EmptyPage
<1> DEFINE r == Refresh(NoSelection)
<1>6. r \in Refreshes /\ r.stage = "health" /\ r.cred = 0
  BY DEF Refresh, NoSelection, Selection, Selections, Refreshes, Someone
<1>7. r \in {q \in Refreshes : RefreshOK(q)}
  BY <1>2, <1>6 DEF RefreshOK
<1>8. refreshes = <<r>>
  BY <1>1
<1> HIDE DEF r
<1>9. UnderWay
  BY <1>1, <1>7, <1>8 DEF UnderWay
<1>10. /\ Len(refreshes) = 1 /\ refreshes # <<>>
       /\ \A k \in DOMAIN refreshes : refreshes[k] = r
  BY <1>8
<1>11. AloneOK
  BY <1>6, <1>10 DEF AloneOK
<1> QED BY <1>4, <1>5, <1>9, <1>11 DEF PageInv

(* Every step keeps the invariant.                                         *)
LEMMA StepKeeps ==
  ASSUME PageInv, [DashboardNext]_vars
  PROVE  PageInv'
<1>1. CASE UNCHANGED vars
  BY <1>1 DEF PageInv, StateOK, UnderWay, ShownOK, ShownSignedIn, AloneOK, Unseen, Lacks, RefreshOK, OrderOK,
              AccountOf, vars
<1>2. CASE \E k \in DOMAIN refreshes :
             \/ HealthAnswered(k) \/ MeAnswered(k) \/ ProfileAnswered(k)
             \/ ListsAnswered(k) \/ SignedOut(k) \/ RefreshFails(k)
  BY <1>2, AskingKeeps, ListsKeep, SignedOutKeeps, RefreshFailsKeeps
<1>3. CASE \E i \in DOMAIN orders : Served(i) \/ OrderFails(i) \/ OrderAnswered(i)
  BY <1>3, ServedKeeps, OrderFailsKeeps, OrderAnsweredKeeps
<1>4. CASE Sends
  BY <1>4, SendsKeep
<1>5. CASE beginViewEdit \/ ClearEdit \/ InspectDeployment \/ SelectAccount \/ SessionExpires
  BY <1>5, LookKeeps, OthersKeep
<1> QED BY <1>1, <1>2, <1>3, <1>4, <1>5 DEF DashboardNext, Sends

-----------------------------------------------------------------------------
(* Theorems *)

(* The invariant holds in every reachable state: a refresh that runs alone *)
(* is the cookie's, and an order from a settled page is that of who is     *)
(* shown (refreshDashboard and the handlers of App.tsx).                   *)
THEOREM PageInvHolds == DashboardSpec => []PageInv
<1>1. DashboardInit => PageInv
  BY InitPage
<1>2. PageInv /\ [DashboardNext]_vars => PageInv'
  BY StepKeeps
<1> QED BY <1>1, <1>2, PTL DEF DashboardSpec

(* While a page shows nobody, what a sign-out empties stays empty whatever *)
(* answers come late, but for a token whose answer is late                 *)
(* (App.tsx:199-221).  The sign-in and account forms and the notice are    *)
(* not emptied.                                                            *)
THEOREM ListsLeaveWithAccountHolds == DashboardSpec => []ListsLeaveWithAccount
<1>1. PageInv => ListsLeaveWithAccount
  <2> SUFFICES ASSUME PageInv PROVE ListsLeaveWithAccount
    OBVIOUS
  <2>1. page \in Pages /\ draft \in Someone /\ ShownOK
    BY DEF PageInv, StateOK
  <2>2. /\ page.status \in {"loading", "signed_out", "signed_in"}
        /\ {page.me, page.profile, page.suggestions, page.selected.account, page.issued, draft} \subseteq Someone
    BY <2>1 DEF Pages, Selections
  <2>3. ASSUME ~ShownSignedIn PROVE [page EXCEPT !.issued = Nobody] = EmptyPage(page.status)
    <3>1. [page EXCEPT !.issued = Nobody]
            = [status |-> page.status, me |-> page.me, profile |-> page.profile,
               suggestions |-> page.suggestions, selected |-> page.selected, issued |-> Nobody,
               seen |-> page.seen]
      BY <2>1 DEF Pages
    <3>2. /\ page.me = Nobody /\ page.profile = Nobody /\ page.suggestions = Nobody
          /\ page.selected = NoSelection /\ page.seen = 0
      BY <2>1, <2>3 DEF ShownOK
    <3> QED BY <3>1, <3>2 DEF EmptyPage
  <2> QED BY <2>1, <2>2, <2>3 DEF ListsLeaveWithAccount, ShownOK
<1> QED BY <1>1, PageInvHolds, PTL

(* What the API has done for a settled page was done in the name of the    *)
(* account shown, and a decision always about the account named            *)
(* (App.tsx:1009, index.ts:513).                                           *)
THEOREM OrdersInOwnNameHolds == DashboardSpec => []OrdersInOwnName
<1>1. PageInv => OrdersInOwnName
  <2> SUFFICES ASSUME PageInv, NEW i \in DOMAIN orders, orders[i].stage = "done"
               PROVE  /\ orders[i].settled /\ TakesNotice(orders[i].kind) => Actor(orders[i]) = orders[i].who
                      /\ orders[i].settled /\ orders[i].kind = "save" => orders[i].of = Actor(orders[i])
                      /\ orders[i].kind = "decide" => orders[i].of = orders[i].selection.account
    BY DEF OrdersInOwnName
  <2> DEFINE o == orders[i]
  <2>1. OrderOK(o)
    BY DEF PageInv, UnderWay
  <2>2. TakesNotice(o.kind) => Actor(o) = sessions[o.cred] /\ o.cred # 0
    BY <2>1 DEF OrderOK, TakesNotice, Actor, SignsIn, AccountOf
  <2>3. o.kind = "save" => TakesNotice(o.kind)
    BY DEF TakesNotice
  <2> QED BY <2>1, <2>2, <2>3 DEF OrderOK
<1> QED BY <1>1, PageInvHolds, PTL

(* A settled page shows the account of its cookie and, once no order is on *)
(* its way, all that was done but the tokens issued since (App.tsx:129,    *)
(* 304).                                                                   *)
THEOREM SettledPageIsCurrentHolds == DashboardSpec => []SettledPageIsCurrent
<1>1. PageInv => SettledPageIsCurrent
  <2>1. orders = <<>> => ~Unseen
    BY DEF Unseen
  <2> QED BY <2>1 DEF PageInv, AloneOK, SettledPageIsCurrent, Settled, Lacks
<1> QED BY <1>1, PageInvHolds, PTL

-----------------------------------------------------------------------------
(* The development console's page                                          *)

(* A finite set of numbers that is not empty has a greatest member.        *)
LEMMA MaxOfNumbers ==
  ASSUME NEW n \in Nat, NEW S \in SUBSET (0 .. n), S # {}
  PROVE  Max(S) \in S
<1> DEFINE Above(x) == {y \in S : y > x}
           T == {Above(x) : x \in S}
<1>1. IsFiniteSet(S)
  <2>1. IsFiniteSet(0 .. n)
    BY FS_Interval
  <2>2. QED
    BY <2>1, FS_Subset
<1>2. IsWellFoundedOn(StrictSubsetOrdering(S), SUBSET S)
  BY <1>1, FS_StrictSubsetOrderingWellFounded, FS_FiniteSubsetsOfFinite
<1>3. T \subseteq SUBSET S /\ T # {}
  OBVIOUS
<1>4. PICK A \in T : \A B \in T : ~(<<B, A>> \in StrictSubsetOrdering(S))
  <2> HIDE DEF T
  <2>1. QED
    BY <1>2, <1>3, WFMin
<1>5. PICK m \in S : A = Above(m)
  OBVIOUS
<1>6. ASSUME NEW y \in S PROVE m >= y
  <2>1. CASE y > m
    <3>1. Above(y) \subseteq Above(m) /\ y \in Above(m) /\ y \notin Above(y)
      <4>1. S \subseteq Int
        OBVIOUS
      <4>2. \A z \in S : z > y => z > m
        BY <2>1, <4>1
      <4>3. ~(y > y)
        BY <4>1
      <4>4. QED
        BY <2>1, <4>2, <4>3
    <3>2. Above(y) \in T /\ Above(y) \in SUBSET S /\ Above(m) \in SUBSET S
      OBVIOUS
    <3>3. <<Above(y), Above(m)>> \in StrictSubsetOrdering(S)
      <4> HIDE DEF Above
      <4>1. QED
        BY <3>1, <3>2 DEF StrictSubsetOrdering
    <3>4. QED
      BY <1>4, <1>5, <3>2, <3>3
  <2>2. QED
    BY <2>1
<1>7. QED
  BY <1>6 DEF Max
-----------------------------------------------------------------------------
(* The types of the page's state.                                          *)
ConsoleStateOK ==
  /\ watched \in Slices /\ me \in Who /\ holder \in Who /\ asks \in 0 .. 2
  /\ loading \in BOOLEAN /\ server \in Nat \ {0}
  /\ shown \in [Sections -> 0 .. server]
  /\ selected \in [Lanes -> 0 .. (server - 1)]
  /\ detail \in [Lanes -> 0 .. (server - 1)]

(* A request, or the load, at clock n: it is no younger than the clock, and *)
(* whatever it carries the page has shown or the lists have held.          *)
RequestFits(r, n) ==
  /\ r = [job |-> r.job, about |-> r.about, old |-> r.old, sel |-> r.sel,
          handler |-> r.handler, kept |-> r.kept, since |-> r.since, ok |-> r.ok]
  /\ r.since \in 1 .. n /\ r.sel \in 0 .. (n - 1) /\ r.kept \in 0 .. (n - 1)
  /\ r.job \in {"list", "retry", "hydrate", "detail", "choose", "order"}
  /\ r.job \in {"list", "retry", "hydrate"} => r.about \in Sections /\ r.old \in 0 .. n
  /\ r.job \in {"detail", "choose", "order"} => r.about \in Lanes /\ r.old \in 0 .. (n - 1)
LoadFits(load, n) ==
  /\ load.since \in 1 .. n /\ load.old \in 0 .. n
  /\ load.sel \in 0 .. (n - 1) /\ load.next.id \in 0 .. (n - 1)

(* What has been asked for when it lands is no older than what is shown:   *)
(* neither in the answer nor in what is kept when there is none.           *)
PrimaryAhead == shown["coordination"] <= primary.old /\ primary.old <= primary.since
Asking(r) == r.job \in {"list", "retry"}
DecksRequest(r) == r.job = "list" /\ r.about = "decks"
DecksAhead(r) == shown["decks"] <= r.old /\ r.old <= r.since
AskedOnce == \A q, r \in pending : Asking(q) /\ Asking(r) /\ q.about = r.about => q = r

ConsoleInv ==
  /\ ConsoleStateOK
  /\ \A r \in pending : RequestFits(r, server)
  /\ Busy => LoadFits(primary, server) /\ PrimaryAhead
  /\ AskedOnce
  /\ \A r \in pending : DecksRequest(r) => DecksAhead(r)
  /\ loading => asks > 0 \/ Busy

-----------------------------------------------------------------------------
(* What fits the clock fits a later clock.                                 *)
LEMMA FitsLater ==
  ASSUME NEW n \in Nat, NEW m \in Nat, n <= m
  PROVE  /\ \A r : RequestFits(r, n) => RequestFits(r, m)
         /\ \A l : LoadFits(l, n) => LoadFits(l, m)
BY DEF RequestFits, LoadFits

(* The run at the head of a list is one of those the clock has seen.       *)
LEMMA NewestInList ==
  ASSUME NEW n \in Nat \ {0}, NEW v \in 0 .. n
  PROVE  Newest(v) \in 0 .. (n - 1)
BY DEF Newest

(* So is the run that a load leaves selected.                              *)
LEMMA NextRunInList ==
  ASSUME NEW n \in Nat \ {0}, NEW v \in 0 .. n, NEW sel \in 0 .. (n - 1)
  PROVE  NextRun(sel, v) \in 0 .. (n - 1)
BY NewestInList DEF NextRun

(* So is the run preferred for the preview.                                *)
LEMMA PreferredInList ==
  ASSUME NEW n \in Nat \ {0}, NEW v \in 0 .. n, NEW sel \in 0 .. (n - 1)
  PROVE  Preferred(v, sel) \in 0 .. (n - 1)
<1> DEFINE rendered == Rendered \cap ListAt(v)
           started == ListAt(v) \ Planned
<1>1. /\ rendered \in SUBSET (0 .. (n - 1)) /\ started \in SUBSET (0 .. (n - 1))
      /\ n - 1 \in Nat
  BY DEF ListAt
<1>2. Preferred(v, sel) = IF sel \in ListAt(v) THEN sel
                          ELSE IF rendered # {} THEN Max(rendered)
                          ELSE IF started # {} THEN Max(started)
                          ELSE Newest(v)
  BY DEF Preferred
<1> HIDE DEF rendered, started
<1>3. /\ rendered # {} => Max(rendered) \in 0 .. (n - 1)
      /\ started # {} => Max(started) \in 0 .. (n - 1)
  BY <1>1, MaxOfNumbers
<1>4. Newest(v) \in 0 .. (n - 1)
  BY NewestInList
<1>5. QED
  BY <1>2, <1>3, <1>4

(* An answer is no older than its request, or is what is kept instead.     *)
LEMMA AnswerFits ==
  ASSUME NEW r, NEW n \in Nat \ {0}, server = n, r.since \in 1 .. n, r.old \in 0 .. n,
         NEW answer \in Answers(r)
  PROVE  /\ answer.v \in 0 .. n
         /\ r.old <= r.since => r.old <= answer.v
BY DEF Answers

(* A request carries what it was given, at the clock.                      *)
LEMMA RequestMade ==
  ASSUME ConsoleStateOK,
         NEW job \in {"list", "hydrate", "detail", "choose", "order"}, NEW about,
         NEW old \in 0 .. server, NEW sel \in 0 .. (server - 1),
         job \in {"list", "hydrate"} => about \in Sections,
         job \in {"detail", "choose", "order"} => about \in Lanes /\ old \in 0 .. (server - 1)
  PROVE  LET r == Request(job, about, old, sel)
         IN  /\ RequestFits(r, server)
             /\ r.job = job /\ r.about = about /\ r.old = old /\ r.since = server
<1>1. detail["review"] \in 0 .. (server - 1) /\ server \in Nat \ {0}
  BY DEF ConsoleStateOK, Lanes
<1>2. QED
  BY <1>1 DEF Request, RequestFits

(* What the caller of a load does next keeps the lanes' types.             *)
LEMMA CallerNext ==
  ASSUME NEW n \in Nat, NEW next, next.id \in 0 .. n,
         NEW sel \in [Lanes -> 0 .. n], detail \in [Lanes -> 0 .. n]
  PROVE  /\ SelectedAfter(next, sel) \in [Lanes -> 0 .. n]
         /\ DetailAfter(next) \in [Lanes -> 0 .. n]
BY DEF SelectedAfter, DetailAfter

-----------------------------------------------------------------------------
(* What a step has to keep, besides the types: the clock does not go back, *)
(* the load stays or ends, what is new among the requests fits, and the    *)
(* lists are asked for once and ahead of what is shown.                    *)
LEMMA StepKeepsInv ==
  ASSUME ConsoleInv, ConsoleStateOK', server <= server',
         loading' => asks' > 0 \/ Busy',
         \/ ~Busy'
         \/ primary' = primary /\ shown'["coordination"] <= shown["coordination"],
         \A r \in pending' : r \in pending \/ RequestFits(r, server'),
         AskedOnce',
         \A r \in pending' : DecksRequest(r) => DecksAhead(r)'
  PROVE  ConsoleInv'
<1>1. server \in Nat /\ server' \in Nat
  BY DEF ConsoleInv, ConsoleStateOK
<1>2. \A r \in pending' : RequestFits(r, server')
  BY <1>1, FitsLater DEF ConsoleInv
<1>3. ASSUME Busy' PROVE LoadFits(primary', server') /\ PrimaryAhead'
  <2>1. /\ Busy /\ primary' = primary
        /\ shown'["coordination"] <= shown["coordination"]
    BY <1>3 DEF Busy
  <2>2. LoadFits(primary, server) /\ PrimaryAhead
    BY <2>1 DEF ConsoleInv
  <2>3. LoadFits(primary, server')
    BY <1>1, <2>2, FitsLater
  <2>4. /\ shown["coordination"] \in Nat /\ shown'["coordination"] \in Nat
    BY <1>1 DEF ConsoleInv, ConsoleStateOK, Sections
  <2>5. primary.old \in Nat
    BY <1>1, <2>2 DEF LoadFits
  <2>6. PrimaryAhead'
    BY <2>1, <2>2, <2>4, <2>5 DEF PrimaryAhead
  <2>7. QED
    BY <2>1, <2>3, <2>6
<1>4. QED
  BY <1>2, <1>3 DEF ConsoleInv

(* A step that asks for no list leaves the lists asked for once and ahead. *)
LEMMA NoListAsked ==
  ASSUME ConsoleInv, ConsoleStateOK', shown'["decks"] <= shown["decks"],
         \A r \in pending' : r \in pending \/ ~Asking(r)
  PROVE  /\ AskedOnce'
         /\ \A r \in pending' : DecksRequest(r) => DecksAhead(r)'
<1>1. AskedOnce'
  BY DEF ConsoleInv, AskedOnce
<1>2. ASSUME NEW r \in pending', DecksRequest(r) PROVE DecksAhead(r)'
  <2>1. r \in pending
    BY <1>2 DEF DecksRequest, Asking
  <2>2. DecksAhead(r) /\ RequestFits(r, server)
    BY <1>2, <2>1 DEF ConsoleInv
  <2>3. /\ shown["decks"] \in Int /\ shown'["decks"] \in Int /\ server \in Int
    BY DEF ConsoleInv, ConsoleStateOK, Sections
  <2>4. r.old \in Int
    BY <1>2, <2>2, <2>3 DEF RequestFits, DecksRequest
  <2>5. QED
    BY <2>2, <2>3, <2>4 DEF DecksAhead
<1>3. QED
  BY <1>1, <1>2

(* A list's request or retry timer gives way to at most one for the same   *)
(* list, and to requests for no list.                                      *)
LEMMA ListReplaced ==
  ASSUME ConsoleInv, ConsoleStateOK', NEW r \in pending, Asking(r), NEW more,
         pending' = (pending \ {r}) \cup more,
         \A q \in more : Asking(q) => q.about = r.about,
         \A p, q \in more : Asking(p) /\ Asking(q) => p = q,
         \/ shown'["decks"] = shown["decks"]
         \/ r.about = "decks",
         \A q \in more : DecksRequest(q) => DecksAhead(q)'
  PROVE  /\ AskedOnce'
         /\ \A q \in pending' : DecksRequest(q) => DecksAhead(q)'
<1>1. \A q \in pending : Asking(q) /\ q.about = r.about => q = r
  BY DEF ConsoleInv, AskedOnce
<1>2. AskedOnce'
  <2> SUFFICES ASSUME NEW p \in pending', NEW q \in pending',
                      Asking(p), Asking(q), p.about = q.about
               PROVE  p = q
    BY DEF AskedOnce
  <2>1. CASE p \in more /\ q \in more
    BY <2>1
  <2>2. CASE p \in pending \ {r} /\ q \in pending \ {r}
    BY <2>2 DEF ConsoleInv, AskedOnce
  <2>3. CASE p \in pending \ {r} /\ q \in more
    BY <1>1, <2>3
  <2>4. CASE p \in more /\ q \in pending \ {r}
    BY <1>1, <2>4
  <2>5. QED
    BY <2>1, <2>2, <2>3, <2>4
<1>3. ASSUME NEW q \in pending', DecksRequest(q) PROVE DecksAhead(q)'
  <2>1. CASE q \in more
    BY <1>3, <2>1
  <2>2. CASE q \in pending \ {r}
    <3>1. r.about # "decks"
      BY <1>1, <1>3, <2>2 DEF DecksRequest, Asking
    <3>2. shown'["decks"] = shown["decks"] /\ DecksAhead(q)
      BY <1>3, <2>2, <3>1 DEF ConsoleInv
    <3>3. QED
      BY <3>2 DEF DecksAhead
  <2>3. QED
    BY <2>1, <2>2
<1>4. QED
  BY <1>2, <1>3

(* A load that begins drops the requests of older loads, and asks ahead of *)
(* what is shown.                                                          *)
LEMMA LoadBegun ==
  ASSUME ConsoleInv, ConsoleStateOK', server <= server', UNCHANGED shown,
         NEW sel \in 0 .. (server - 1), NEW next, next.id \in 0 .. (server' - 1),
         NEW others, BeginLoad(sel, next, others)
  PROVE  ConsoleInv'
<1>1. server \in Nat \ {0} /\ server' \in Nat \ {0}
  BY DEF ConsoleInv, ConsoleStateOK
<1>2. primary' = [since |-> server, ok |-> holder = "admin",
                  old |-> shown["coordination"],
                  sel |-> IF sel # 0 THEN sel ELSE selected["run"],
                  next |-> next]
  BY DEF BeginLoad
<1>3. shown["coordination"] \in 0 .. server /\ selected["run"] \in 0 .. (server - 1)
  BY DEF ConsoleInv, ConsoleStateOK, Sections, Lanes
<1>4. /\ primary'.since = server /\ primary'.old = shown["coordination"]
      /\ primary'.sel \in 0 .. (server - 1) /\ primary'.next = next
  BY <1>2, <1>3
<1>5. Busy' /\ LoadFits(primary', server') /\ PrimaryAhead'
  <2>1. primary' # NoLoad
    BY <1>1, <1>4 DEF NoLoad
  <2>2. LoadFits(primary', server')
    BY <1>1, <1>3, <1>4 DEF LoadFits
  <2>3. PrimaryAhead'
    BY <1>1, <1>3, <1>4 DEF PrimaryAhead
  <2>4. QED
    BY <2>1, <2>2, <2>3 DEF Busy
<1> DEFINE Sel(s) == IF s = "previews" THEN selected["preview"]
                     ELSE IF s = "profile" THEN selected["review"] ELSE 0
           AskOf(s) == Request("list", s, shown[s], Sel(s))
           Lists == {watched} \cap Sections
<1>6. pending' = (Survivors \ others) \cup {AskOf(s) : s \in Lists}
  BY DEF BeginLoad
<1>7. ASSUME NEW s \in Lists
      PROVE  /\ RequestFits(AskOf(s), server) /\ AskOf(s).job = "list"
             /\ AskOf(s).about = s /\ AskOf(s).old = shown[s] /\ AskOf(s).since = server
             /\ shown[s] \in 0 .. server
  <2>1. shown[s] \in 0 .. server /\ Sel(s) \in 0 .. (server - 1)
    BY <1>1 DEF ConsoleInv, ConsoleStateOK, Sections, Lanes
  <2> HIDE DEF Sel
  <2>2. ConsoleStateOK /\ s \in Sections
    BY DEF ConsoleInv
  <2>3. QED
    BY <2>1, <2>2, RequestMade
<1> HIDE DEF AskOf, Lists
<1>8. \A r \in Survivors : r \in pending /\ ~Asking(r)
  BY DEF Survivors, OfLoad, Asking
<1>9. \A r \in pending' : RequestFits(r, server')
  <2>1. \A r \in pending' : RequestFits(r, server)
    BY <1>6, <1>7, <1>8 DEF ConsoleInv
  <2>2. QED
    BY <1>1, <2>1, FitsLater
<1>10. AskedOnce'
  <2>1. \A r \in pending' : Asking(r) => r = AskOf(watched)
    BY <1>6, <1>8 DEF Lists
  <2>2. QED
    BY <2>1 DEF AskedOnce
<1>11. ASSUME NEW r \in pending', DecksRequest(r) PROVE DecksAhead(r)'
  <2>1. PICK s \in Lists : r = AskOf(s)
    BY <1>6, <1>8, <1>11 DEF DecksRequest, Asking
  <2>2. s = "decks" /\ r.old = shown["decks"] /\ r.since = server
    BY <1>7, <1>11, <2>1 DEF DecksRequest
  <2>3. QED
    BY <1>1, <1>7, <2>1, <2>2 DEF DecksAhead
<1>12. QED
  BY <1>5, <1>9, <1>10, <1>11 DEF ConsoleInv

-----------------------------------------------------------------------------
(* The caller goes on although its load was not begun.                     *)
LEMMA ReturnedAtOnce ==
  ASSUME ConsoleInv, NEW n \in Nat, server - 1 <= n, NEW next, next.id \in 0 .. n,
         ReturnsAtOnce(next)
  PROVE  /\ selected' \in [Lanes -> 0 .. n] /\ detail' \in [Lanes -> 0 .. n]
         /\ Busy /\ UNCHANGED <<loading, primary>>
<1>1. selected \in [Lanes -> 0 .. n] /\ detail \in [Lanes -> 0 .. n]
  BY DEF ConsoleInv, ConsoleStateOK
<1>2. QED
  BY <1>1, CallerNext DEF ReturnsAtOnce

(* The session: who is signed in, and the load its check begins.           *)
LEMMA SessionKeepsInv ==
  ASSUME ConsoleInv, UNCHANGED watched,
         SignIn \/ SessionAnswered \/ SessionFails \/ SignOut \/ CookieExpires
  PROVE  ConsoleInv'
<1>0. /\ ConsoleStateOK /\ server \in Nat \ {0} /\ asks \in 0 .. 2
      /\ NoRuns \in [Lanes -> 0 .. (server - 1)]
      /\ shown["coordination"] >= 0 /\ shown["decks"] >= 0
  BY DEF ConsoleInv, ConsoleStateOK, NoRuns, Sections
<1>1. ASSUME ConsoleStateOK', server' = server, loading' => asks' > 0 \/ Busy',
             primary' = primary, pending' = pending,
             shown' = shown \/ shown' = NullSections
      PROVE  ConsoleInv'
  <2>1. /\ shown'["decks"] <= shown["decks"]
        /\ shown'["coordination"] <= shown["coordination"]
    BY <1>0, <1>1 DEF ConsoleStateOK, NullSections, Sections
  <2>2. /\ AskedOnce' /\ \A r \in pending' : DecksRequest(r) => DecksAhead(r)'
    BY <1>1, <2>1, NoListAsked
  <2>3. server <= server'
    BY <1>0, <1>1
  <2>4. QED
    BY <1>1, <2>1, <2>2, <2>3, StepKeepsInv
<1>2. CASE SignIn
  <2>1. ConsoleStateOK'
    BY <1>0, <1>2 DEF SignIn, AskSession, ConsoleStateOK, Who
  <2>2. asks' > 0
    BY <1>0, <1>2 DEF SignIn, AskSession
  <2>3. QED
    BY <1>1, <1>2, <2>1, <2>2 DEF SignIn
<1>3. CASE SessionFails
  <2>1. asks' \in 0 .. 2 /\ me' \in Who /\ loading' = FALSE
    BY <1>0, <1>3 DEF SessionFails, Who
  <2>2. ConsoleStateOK'
    BY <1>0, <1>3, <2>1 DEF SessionFails, ConsoleStateOK
  <2>3. QED
    BY <1>1, <1>3, <2>1, <2>2 DEF SessionFails
<1>4. CASE SignOut
  <2>1. selected' \in [Lanes -> 0 .. (server - 1)]
    BY <1>0, <1>4 DEF SignOut, ConsoleStateOK, Lanes
  <2>2. NullSections \in [Sections -> 0 .. server]
    BY <1>0 DEF NullSections
  <2>3. ConsoleStateOK'
    BY <1>0, <1>4, <2>1, <2>2 DEF SignOut, ConsoleStateOK, Who
  <2>4. loading' => asks' > 0 \/ Busy'
    BY <1>4 DEF SignOut, ConsoleInv, Busy
  <2>5. QED
    BY <1>1, <1>4, <2>3, <2>4 DEF SignOut
<1>5. CASE CookieExpires
  <2>1. ConsoleStateOK'
    BY <1>0, <1>5 DEF CookieExpires, ConsoleStateOK, Who
  <2>2. loading' => asks' > 0 \/ Busy'
    BY <1>5 DEF CookieExpires, ConsoleInv, Busy
  <2>3. QED
    BY <1>1, <1>5, <2>1, <2>2 DEF CookieExpires
<1>6. CASE SessionAnswered
  <2>1. /\ asks' \in 0 .. 2 /\ me' \in Who
        /\ UNCHANGED <<holder, server, shown>>
    BY <1>0, <1>6 DEF SessionAnswered, ConsoleStateOK
  <2>2. CASE holder # "admin"
    <3>1. /\ loading' = FALSE /\ UNCHANGED <<selected, detail, primary, pending>>
      BY <1>6, <2>2 DEF SessionAnswered, StillLoading
    <3>2. ConsoleStateOK'
      BY <1>0, <2>1, <3>1 DEF ConsoleStateOK
    <3>3. QED
      BY <1>1, <2>1, <3>1, <3>2
  <2>3. CASE holder = "admin" /\ ~Busy
    <3>1. /\ BeginLoad(0, Session, {}) /\ UNCHANGED <<selected, detail>>
      BY <1>6, <2>3 DEF SessionAnswered, ReturnsAtOnce
    <3>2. ConsoleStateOK'
      BY <1>0, <2>1, <3>1 DEF ConsoleStateOK, BeginLoad
    <3>3. /\ Session.id \in 0 .. (server' - 1) /\ 0 \in 0 .. (server - 1)
          /\ server <= server'
      BY <1>0, <2>1 DEF Session, Return
    <3>4. QED
      BY <2>1, <3>1, <3>2, <3>3, LoadBegun
  <2>4. CASE holder = "admin" /\ Busy
    <3>1. ReturnsAtOnce(Session) /\ UNCHANGED pending
      BY <1>6, <2>4 DEF SessionAnswered
    <3>2. Session.id \in 0 .. (server - 1) /\ server - 1 \in Nat /\ server - 1 <= server - 1
      BY <1>0 DEF Session, Return
    <3>3. /\ selected' \in [Lanes -> 0 .. (server - 1)]
          /\ detail' \in [Lanes -> 0 .. (server - 1)]
          /\ Busy /\ UNCHANGED <<loading, primary>>
      <4> DEFINE n == server - 1
      <4>1. n \in Nat /\ server - 1 <= n /\ Session.id \in 0 .. n
        BY <3>2
      <4> HIDE DEF n
      <4>2. /\ selected' \in [Lanes -> 0 .. n] /\ detail' \in [Lanes -> 0 .. n]
            /\ Busy /\ UNCHANGED <<loading, primary>>
        BY <3>1, <4>1, ReturnedAtOnce
      <4>3. QED
        BY <4>2 DEF n
    <3>4. ConsoleStateOK'
      BY <1>0, <2>1, <3>3 DEF ConsoleStateOK
    <3>5. Busy'
      BY <3>3 DEF Busy
    <3>6. QED
      BY <1>1, <2>1, <3>1, <3>3, <3>4, <3>5
  <2>5. QED
    BY <2>2, <2>3, <2>4
<1>7. QED
  BY <1>2, <1>3, <1>4, <1>5, <1>6

(* The load ends: its lists are shown, its caller goes on, and the run's   *)
(* detail is asked for.                                                    *)
LEMMA PrimaryKeepsInv ==
  ASSUME ConsoleInv, UNCHANGED watched, PrimaryLands
  PROVE  ConsoleInv'
<1>1. /\ ConsoleStateOK /\ server \in Nat \ {0} /\ server - 1 \in Nat
      /\ Busy /\ LoadFits(primary, server) /\ PrimaryAhead
  BY DEF ConsoleInv, ConsoleStateOK, PrimaryLands
<1> DEFINE Run(answer) == NextRun(primary.sel, answer.v)
<1>2. PICK answer \in Answers(primary) :
        /\ shown' = [shown EXCEPT !["coordination"] = answer.v]
        /\ selected' = SelectedAfter(primary.next, [selected EXCEPT !["run"] = Run(answer)])
        /\ detail' = DetailAfter(primary.next)
        /\ pending' = pending \cup AskRunDetail(Run(answer))
  BY DEF PrimaryLands
<1>3. answer.v \in 0 .. server
  BY <1>1, AnswerFits DEF LoadFits
<1>4. Run(answer) \in 0 .. (server - 1)
  BY <1>1, <1>3, NextRunInList DEF LoadFits
<1> HIDE DEF Run
<1>5. /\ loading' = FALSE /\ primary' = NoLoad /\ UNCHANGED <<me, holder, asks, server>>
  BY DEF PrimaryLands
<1>6. ConsoleStateOK'
  <2> DEFINE n == server - 1
             sel == [selected EXCEPT !["run"] = Run(answer)]
  <2>1. /\ n \in Nat /\ primary.next.id \in 0 .. n /\ detail \in [Lanes -> 0 .. n]
        /\ sel \in [Lanes -> 0 .. n]
    BY <1>1, <1>4 DEF LoadFits, ConsoleStateOK
  <2> HIDE DEF n, sel
  <2>2. /\ SelectedAfter(primary.next, sel) \in [Lanes -> 0 .. n]
        /\ DetailAfter(primary.next) \in [Lanes -> 0 .. n]
    BY <2>1, CallerNext
  <2>3. selected' \in [Lanes -> 0 .. (server - 1)] /\ detail' \in [Lanes -> 0 .. (server - 1)]
    BY <1>2, <2>2 DEF n, sel
  <2>4. shown' \in [Sections -> 0 .. server]
    BY <1>1, <1>2, <1>3 DEF ConsoleStateOK
  <2>5. QED
    BY <1>1, <1>5, <2>3, <2>4 DEF ConsoleStateOK
<1>7. \A r \in AskRunDetail(Run(answer)) : RequestFits(r, server) /\ ~Asking(r)
  <2> SUFFICES ASSUME NEW lane \in {"run"} \cap WatchedLanes
               PROVE  LET r == Request("detail", lane, detail["run"], Run(answer))
                      IN  RequestFits(r, server) /\ ~Asking(r)
    BY DEF AskRunDetail
  <2>1. lane \in Lanes /\ detail["run"] \in 0 .. (server - 1) /\ detail["run"] \in 0 .. server
    BY <1>1 DEF ConsoleStateOK, Lanes
  <2>2. QED
    BY <1>1, <1>4, <2>1, RequestMade DEF Asking
<1>8. shown'["decks"] <= shown["decks"]
  <2>1. shown'["decks"] = shown["decks"] /\ shown["decks"] \in Nat
    BY <1>1, <1>2 DEF ConsoleStateOK, Sections
  <2>2. QED
    BY <2>1
<1>9. /\ AskedOnce' /\ \A r \in pending' : DecksRequest(r) => DecksAhead(r)'
  BY <1>2, <1>6, <1>7, <1>8, NoListAsked
<1>10. /\ \A r \in pending' : r \in pending \/ RequestFits(r, server')
       /\ ~Busy' /\ server <= server'
  BY <1>1, <1>2, <1>5, <1>7 DEF Busy
<1>11. QED
  BY <1>5, <1>6, <1>9, <1>10, StepKeepsInv

-----------------------------------------------------------------------------
(* What a step that leaves the session, the load and the clock keeps.      *)
Undisturbed == UNCHANGED <<watched, me, holder, asks, loading, server, primary>>

(* Such a step keeps the types, and the invariant if the requests it adds  *)
(* fit the clock and ask for no list twice or behind what is shown.        *)
LEMMA UndisturbedKeepsInv ==
  ASSUME ConsoleInv, Undisturbed,
         shown' \in [Sections -> 0 .. server],
         selected' \in [Lanes -> 0 .. (server - 1)],
         detail' \in [Lanes -> 0 .. (server - 1)]
  PROVE  /\ ConsoleStateOK'
         /\ /\ shown'["coordination"] <= shown["coordination"]
            /\ \A r \in pending' : r \in pending \/ RequestFits(r, server)
            /\ AskedOnce'
            /\ \A r \in pending' : DecksRequest(r) => DecksAhead(r)'
            => ConsoleInv'
<1>1. ConsoleStateOK' /\ server' = server /\ server <= server'
  BY DEF ConsoleInv, ConsoleStateOK, Undisturbed
<1>2. loading' => asks' > 0 \/ Busy'
  BY DEF ConsoleInv, Undisturbed, Busy
<1>3. primary' = primary
  BY DEF Undisturbed
<1>4. QED
  BY <1>1, <1>2, <1>3, StepKeepsInv

(* The same when no list is asked for and no load's section is written.    *)
LEMMA QuietStepKeepsInv ==
  ASSUME ConsoleInv, Undisturbed,
         shown' \in [Sections -> 0 .. server],
         selected' \in [Lanes -> 0 .. (server - 1)],
         detail' \in [Lanes -> 0 .. (server - 1)],
         shown'["coordination"] = shown["coordination"],
         shown'["decks"] = shown["decks"],
         \A r \in pending' : r \in pending \/ (RequestFits(r, server) /\ ~Asking(r))
  PROVE  ConsoleInv'
<1>1. /\ shown["coordination"] \in Nat /\ shown["decks"] \in Nat
      /\ ConsoleStateOK'
  BY UndisturbedKeepsInv DEF ConsoleInv, ConsoleStateOK, Sections
<1>2. /\ shown'["coordination"] <= shown["coordination"]
      /\ shown'["decks"] <= shown["decks"]
  BY <1>1
<1>3. /\ AskedOnce' /\ \A r \in pending' : DecksRequest(r) => DecksAhead(r)'
  BY <1>1, <1>2, NoListAsked
<1>4. QED
  BY <1>2, <1>3, UndisturbedKeepsInv

(* What is known of a request that is answered.                            *)
LEMMA RequestAnswered ==
  ASSUME ConsoleInv, NEW r \in pending, NEW answer \in Answers(r)
  PROVE  /\ RequestFits(r, server) /\ server \in Nat \ {0}
         /\ answer.v \in 0 .. server
         /\ r.old <= r.since => r.old <= answer.v
         /\ shown \in [Sections -> 0 .. server]
         /\ selected \in [Lanes -> 0 .. (server - 1)]
         /\ detail \in [Lanes -> 0 .. (server - 1)]
<1>1. RequestFits(r, server) /\ server \in Nat \ {0}
  BY DEF ConsoleInv, ConsoleStateOK
<1>2. r.since \in 1 .. server /\ r.old \in 0 .. server
  BY <1>1 DEF RequestFits
<1>3. /\ answer.v \in 0 .. server
      /\ r.old <= r.since => r.old <= answer.v
  BY <1>1, <1>2, AnswerFits
<1>4. QED
  BY <1>1, <1>3 DEF ConsoleInv, ConsoleStateOK

(* A list that came empty is asked for again by a timer, and the timer      *)
(* asks for what is shown then.                                            *)
LEMMA TimerFits ==
  ASSUME NEW n \in Nat, NEW r, RequestFits(r, n), r.job = "list"
  PROVE  /\ RequestFits(RetryTimer(r), n) /\ RetryTimer(r).job = "retry"
         /\ RetryTimer(r).about = r.about
<1>1. r = [job |-> r.job, about |-> r.about, old |-> r.old, sel |-> r.sel,
           handler |-> r.handler, kept |-> r.kept, since |-> r.since, ok |-> r.ok]
  BY DEF RequestFits
<1>2. RetryTimer(r)
        = [job |-> "retry", about |-> r.about, old |-> r.old, sel |-> r.sel,
           handler |-> r.handler, kept |-> r.kept, since |-> r.since, ok |-> r.ok]
  BY <1>1 DEF RetryTimer
<1>3. QED
  BY <1>2 DEF RequestFits

-----------------------------------------------------------------------------
(* The lists of a load arrive: decks.                                      *)
LEMMA DecksKeepInv ==
  ASSUME ConsoleInv, UNCHANGED watched, DecksLand
  PROVE  ConsoleInv'
<1>1. PICK r, answer :
        /\ r \in pending /\ answer \in Answers(r)
        /\ r.job = "list" /\ r.about = "decks"
        /\ shown' = [shown EXCEPT !["decks"] = answer.v]
        /\ Arrives(r, answer, IF answer.v # 0 /\ AskAgain(r, answer.v) THEN {RetryTimer(r)} ELSE {})
  BY DEF DecksLand
<1>2. UNCHANGED <<me, holder, asks, loading, server, selected, detail, primary>>
  BY DEF DecksLand
<1>3. /\ RequestFits(r, server) /\ server \in Nat \ {0} /\ answer.v \in 0 .. server
      /\ shown \in [Sections -> 0 .. server]
      /\ selected \in [Lanes -> 0 .. (server - 1)] /\ detail \in [Lanes -> 0 .. (server - 1)]
  BY <1>1, RequestAnswered
<1>4. /\ shown' \in [Sections -> 0 .. server]
      /\ shown'["coordination"] <= shown["coordination"]
  BY <1>1, <1>3 DEF Sections
<1>5. PICK more \in SUBSET {RetryTimer(r)} : pending' = (pending \ {r}) \cup more
  <2>1. PICK b \in BOOLEAN : pending' = (pending \ {r}) \cup (IF b THEN {RetryTimer(r)} ELSE {})
    BY <1>1 DEF Arrives
  <2>2. QED
    BY <2>1
<1>6. /\ RequestFits(RetryTimer(r), server) /\ RetryTimer(r).job = "retry"
      /\ RetryTimer(r).about = r.about /\ Asking(r)
  BY <1>1, <1>3, TimerFits DEF Asking
<1>7. Undisturbed
  BY <1>2 DEF Undisturbed
<1>8. ConsoleStateOK'
  BY <1>2, <1>3, <1>4, <1>7, UndisturbedKeepsInv
<1>9. \A q \in more : q = RetryTimer(r) /\ ~DecksRequest(q)
  BY <1>6 DEF DecksRequest
<1>10. /\ AskedOnce' /\ \A q \in pending' : DecksRequest(q) => DecksAhead(q)'
  <2>1. /\ \A q \in more : Asking(q) => q.about = r.about
        /\ \A p, q \in more : Asking(p) /\ Asking(q) => p = q
        /\ \A q \in more : DecksRequest(q) => DecksAhead(q)'
    BY <1>6, <1>9
  <2>2. QED
    BY <1>1, <1>5, <1>6, <1>8, <2>1, ListReplaced
<1>11. \A q \in pending' : q \in pending \/ RequestFits(q, server)
  BY <1>5, <1>6, <1>9
<1>12. QED
  BY <1>2, <1>3, <1>4, <1>7, <1>10, <1>11, UndisturbedKeepsInv

(* The preview runs.                                                       *)
LEMMA PreviewsKeepInv ==
  ASSUME ConsoleInv, UNCHANGED watched, PreviewsLand
  PROVE  ConsoleInv'
<1> DEFINE Run(r, answer) == Preferred(answer.v, r.sel)
           Chosen(r, answer) == Request("detail", "preview", 0, Run(r, answer))
<1>1. PICK r, answer :
        /\ r \in pending /\ answer \in Answers(r)
        /\ r.job = "list" /\ r.about = "previews"
        /\ \/ /\ shown' = [shown EXCEPT !["previews"] = 0]
              /\ Arrives(r, answer, {RetryTimer(r)})
              /\ UNCHANGED <<selected, detail>>
           \/ /\ shown' = [shown EXCEPT !["previews"] = answer.v]
              /\ selected' = [selected EXCEPT !["preview"] = Run(r, answer)]
              /\ detail' = IF Run(r, answer) = 0 THEN detail
                           ELSE [detail EXCEPT !["preview"] = Run(r, answer)]
              /\ Arrives(r, answer, {Chosen(r, answer)})
  BY DEF PreviewsLand
<1>2. UNCHANGED <<me, holder, asks, loading, server, primary>>
  BY DEF PreviewsLand
<1>3. /\ RequestFits(r, server) /\ server \in Nat \ {0} /\ answer.v \in 0 .. server
      /\ shown \in [Sections -> 0 .. server]
      /\ selected \in [Lanes -> 0 .. (server - 1)] /\ detail \in [Lanes -> 0 .. (server - 1)]
  BY <1>1, RequestAnswered
<1>4. Run(r, answer) \in 0 .. (server - 1)
  BY <1>3, PreferredInList DEF RequestFits
<1>5. /\ RequestFits(Chosen(r, answer), server) /\ Chosen(r, answer).job = "detail"
  <2> HIDE DEF Run
  <2>1. ConsoleStateOK /\ "preview" \in Lanes /\ 0 \in 0 .. server /\ 0 \in 0 .. (server - 1)
    BY <1>3 DEF ConsoleInv, Lanes
  <2>2. QED
    BY <1>4, <2>1, RequestMade
<1> HIDE DEF Run, Chosen
<1>6. /\ shown' \in [Sections -> 0 .. server]
      /\ shown'["coordination"] <= shown["coordination"] /\ shown'["decks"] = shown["decks"]
      /\ selected' \in [Lanes -> 0 .. (server - 1)] /\ detail' \in [Lanes -> 0 .. (server - 1)]
  <2>1. /\ shown' \in [Sections -> 0 .. server]
        /\ shown'["coordination"] = shown["coordination"] /\ shown'["decks"] = shown["decks"]
        /\ shown["coordination"] \in Int
    BY <1>1, <1>3 DEF Sections
  <2>2. selected' \in [Lanes -> 0 .. (server - 1)] /\ detail' \in [Lanes -> 0 .. (server - 1)]
    BY <1>1, <1>3, <1>4
  <2>3. QED
    BY <2>1, <2>2
<1>7. PICK q \in {RetryTimer(r), Chosen(r, answer)} : pending' = (pending \ {r}) \cup {q}
  BY <1>1 DEF Arrives
<1>8. /\ RequestFits(RetryTimer(r), server) /\ RetryTimer(r).job = "retry"
      /\ RetryTimer(r).about = r.about /\ Asking(r)
  BY <1>1, <1>3, TimerFits DEF Asking
<1>9. RequestFits(q, server) /\ (Asking(q) => q.about = r.about) /\ ~DecksRequest(q)
  BY <1>5, <1>7, <1>8 DEF Asking, DecksRequest
<1>10. Undisturbed /\ ConsoleStateOK'
  BY <1>2, <1>6, UndisturbedKeepsInv DEF Undisturbed
<1>11. /\ AskedOnce' /\ \A p \in pending' : DecksRequest(p) => DecksAhead(p)'
  <2> DEFINE more == {q}
  <2>1. /\ \A p \in more : Asking(p) => p.about = r.about
        /\ \A p, s \in more : Asking(p) /\ Asking(s) => p = s
        /\ \A p \in more : DecksRequest(p) => DecksAhead(p)'
        /\ pending' = (pending \ {r}) \cup more
    BY <1>7, <1>9
  <2> HIDE DEF more
  <2>2. QED
    BY <1>1, <1>6, <1>8, <1>10, <2>1, ListReplaced
<1>12. \A p \in pending' : p \in pending \/ RequestFits(p, server)
  BY <1>7, <1>9
<1>13. QED
  BY <1>6, <1>10, <1>11, <1>12, UndisturbedKeepsInv

(* A retry timer asks for what is shown when it fires.                     *)
LEMMA RetryKeepsInv ==
  ASSUME ConsoleInv, UNCHANGED watched, RetryFires
  PROVE  ConsoleInv'
<1> DEFINE Sel(r) == IF r.about = "previews" THEN selected["preview"] ELSE 0
           Again(r) == Request("list", r.about, shown[r.about], Sel(r))
<1>1. PICK r \in pending : r.job = "retry" /\ pending' = (pending \ {r}) \cup {Again(r)}
  BY DEF RetryFires
<1>2. /\ Undisturbed /\ UNCHANGED <<shown, selected, detail>>
  BY DEF RetryFires, Undisturbed
<1>3. /\ RequestFits(r, server) /\ ConsoleStateOK /\ server \in Nat \ {0} /\ r.about \in Sections
  BY <1>1 DEF ConsoleInv, ConsoleStateOK, RequestFits
<1>4. shown[r.about] \in 0 .. server /\ Sel(r) \in 0 .. (server - 1)
  BY <1>3 DEF ConsoleStateOK, Lanes
<1>5. /\ RequestFits(Again(r), server) /\ Again(r).job = "list"
      /\ Again(r).about = r.about /\ Again(r).old = shown[r.about] /\ Again(r).since = server
  <2> HIDE DEF Sel
  <2>1. QED
    BY <1>3, <1>4, RequestMade
<1> HIDE DEF Sel, Again
<1>6. ConsoleStateOK' /\ shown'["coordination"] <= shown["coordination"]
  <2>1. /\ shown' \in [Sections -> 0 .. server]
        /\ selected' \in [Lanes -> 0 .. (server - 1)] /\ detail' \in [Lanes -> 0 .. (server - 1)]
    BY <1>2, <1>3 DEF ConsoleStateOK
  <2>2. ConsoleStateOK'
    BY <1>2, <2>1, UndisturbedKeepsInv
  <2>3. shown["coordination"] \in Int
    BY <1>3 DEF ConsoleStateOK, Sections
  <2>4. QED
    BY <1>2, <2>2, <2>3
<1>7. /\ AskedOnce' /\ \A p \in pending' : DecksRequest(p) => DecksAhead(p)'
  <2> DEFINE more == {Again(r)}
  <2>1. /\ \A p \in more : Asking(p) => p.about = r.about
        /\ \A p, s \in more : Asking(p) /\ Asking(s) => p = s
        /\ pending' = (pending \ {r}) \cup more /\ Asking(r)
    BY <1>1, <1>5 DEF Asking
  <2>2. ASSUME NEW p \in more, DecksRequest(p) PROVE DecksAhead(p)'
    <3>1. /\ p.old = shown["decks"] /\ p.since = server /\ shown["decks"] \in 0 .. server
      BY <1>4, <1>5, <2>2 DEF DecksRequest
    <3>2. QED
      BY <1>2, <1>3, <3>1 DEF DecksAhead
  <2> HIDE DEF more
  <2>3. QED
    BY <1>2, <1>6, <2>1, <2>2, ListReplaced
<1>8. \A p \in pending' : p \in pending \/ RequestFits(p, server)
  BY <1>1, <1>5
<1>9. QED
  BY <1>2, <1>3, <1>6, <1>7, <1>8, UndisturbedKeepsInv DEF ConsoleStateOK

(* The supplemental lists.                                                 *)
LEMMA ProfileKeepsInv ==
  ASSUME ConsoleInv, UNCHANGED watched, ProfileLands
  PROVE  ConsoleInv'
<1> DEFINE Run(r, answer) == NextRun(r.sel, answer.v)
           Detail(r, answer) == Request("detail", "review", r.kept, Run(r, answer))
<1>1. PICK r, answer :
        /\ r \in pending /\ answer \in Answers(r)
        /\ r.job = "list" /\ r.about = "profile"
        /\ shown' = [shown EXCEPT !["profile"] = answer.v]
        /\ selected' = [selected EXCEPT !["review"] = Run(r, answer)]
        /\ detail' = IF Run(r, answer) \in ListAt(answer.v)
                     THEN [detail EXCEPT !["review"] = Run(r, answer)] ELSE detail
        /\ Arrives(r, answer, {Detail(r, answer)})
  BY DEF ProfileLands
<1>2. Undisturbed
  BY DEF ProfileLands, Undisturbed
<1>3. /\ RequestFits(r, server) /\ server \in Nat \ {0} /\ answer.v \in 0 .. server
      /\ shown \in [Sections -> 0 .. server]
      /\ selected \in [Lanes -> 0 .. (server - 1)] /\ detail \in [Lanes -> 0 .. (server - 1)]
  BY <1>1, RequestAnswered
<1>4. Run(r, answer) \in 0 .. (server - 1) /\ r.kept \in 0 .. (server - 1) /\ r.kept \in 0 .. server
  BY <1>3, NextRunInList DEF RequestFits
<1>5. RequestFits(Detail(r, answer), server) /\ Detail(r, answer).job = "detail"
  <2> HIDE DEF Run
  <2>1. ConsoleStateOK /\ "review" \in Lanes
    BY DEF ConsoleInv, Lanes
  <2>2. QED
    BY <1>4, <2>1, RequestMade
<1> HIDE DEF Run, Detail
<1>6. /\ shown' \in [Sections -> 0 .. server]
      /\ shown'["coordination"] = shown["coordination"] /\ shown'["decks"] = shown["decks"]
  BY <1>1, <1>3 DEF Sections
<1>7. selected' \in [Lanes -> 0 .. (server - 1)] /\ detail' \in [Lanes -> 0 .. (server - 1)]
  BY <1>1, <1>3, <1>4
<1>8. \A q \in pending' : q \in pending \/ (RequestFits(q, server) /\ ~Asking(q))
  BY <1>1, <1>5 DEF Arrives, Asking
<1>9. QED
  BY <1>2, <1>6, <1>7, <1>8, QuietStepKeepsInv

(* A detail of the second stage.                                           *)
LEMMA DetailKeepsInv ==
  ASSUME ConsoleInv, UNCHANGED watched, DetailLands
  PROVE  ConsoleInv'
<1>1. PICK r, answer :
        /\ r \in pending /\ answer \in Answers(r)
        /\ r.job = "detail"
        /\ detail' = IF ~answer.failed /\ r.sel # 0 THEN [detail EXCEPT ![r.about] = r.sel]
                     ELSE IF r.about = "preview" THEN detail
                     ELSE [detail EXCEPT ![r.about] = r.old]
        /\ Arrives(r, answer, {})
  BY DEF DetailLands
<1>2. Undisturbed /\ UNCHANGED <<shown, selected>>
  BY DEF DetailLands, Undisturbed
<1>3. /\ RequestFits(r, server) /\ server \in Nat \ {0}
      /\ shown \in [Sections -> 0 .. server]
      /\ selected \in [Lanes -> 0 .. (server - 1)] /\ detail \in [Lanes -> 0 .. (server - 1)]
  BY <1>1, RequestAnswered
<1>4. r.sel \in 0 .. (server - 1) /\ r.old \in 0 .. (server - 1) /\ r.about \in Lanes
  BY <1>1, <1>3 DEF RequestFits
<1>5. detail' \in [Lanes -> 0 .. (server - 1)]
  BY <1>1, <1>3, <1>4
<1>6. \A q \in pending' : q \in pending
  BY <1>1 DEF Arrives
<1>7. QED
  BY <1>2, <1>3, <1>5, <1>6, QuietStepKeepsInv

-----------------------------------------------------------------------------
(* Loads that begin by themselves: the refresh after sign-in and the tick. *)
LEMMA TimersKeepInv ==
  ASSUME ConsoleInv, UNCHANGED watched, PostRefresh \/ Tick
  PROVE  ConsoleInv'
<1>1. /\ ConsoleStateOK /\ server \in Nat \ {0} /\ selected["run"] \in 0 .. (server - 1)
      /\ Nothing.id \in 0 .. (server - 1)
  BY DEF ConsoleInv, ConsoleStateOK, Lanes, Nothing, Return
<1>2. UNCHANGED <<me, holder, asks, server, shown, selected, detail>>
  BY DEF PostRefresh, Tick
<1>3. CASE BeginLoad(selected["run"], Nothing, {})
  <2>1. ConsoleStateOK' /\ server <= server' /\ Nothing.id \in 0 .. (server' - 1)
    BY <1>1, <1>2, <1>3 DEF ConsoleStateOK, BeginLoad
  <2>2. QED
    BY <1>1, <1>2, <1>3, <2>1, LoadBegun
<1>4. CASE UNCHANGED <<loading, primary, pending>>
  <2>1. \A r \in pending' : r \in pending
    BY <1>4
  <2>2. QED
    BY <1>1, <1>2, <1>4, <2>1, QuietStepKeepsInv DEF Undisturbed, ConsoleStateOK
<1>5. QED
  BY <1>3, <1>4 DEF PostRefresh, Tick

(* The preview panel's own load.                                           *)
LEMMA HydrationKeepsInv ==
  ASSUME ConsoleInv, UNCHANGED watched, Hydrate \/ HydrationLands
  PROVE  ConsoleInv'
<1>1. /\ ConsoleStateOK /\ server \in Nat \ {0} /\ 0 \in 0 .. (server - 1) /\ 0 \in 0 .. server
      /\ shown \in [Sections -> 0 .. server]
      /\ selected \in [Lanes -> 0 .. (server - 1)] /\ detail \in [Lanes -> 0 .. (server - 1)]
  BY DEF ConsoleInv, ConsoleStateOK
<1>2. CASE Hydrate
  <2>1. /\ Undisturbed /\ UNCHANGED <<shown, selected, detail>>
        /\ pending' = pending \cup {Request("hydrate", "previews", 0, 0)}
    BY <1>2 DEF Hydrate, Undisturbed
  <2>2. /\ RequestFits(Request("hydrate", "previews", 0, 0), server)
        /\ Request("hydrate", "previews", 0, 0).job = "hydrate"
    BY <1>1, RequestMade DEF Sections
  <2>3. \A q \in pending' : q \in pending \/ (RequestFits(q, server) /\ ~Asking(q))
    BY <2>1, <2>2 DEF Asking
  <2>4. QED
    BY <1>1, <2>1, <2>3, QuietStepKeepsInv
<1>3. CASE HydrationLands
  <2> DEFINE Run(answer) == Preferred(answer.v, selected["preview"])
             Chosen(answer) == Request("choose", "preview", Run(answer), Run(answer))
  <2>1. PICK r, answer :
          /\ r \in pending /\ answer \in Answers(r)
          /\ \/ /\ Arrives(r, answer, {})
                /\ UNCHANGED <<shown, selected, detail>>
             \/ /\ shown' = [shown EXCEPT !["previews"] = answer.v]
                /\ selected' = [selected EXCEPT !["preview"] = Run(answer)]
                /\ detail' = IF Run(answer) = 0 THEN detail
                             ELSE [detail EXCEPT !["preview"] = Run(answer)]
                /\ Arrives(r, answer, IF Run(answer) = 0 THEN {} ELSE {Chosen(answer)})
    BY <1>3 DEF HydrationLands
  <2>2. Undisturbed
    BY <1>3 DEF HydrationLands, Undisturbed
  <2>3. answer.v \in 0 .. server
    BY <2>1, RequestAnswered
  <2>4. Run(answer) \in 0 .. (server - 1)
    BY <1>1, <2>3, PreferredInList DEF Lanes
  <2>5. RequestFits(Chosen(answer), server) /\ Chosen(answer).job = "choose"
    <3> HIDE DEF Run
    <3>1. "preview" \in Lanes /\ Run(answer) \in 0 .. server
      BY <1>1, <2>4 DEF Lanes
    <3>2. QED
      BY <1>1, <2>4, <3>1, RequestMade
  <2> HIDE DEF Run, Chosen
  <2>6. \A q \in pending' : q \in pending \/ (RequestFits(q, server) /\ ~Asking(q))
    BY <2>1, <2>5 DEF Arrives, Asking
  <2>7. /\ shown' \in [Sections -> 0 .. server]
        /\ shown'["coordination"] = shown["coordination"] /\ shown'["decks"] = shown["decks"]
    BY <1>1, <2>1, <2>3 DEF Sections
  <2>8. selected' \in [Lanes -> 0 .. (server - 1)] /\ detail' \in [Lanes -> 0 .. (server - 1)]
    BY <1>1, <2>1, <2>4
  <2>9. QED
    BY <2>2, <2>6, <2>7, <2>8, QuietStepKeepsInv
<1>4. QED
  BY <1>2, <1>3

(* A selection asks for one detail and writes no section.                  *)
LEMMA SelectionAsked ==
  ASSUME ConsoleInv, NEW lane \in Lanes, NEW id \in 0 .. (server - 1), NEW others,
         \/ AskSelection(lane, id, others)
         \/ lane = "preview" /\ handlePreviewRunSelection(id, others)
  PROVE  /\ selected' \in [Lanes -> 0 .. (server - 1)]
         /\ detail' \in [Lanes -> 0 .. (server - 1)]
         /\ \A q \in pending' : q \in pending \/ (RequestFits(q, server) /\ ~Asking(q))
<1>1. /\ ConsoleStateOK /\ server \in Nat \ {0} /\ 0 \in 0 .. (server - 1) /\ 0 \in 0 .. server
      /\ selected \in [Lanes -> 0 .. (server - 1)] /\ detail \in [Lanes -> 0 .. (server - 1)]
  BY DEF ConsoleInv, ConsoleStateOK
<1>2. PICK old \in {0, id} : pending' = (pending \ others) \cup {Request("choose", lane, old, id)}
  BY DEF AskSelection, handlePreviewRunSelection
<1>3. old \in 0 .. server /\ old \in 0 .. (server - 1)
  BY <1>1
<1>4. RequestFits(Request("choose", lane, old, id), server)
      /\ Request("choose", lane, old, id).job = "choose"
  BY <1>1, <1>3, RequestMade
<1>5. \A q \in pending' : q \in pending \/ (RequestFits(q, server) /\ ~Asking(q))
  BY <1>2, <1>4 DEF Asking
<1>6. selected' \in [Lanes -> 0 .. (server - 1)] /\ detail' \in [Lanes -> 0 .. (server - 1)]
  BY <1>1 DEF AskSelection, handlePreviewRunSelection
<1>7. QED
  BY <1>5, <1>6

(* The user selects a run, and its detail arrives.                         *)
LEMMA SelectKeepsInv ==
  ASSUME ConsoleInv, UNCHANGED watched, Select \/ SelectionLands
  PROVE  ConsoleInv'
<1>1. /\ ConsoleStateOK /\ server \in Nat \ {0}
      /\ shown \in [Sections -> 0 .. server]
      /\ selected \in [Lanes -> 0 .. (server - 1)] /\ detail \in [Lanes -> 0 .. (server - 1)]
  BY DEF ConsoleInv, ConsoleStateOK
<1>2. Undisturbed /\ UNCHANGED shown
  BY DEF Select, SelectionLands, Undisturbed
<1>3. CASE Select
  <2>1. PICK id \in 1 .. server :
          \/ handleRunSelection(id)
          \/ handleHardwareDeploymentSelection(id)
          \/ id \in ListAt(shown["profile"]) /\ handleUiReviewSelection(id, {})
          \/ id \in ListAt(shown["previews"]) /\ handlePreviewRunSelection(id, {})
    BY <1>3 DEF Select
  <2>2. PICK s \in Sections : id \in ListAt(shown[s])
    BY <2>1 DEF handleRunSelection, handleHardwareDeploymentSelection, Sections
  <2>3. id \in 0 .. (server - 1)
    <3>1. shown[s] \in 0 .. server
      BY <1>1
    <3>2. QED
      BY <1>1, <2>2, <3>1 DEF ListAt
  <2>4. \E lane \in Lanes : \/ AskSelection(lane, id, {})
                            \/ lane = "preview" /\ handlePreviewRunSelection(id, {})
    <3>1. "run" \in Lanes /\ "review" \in Lanes /\ "preview" \in Lanes
      BY DEF Lanes
    <3>2. QED
      BY <2>1, <3>1 DEF handleRunSelection, handleHardwareDeploymentSelection,
                        handleUiReviewSelection
  <2>5. /\ selected' \in [Lanes -> 0 .. (server - 1)]
        /\ detail' \in [Lanes -> 0 .. (server - 1)]
        /\ \A q \in pending' : q \in pending \/ (RequestFits(q, server) /\ ~Asking(q))
    BY <2>3, <2>4, SelectionAsked
  <2>6. QED
    BY <1>1, <1>2, <2>5, QuietStepKeepsInv
<1>4. CASE SelectionLands
  <2>1. PICK r, answer :
          /\ r \in pending /\ answer \in Answers(r) /\ r.job = "choose"
          /\ \/ UNCHANGED detail
             \/ detail' = [detail EXCEPT ![r.about] = r.sel]
             \/ detail' = [detail EXCEPT ![r.about] = r.old]
          /\ \/ UNCHANGED selected
             \/ selected' = [selected EXCEPT ![r.about] = r.sel]
          /\ Arrives(r, answer, {})
    BY <1>4 DEF SelectionLands
  <2>2. r.sel \in 0 .. (server - 1) /\ r.old \in 0 .. (server - 1)
    BY <2>1, RequestAnswered DEF RequestFits
  <2>3. selected' \in [Lanes -> 0 .. (server - 1)] /\ detail' \in [Lanes -> 0 .. (server - 1)]
    BY <1>1, <2>1, <2>2
  <2>4. \A q \in pending' : q \in pending
    BY <2>1 DEF Arrives
  <2>5. QED
    BY <1>1, <1>2, <2>3, <2>4, QuietStepKeepsInv
<1>5. QED
  BY <1>3, <1>4

-----------------------------------------------------------------------------
(* An order as its handler keeps it: the run selected in its render, and   *)
(* the run it is about.                                                    *)
LEMMA OrderMade ==
  ASSUME ConsoleStateOK, NEW lane \in Lanes, NEW h,
         NEW old \in 0 .. (server - 1), NEW kept \in 0 .. (server - 1)
  PROVE  LET r == [Request("order", lane, old, 0) EXCEPT !.kept = kept, !.handler = h]
         IN  RequestFits(r, server) /\ r.job = "order"
<1>1. /\ server \in Nat \ {0}
      /\ old \in 0 .. server /\ 0 \in 0 .. (server - 1)
  BY DEF ConsoleStateOK
<1>2. PICK q : q = Request("order", lane, old, 0)
  OBVIOUS
<1>3. q = [job |-> q.job, about |-> q.about, old |-> q.old, sel |-> q.sel,
           handler |-> q.handler, kept |-> q.kept, since |-> q.since, ok |-> q.ok]
  BY <1>2 DEF Request
<1>4. RequestFits(q, server) /\ q.job = "order"
  BY <1>1, <1>2, RequestMade
<1>5. PICK p : p = [q EXCEPT !.kept = kept]
  OBVIOUS
<1>6. p = [job |-> q.job, about |-> q.about, old |-> q.old, sel |-> q.sel,
           handler |-> q.handler, kept |-> kept, since |-> q.since, ok |-> q.ok]
  BY <1>3, <1>5
<1>7. [p EXCEPT !.handler = h]
        = [job |-> q.job, about |-> q.about, old |-> q.old, sel |-> q.sel,
           handler |-> h, kept |-> kept, since |-> q.since, ok |-> q.ok]
  BY <1>6
<1>8. [q EXCEPT !.kept = kept, !.handler = h] = [p EXCEPT !.handler = h]
  BY <1>5, Zenon
<1>9. PICK r : r = [q EXCEPT !.kept = kept, !.handler = h]
  OBVIOUS
<1>10. r = [job |-> q.job, about |-> q.about, old |-> q.old, sel |-> q.sel,
            handler |-> h, kept |-> kept, since |-> q.since, ok |-> q.ok]
  BY <1>7, <1>8, <1>9, Zenon
<1>11. RequestFits(r, server) /\ r.job = "order"
  BY <1>4, <1>10 DEF RequestFits
<1>12. QED
  BY <1>2, <1>9, <1>11, Zenon

(* The user gives an order, and an order is refused.                       *)
LEMMA OrdersKeepInv ==
  ASSUME ConsoleInv, UNCHANGED watched, GiveOrder \/ OrderRefused
  PROVE  ConsoleInv'
<1>1. /\ ConsoleStateOK /\ server \in Nat \ {0}
      /\ shown \in [Sections -> 0 .. server]
      /\ selected \in [Lanes -> 0 .. (server - 1)] /\ detail \in [Lanes -> 0 .. (server - 1)]
  BY DEF ConsoleInv, ConsoleStateOK
<1>2. Undisturbed /\ UNCHANGED <<shown, selected, detail>>
  BY DEF GiveOrder, OrderRefused, Undisturbed
<1>3. \A q \in pending' : q \in pending \/ (RequestFits(q, server) /\ ~Asking(q))
  <2>1. CASE OrderRefused
    BY <2>1 DEF OrderRefused, Arrives
  <2>2. CASE GiveOrder
    <3> DEFINE Made(h) == [Request("order", h.lane, selected[h.lane], 0)
                             EXCEPT !.kept = selected["run"], !.handler = h]
    <3>1. PICK h : /\ h = Reload \/ h.lane \in WatchedLanes
                   /\ pending' = pending \cup {Made(h)}
      BY <2>2 DEF GiveOrder
    <3>2. h.lane \in Lanes /\ "run" \in Lanes
      <4>1. Reload.lane = "run" /\ "run" \in Lanes
        BY DEF Reload, Lanes
      <4>2. WatchedLanes \subseteq Lanes
        BY <1>1 DEF WatchedLanes, ConsoleStateOK, Slices, Lanes
      <4>3. QED
        BY <3>1, <4>1, <4>2
    <3>3. selected[h.lane] \in 0 .. (server - 1) /\ selected["run"] \in 0 .. (server - 1)
      BY <1>1, <3>2
    <3>4. RequestFits(Made(h), server) /\ Made(h).job = "order"
      BY <1>1, <3>2, <3>3, OrderMade
    <3> HIDE DEF Made
    <3>5. QED
      BY <3>1, <3>4 DEF Asking
  <2>3. QED
    BY <2>1, <2>2
<1>4. QED
  BY <1>1, <1>2, <1>3, QuietStepKeepsInv

(* An order was carried out: the clock has advanced, and its handler loads *)
(* again, returns because a load is in flight, or shows what it changed.   *)
LEMMA OrderLandsKeepsInv ==
  ASSUME ConsoleInv, UNCHANGED watched, OrderLands
  PROVE  ConsoleInv'
<1> DEFINE Next(r) == Return(r.handler.then, r.handler.lane,
                             IF r.handler.creates THEN Newest(server + 1) ELSE r.old)
<1>1. PICK r \in pending :
        /\ r.job = "order"
        /\ \/ /\ BeginLoad(r.kept, Next(r), {r})
              /\ UNCHANGED <<shown, selected, detail>>
           \/ /\ ReturnsAtOnce(Next(r))
              /\ pending' = pending \ {r}
              /\ UNCHANGED shown
           \/ /\ shown' = [shown EXCEPT !["profile"] = server + 1]
              /\ pending' = pending \ {r}
              /\ UNCHANGED <<loading, primary, selected, detail>>
           \/ /\ \/ handlePreviewRunSelection(r.old, {r})
                 \/ handleUiReviewSelection(r.old, {r})
              /\ UNCHANGED <<loading, primary, shown>>
  BY DEF OrderLands
<1>2. server' = server + 1 /\ UNCHANGED <<me, holder, asks>>
  BY DEF OrderLands
<1>3. /\ ConsoleStateOK /\ server \in Nat \ {0}
      /\ shown \in [Sections -> 0 .. server]
      /\ selected \in [Lanes -> 0 .. (server - 1)] /\ detail \in [Lanes -> 0 .. (server - 1)]
      /\ RequestFits(r, server)
  BY DEF ConsoleInv, ConsoleStateOK
<1>4. r.kept \in 0 .. (server - 1) /\ r.old \in 0 .. (server - 1)
  BY <1>1, <1>3 DEF RequestFits
<1>5. Next(r).id \in 0 .. server
  <2>1. Next(r).id = IF r.handler.creates THEN Newest(server + 1) ELSE r.old
    BY DEF Return
  <2>2. Newest(server + 1) \in 0 .. server
    BY <1>3 DEF Newest
  <2>3. QED
    BY <1>3, <1>4, <2>1, <2>2
<1> HIDE DEF Next
<1>6. /\ server <= server' /\ server' - 1 = server /\ server' \in Nat \ {0}
      /\ shown \in [Sections -> 0 .. server']
      /\ selected \in [Lanes -> 0 .. server] /\ detail \in [Lanes -> 0 .. server]
  BY <1>2, <1>3
<1>7. CASE BeginLoad(r.kept, Next(r), {r}) /\ UNCHANGED <<shown, selected, detail>>
  <2>1. ConsoleStateOK'
    BY <1>2, <1>3, <1>6, <1>7 DEF ConsoleStateOK, BeginLoad
  <2>2. QED
    BY <1>4, <1>5, <1>6, <1>7, <2>1, LoadBegun
<1>8. ASSUME loading' = loading, primary' = primary,
             shown' = shown \/ shown' = [shown EXCEPT !["profile"] = server + 1],
             selected' \in [Lanes -> 0 .. server], detail' \in [Lanes -> 0 .. server],
             \A q \in pending' : q \in pending \/ (RequestFits(q, server) /\ ~Asking(q))
      PROVE  ConsoleInv'
  <2>1. /\ shown' \in [Sections -> 0 .. server']
        /\ shown'["coordination"] <= shown["coordination"]
        /\ shown'["decks"] <= shown["decks"]
    <3>1. /\ shown'["coordination"] = shown["coordination"] /\ shown["coordination"] \in Int
          /\ shown'["decks"] = shown["decks"] /\ shown["decks"] \in Int
      BY <1>3, <1>8 DEF Sections
    <3>2. shown' \in [Sections -> 0 .. server']
      BY <1>2, <1>3, <1>6, <1>8
    <3>3. QED
      BY <3>1, <3>2
  <2>2. ConsoleStateOK'
    BY <1>2, <1>3, <1>6, <1>8, <2>1 DEF ConsoleStateOK
  <2>3. /\ AskedOnce' /\ \A q \in pending' : DecksRequest(q) => DecksAhead(q)'
    BY <1>8, <2>1, <2>2, NoListAsked
  <2>4. \A q \in pending' : q \in pending \/ RequestFits(q, server')
    BY <1>3, <1>6, <1>8, FitsLater
  <2>5. loading' => asks' > 0 \/ Busy'
    BY <1>2, <1>8 DEF ConsoleInv, Busy
  <2>6. QED
    BY <1>6, <1>8, <2>1, <2>2, <2>3, <2>4, <2>5, StepKeepsInv
<1>9. CASE /\ ReturnsAtOnce(Next(r)) /\ pending' = pending \ {r} /\ UNCHANGED shown
  <2>1. server \in Nat /\ server - 1 <= server
    BY <1>3
  <2>2. /\ selected' \in [Lanes -> 0 .. server] /\ detail' \in [Lanes -> 0 .. server]
        /\ UNCHANGED <<loading, primary>>
    BY <1>5, <1>9, <2>1, ReturnedAtOnce
  <2>3. QED
    BY <1>8, <1>9, <2>2
<1>10. CASE /\ shown' = [shown EXCEPT !["profile"] = server + 1]
            /\ pending' = pending \ {r}
            /\ UNCHANGED <<loading, primary, selected, detail>>
  BY <1>6, <1>8, <1>10
<1>11. CASE /\ handlePreviewRunSelection(r.old, {r}) \/ handleUiReviewSelection(r.old, {r})
            /\ UNCHANGED <<loading, primary, shown>>
  <2>1. "preview" \in Lanes /\ "review" \in Lanes
    BY DEF Lanes
  <2>2. /\ selected' \in [Lanes -> 0 .. (server - 1)]
        /\ detail' \in [Lanes -> 0 .. (server - 1)]
        /\ \A q \in pending' : q \in pending \/ (RequestFits(q, server) /\ ~Asking(q))
    BY <1>4, <1>11, <2>1, SelectionAsked DEF handleUiReviewSelection
  <2>3. selected' \in [Lanes -> 0 .. server] /\ detail' \in [Lanes -> 0 .. server]
    BY <1>3, <2>2
  <2>4. QED
    BY <1>8, <1>11, <2>2, <2>3
<1>12. QED
  BY <1>1, <1>7, <1>9, <1>10, <1>11

(* Others change the data: the clock advances, and nothing else.           *)
LEMMA DataChangesKeepsInv ==
  ASSUME ConsoleInv, UNCHANGED watched, DataChanges
  PROVE  ConsoleInv'
<1>1. /\ server' = server + 1
      /\ UNCHANGED <<me, holder, asks, loading, shown, selected, detail, primary, pending>>
  BY DEF DataChanges
<1>2. server \in Nat \ {0} /\ server <= server'
  BY <1>1 DEF ConsoleInv, ConsoleStateOK
<1>3. ConsoleStateOK'
  <2>1. /\ shown' \in [Sections -> 0 .. server'] /\ selected' \in [Lanes -> 0 .. (server' - 1)]
        /\ detail' \in [Lanes -> 0 .. (server' - 1)]
    BY <1>1, <1>2 DEF ConsoleInv, ConsoleStateOK
  <2>2. QED
    BY <1>1, <1>2, <2>1 DEF ConsoleInv, ConsoleStateOK
<1>4. /\ shown'["coordination"] <= shown["coordination"]
      /\ shown'["decks"] <= shown["decks"]
  BY <1>1 DEF ConsoleInv, ConsoleStateOK, Sections
<1>5. /\ AskedOnce' /\ \A q \in pending' : DecksRequest(q) => DecksAhead(q)'
  BY <1>1, <1>3, <1>4, NoListAsked
<1>6. loading' => asks' > 0 \/ Busy'
  BY <1>1 DEF ConsoleInv, Busy
<1>7. QED
  BY <1>1, <1>2, <1>3, <1>4, <1>5, <1>6, StepKeepsInv

-----------------------------------------------------------------------------
(* The page before anybody is signed in.                                   *)
LEMMA ConsoleInitInv == ConsoleInit => ConsoleInv
<1> SUFFICES ASSUME ConsoleInit PROVE ConsoleInv
  OBVIOUS
<1>1. ConsoleStateOK
  BY DEF ConsoleInit, ConsoleStateOK, Who, NullSections, NoRuns
<1>2. ~Busy /\ pending = {} /\ asks > 0
  BY DEF ConsoleInit, Busy
<1>3. QED
  BY <1>1, <1>2 DEF ConsoleInv, AskedOnce

(* Every step keeps the invariant.                                         *)
LEMMA ConsoleStepInv == ConsoleInv /\ [ConsoleNext]_consoleVars => ConsoleInv'
<1> SUFFICES ASSUME ConsoleInv, [ConsoleNext]_consoleVars PROVE ConsoleInv'
  OBVIOUS
<1>1. CASE UNCHANGED consoleVars \/ VisibilityChanges
  BY <1>1 DEF consoleVars, VisibilityChanges, ConsoleInv, ConsoleStateOK, Busy, AskedOnce,
              DecksAhead, PrimaryAhead
<1>2. CASE ConsoleStep /\ UNCHANGED watched
  BY <1>2, SessionKeepsInv, PrimaryKeepsInv, DecksKeepInv, PreviewsKeepInv, RetryKeepsInv,
     ProfileKeepsInv, DetailKeepsInv, TimersKeepInv, HydrationKeepsInv, SelectKeepsInv,
     OrdersKeepInv, OrderLandsKeepsInv, DataChangesKeepsInv
  DEF ConsoleStep, Arrival
<1>3. QED
  BY <1>1, <1>2 DEF ConsoleNext

(* The state has its types, every request is no younger than the data it   *)
(* asks for, no list is asked for twice, and what is under way for a       *)
(* section that only loads fill is ahead of what the section shows.        *)
THEOREM ConsoleInvHolds == ConsoleSpec => []ConsoleInv
BY ConsoleInitInv, ConsoleStepInv, PTL DEF ConsoleSpec

(* The page says it is loading only while a session check or a load is in  *)
(* flight, and no list is asked for by two loads.                          *)
THEOREM LoadingExplainedHolds == ConsoleSpec => []LoadingExplained
<1>1. ConsoleInv => LoadingExplained
  <2> SUFFICES ASSUME ConsoleInv PROVE LoadingExplained
    OBVIOUS
  <2>1. ASSUME NEW q \in pending, NEW r \in pending, OfLoad(q), OfLoad(r), q.about = r.about,
               q.job # "detail", r.job # "detail"
        PROVE  q = r
    BY <2>1 DEF OfLoad, ConsoleInv, AskedOnce, Asking
  <2>2. QED
    BY <2>1 DEF LoadingExplained, ConsoleInv, ConsoleStateOK
<1>2. QED
  BY <1>1, ConsoleInvHolds, PTL

(* Where a load's answer lands, it is no older than what is shown.         *)
LEMMA SectionsStep ==
  ASSUME ConsoleInv, [ConsoleNext]_consoleVars
  PROVE  \A s \in {"coordination", "decks"} :
           shown'[s] >= shown[s] \/ (me # "nobody" /\ me' = "nobody")
<1> DEFINE Kept == \A s \in {"coordination", "decks"} : shown'[s] >= shown[s]
<1>1. /\ server \in Nat \ {0} /\ shown \in [Sections -> 0 .. server]
      /\ \A s \in {"coordination", "decks"} : shown[s] \in Nat
  BY DEF ConsoleInv, ConsoleStateOK, Sections
<1>2. ASSUME UNCHANGED shown PROVE Kept
  BY <1>1, <1>2
<1>3. ASSUME NEW s \in {"profile", "previews"}, NEW v, shown' = [shown EXCEPT ![s] = v] PROVE Kept
  <2>1. \A t \in {"coordination", "decks"} : shown'[t] = shown[t]
    BY <1>1, <1>3 DEF Sections
  <2>2. QED
    BY <1>1, <2>1
<1>4. CASE PrimaryLands
  <2>1. PICK answer \in Answers(primary) : shown' = [shown EXCEPT !["coordination"] = answer.v]
    BY <1>4 DEF PrimaryLands
  <2>2. LoadFits(primary, server) /\ PrimaryAhead
    BY <1>4 DEF PrimaryLands, ConsoleInv
  <2>3. answer.v \in 0 .. server /\ primary.old <= answer.v
    BY <1>1, <2>2, AnswerFits DEF LoadFits, PrimaryAhead
  <2>4. /\ shown'["coordination"] = answer.v /\ shown'["decks"] = shown["decks"]
        /\ shown["coordination"] <= primary.old /\ primary.old \in Int
    BY <1>1, <2>1, <2>2 DEF Sections, PrimaryAhead, LoadFits
  <2>5. shown'["coordination"] >= shown["coordination"] /\ shown'["decks"] >= shown["decks"]
    BY <1>1, <2>3, <2>4
  <2>6. QED
    BY <2>5
<1>5. CASE DecksLand
  <2>1. PICK r, answer : /\ r \in pending /\ answer \in Answers(r) /\ DecksRequest(r)
                         /\ shown' = [shown EXCEPT !["decks"] = answer.v]
    BY <1>5 DEF DecksLand, DecksRequest
  <2>2. DecksAhead(r)
    BY <2>1 DEF ConsoleInv
  <2>3. /\ answer.v \in 0 .. server /\ r.old <= answer.v /\ RequestFits(r, server)
    BY <2>1, <2>2, RequestAnswered DEF DecksAhead
  <2>4. r.old \in Int /\ shown["decks"] <= r.old
    BY <1>1, <2>1, <2>2, <2>3 DEF RequestFits, DecksRequest, DecksAhead
  <2>5. shown'["decks"] = answer.v /\ shown'["coordination"] = shown["coordination"]
    BY <1>1, <2>1 DEF Sections
  <2>6. shown'["decks"] >= shown["decks"] /\ shown'["coordination"] >= shown["coordination"]
    BY <1>1, <2>3, <2>4, <2>5
  <2>7. QED
    BY <2>6
<1>6. CASE PreviewsLand \/ ProfileLands \/ HydrationLands \/ OrderLands
  <2>1. \/ UNCHANGED shown
        \/ \E s \in {"profile", "previews"} : \E v : shown' = [shown EXCEPT ![s] = v]
    BY <1>6 DEF PreviewsLand, ProfileLands, HydrationLands, OrderLands
  <2>2. Kept
    BY <1>2, <1>3, <2>1
  <2>3. QED
    BY <2>2
<1>7. CASE SignOut
  BY <1>7 DEF SignOut
<1>8. CASE \/ SessionAnswered \/ DetailLands \/ SelectionLands \/ OrderRefused \/ RetryFires
           \/ PostRefresh \/ Tick \/ Hydrate \/ SignIn \/ Select \/ GiveOrder
           \/ SessionFails \/ DataChanges \/ CookieExpires \/ VisibilityChanges
           \/ UNCHANGED consoleVars
  <2>1. UNCHANGED shown
    BY <1>8 DEF SessionAnswered, DetailLands, SelectionLands, OrderRefused, RetryFires,
                PostRefresh, Tick, Hydrate, SignIn, Select, GiveOrder, SessionFails,
                DataChanges, CookieExpires, VisibilityChanges, consoleVars
  <2>2. QED
    BY <1>2, <2>1
<1>9. QED
  BY <1>4, <1>5, <1>6, <1>7, <1>8 DEF ConsoleNext, ConsoleStep, Arrival

(* The sections only a load fills never go back to an older state of the   *)
(* data, for any number of loads, orders and faults.                       *)
THEOREM SectionsNeverGoBackHolds == ConsoleSpec => SectionsNeverGoBack
<1>1. ConsoleInv /\ [ConsoleNext]_consoleVars
        => [\A s \in {"coordination", "decks"} :
              shown'[s] >= shown[s] \/ (me # "nobody" /\ me' = "nobody")]_consoleVars
  BY SectionsStep
<1>2. QED
  BY <1>1, ConsoleInvHolds, PTL DEF ConsoleSpec, SectionsNeverGoBack

=============================================================================
