-------------------------- MODULE PreferencesProofs --------------------------
(***************************************************************************)
(* Proofs about what is learnt of the users: ProfilePublication, for any   *)
(* number of request handlers, patches, suggestions and versions, and      *)
(* PreferenceScores, for any number of writers, workers and tool runs.     *)
(* The two share neither state nor constants.                              *)
(*                                                                         *)
(* A request acts on what it read some time ago.  The invariant says of    *)
(* each request what of this is still true (RequestOK): the version it     *)
(* read is no later than the present one, and while they are equal so are  *)
(* the defaults; a suggestion once approved stays on the list of the       *)
(* approved; a change that was committed stays in the log; observations    *)
(* are never taken back.  All of it rests on what only grows (Grows).      *)
(*                                                                         *)
(* An executor of a recompute holds as many rows as were there when its    *)
(* task was claimed (Progress), however many there are, and if no claim    *)
(* has overtaken it since its read, the rows of every claim (ReadsCover):  *)
(* that is what the score it stores is worth (ScoreCovers).                *)
(***************************************************************************)
EXTENDS ProfilePublication, PreferenceScores, FiniteSetTheorems, TLAPS

\* What request h may still rely on.
RequestOK(h) ==
  LET r == handler[h] IN
  /\ r.at \notin {"idle", "review"} => r.patch \in Patches
  /\ r.at \in {"edit", "merge", "mark"} => r.base \in 1..version
  /\ r.at = "edit" => r.suggestion = Null
  /\ r.at \in {"edit", "merge"} /\ r.base = version => r.read = defaults
  /\ r.at = "propose" => observed[r.patch] + 1 >= Threshold
  /\ r.at \in {"review", "publish", "merge", "mark"} =>
       r.suggestion \in Suggestions /\ suggestion[r.suggestion].status # "absent"
  /\ r.at = "review" => r.outcome \in {"approved", "rejected"}
  /\ r.at \in {"publish", "merge", "mark"} =>
       r.suggestion \in approvals /\ suggestion[r.suggestion].patch = r.patch
  /\ r.at = "mark" =>
       [version |-> r.base, patch |-> r.patch, suggestion |-> r.suggestion] \in changes

\* What the row of suggestion s tells.
SuggestionOK(s) ==
  suggestion[s].status # "absent" =>
    /\ suggestion[s].patch \in Patches
    /\ observed[suggestion[s].patch] >= Threshold
    /\ suggestion[s].status = "approved" => s \in approvals

OneOpenSuggestion ==
  \A s, t \in Suggestions :
    /\ suggestion[s].status \in Open /\ suggestion[t].status \in Open
    /\ suggestion[s].patch = suggestion[t].patch
    => s = t

LogOK ==
  /\ IsFiniteSet(changes) /\ Cardinality(changes) = version - 1
  /\ {c.version : c \in changes} = 2..version

PublicationInv ==
  /\ PublicationTypeOK /\ LogOK
  /\ \A h \in Handlers : RequestOK(h)
  /\ \A s \in Suggestions : SuggestionOK(s)
  /\ OneOpenSuggestion
  /\ PublishedWasApproved /\ PublishedIsLogged

-----------------------------------------------------------------------------
\* What a step never takes back.
Grows ==
  /\ approvals \subseteq approvals' /\ changes \subseteq changes'
  /\ \/ version' > version
     \/ version' = version /\ defaults' = defaults
  /\ \A p \in Patches : observed'[p] >= observed[p]
  /\ \A s \in Suggestions : suggestion[s].status # "absent" =>
       suggestion'[s].status # "absent" /\ suggestion'[s].patch = suggestion[s].patch

USE DEF Steps, Requests, SuggestionRows, Open

(* No request has begun and nothing is logged in an initial state. *)
LEMMA InvInit == PublicationInit => PublicationInv
<1> SUFFICES ASSUME PublicationInit PROVE PublicationInv
  OBVIOUS
<1> USE PublicationAssumption DEF PublicationInit
<1>1. PublicationTypeOK
  BY DEF PublicationTypeOK, Idle, NoSuggestion
<1>2. LogOK
  BY FS_EmptySet DEF LogOK
<1>3. \A h \in Handlers : RequestOK(h)
  BY DEF RequestOK, Idle
<1>4. \A s \in Suggestions : SuggestionOK(s)
  BY DEF SuggestionOK, NoSuggestion
<1>5. OneOpenSuggestion /\ PublishedWasApproved /\ PublishedIsLogged
  BY DEF OneOpenSuggestion, PublishedWasApproved, PublishedIsLogged, NoSuggestion
<1> QED BY <1>1, <1>2, <1>3, <1>4, <1>5 DEF PublicationInv

(* Requests that do not take part in a step keep what they rely on. *)
LEMMA OthersUndisturbed ==
  ASSUME PublicationInv, PublicationTypeOK', Grows,
         NEW h \in Handlers, NEW r, Proceed(h, r),
         NEW g \in Handlers \ {h}
  PROVE  RequestOK(g)'
<1>1. handler'[g] = handler[g] /\ RequestOK(g) /\ handler[g] \in Requests
  BY DEF PublicationInv, PublicationTypeOK, Proceed
<1>2. version \in Nat /\ version' \in Nat /\ Threshold \in Nat
      /\ observed \in [Patches -> Nat] /\ observed' \in [Patches -> Nat]
  BY PublicationAssumption DEF PublicationInv, PublicationTypeOK
<1>3. handler[g].at \in {"edit", "merge"} /\ handler[g].base = version'
        => version' = version /\ defaults' = defaults
  BY <1>1, <1>2 DEF RequestOK, Grows
<1> QED BY <1>1, <1>2, <1>3 DEF RequestOK, Grows

(* A step that writes no database leaves everything but its request. *)
LEMMA ReadsKeepInv ==
  ASSUME PublicationInv, NEW h \in Handlers, NEW r \in Requests, Proceed(h, r),
         UNCHANGED <<runtimeVars, memoryVars>>, RequestOK(h)'
  PROVE  PublicationInv'
<1> USE DEF runtimeVars, memoryVars
<1>1. PublicationTypeOK'
  BY DEF PublicationInv, PublicationTypeOK, Proceed
<1>2. Grows
  BY DEF Grows, PublicationInv, PublicationTypeOK
<1>3. \A g \in Handlers : RequestOK(g)'
  BY <1>1, <1>2, OthersUndisturbed
<1>4. LogOK' /\ OneOpenSuggestion' /\ PublishedWasApproved' /\ PublishedIsLogged'
  BY DEF PublicationInv, LogOK, OneOpenSuggestion, PublishedWasApproved, PublishedIsLogged
<1>5. \A s \in Suggestions : SuggestionOK(s)'
  BY DEF PublicationInv, SuggestionOK
<1> QED BY <1>1, <1>3, <1>4, <1>5 DEF PublicationInv

(* The profile transaction: the version counts the changes, whatever the   *)
(* defaults it merges were, and nobody else's request is disturbed.        *)
LEMMA MergeKeepsInv ==
  ASSUME PublicationInv, NEW h \in Handlers, NEW next,
         \/ handler[h].at = "edit" /\ next = "observe"
         \/ handler[h].at = "merge" /\ next = "mark",
         MergeProfile(h, next), UNCHANGED memoryVars
  PROVE  PublicationInv'
<1> DEFINE c == [version |-> version + 1, patch |-> handler[h].patch,
                 suggestion |-> handler[h].suggestion]
           r == [handler[h] EXCEPT !.at = next, !.base = version + 1]
<1> USE DEF memoryVars
<1>1. /\ version < MaxVersion /\ version \in Nat \ {0} /\ MaxVersion \in Nat
      /\ version' = version + 1 /\ changes' = changes \cup {c} /\ Proceed(h, r)
      /\ defaults' = (handler[h].read \cup {handler[h].patch}) \cap ProfilePatches
  BY PublicationAssumption DEF MergeProfile, Normalize, PublicationInv, PublicationTypeOK
<1>2. handler[h] \in Requests /\ RequestOK(h)
  BY DEF PublicationInv, PublicationTypeOK
<1>3. c \in [version : 1..MaxVersion, patch : Patches, suggestion : Suggestions \cup {Null}]
      /\ (handler[h].at = "edit" => c.suggestion = Null)
      /\ (handler[h].at = "merge" => c.suggestion \in approvals)
  BY <1>1, <1>2 DEF RequestOK
<1>4. r \in Requests
  <2>1. next \in Steps /\ version + 1 \in 1..MaxVersion
    BY <1>1
  <2> QED BY <1>2, <2>1
<1>5. PublicationTypeOK'
  BY <1>1, <1>3, <1>4 DEF PublicationInv, PublicationTypeOK, Proceed
<1>6. Grows
  <2>1. version' > version
    BY <1>1
  <2>2. \A p \in Patches : observed'[p] >= observed[p]
    BY DEF PublicationInv, PublicationTypeOK
  <2>3. approvals' = approvals /\ suggestion' = suggestion /\ changes \subseteq changes'
    BY <1>1
  <2> QED BY <2>1, <2>2, <2>3 DEF Grows
<1>7. RequestOK(h)'
  <2>1. handler'[h] = r
    BY <1>1 DEF Proceed, PublicationInv, PublicationTypeOK
  <2> QED BY <1>1, <1>2, <2>1 DEF RequestOK
<1>8. \A g \in Handlers : RequestOK(g)'
  BY <1>1, <1>5, <1>6, <1>7, OthersUndisturbed
<1>9. LogOK'
  <2>1. c \notin changes
    <3>1. version + 1 \notin {d.version : d \in changes}
      BY <1>1 DEF PublicationInv, LogOK
    <3> QED BY <3>1
  <2>2. IsFiniteSet(changes') /\ Cardinality(changes') = Cardinality(changes) + 1
    BY <1>1, <2>1, FS_AddElement DEF PublicationInv, LogOK
  <2>3. {d.version : d \in changes'} = {d.version : d \in changes} \cup {version + 1}
    <3>1. c.version = version + 1
      OBVIOUS
    <3>2. {d.version : d \in changes \cup {c}} = {d.version : d \in changes} \cup {c.version}
      OBVIOUS
    <3> QED BY <1>1, <3>1, <3>2
  <2>4. 2..(version + 1) = (2..version) \cup {version + 1}
    BY <1>1
  <2> QED BY <1>1, <2>2, <2>3, <2>4 DEF PublicationInv, LogOK
<1>10. OneOpenSuggestion' /\ \A s \in Suggestions : SuggestionOK(s)'
  BY DEF PublicationInv, OneOpenSuggestion, SuggestionOK
<1>11. PublishedWasApproved' /\ PublishedIsLogged'
  BY <1>1, <1>2, <1>3 DEF PublicationInv, PublishedWasApproved, PublishedIsLogged
<1> QED BY <1>5, <1>8, <1>9, <1>10, <1>11 DEF PublicationInv

(* Every request ends or fails without leaving anything to rely on. *)
LEMMA IdleRelies ==
  ASSUME PublicationInv, NEW h \in Handlers, Proceed(h, Idle)
  PROVE  RequestOK(h)' /\ Idle \in Requests
<1>1. handler'[h] = Idle
  BY DEF Proceed, PublicationInv, PublicationTypeOK
<1> QED BY <1>1 DEF RequestOK, Idle

(* Agent-memory writes its rows and the request ends: what the new rows    *)
(* must satisfy.                                                           *)
LEMMA WritesKeepInv ==
  ASSUME PublicationInv, NEW h \in Handlers, Proceed(h, Idle),
         UNCHANGED runtimeVars, Grows,
         observed' \in [Patches -> Nat], suggestion' \in [Suggestions -> SuggestionRows],
         approvals' \subseteq Suggestions,
         \A s \in Suggestions : SuggestionOK(s)',
         OneOpenSuggestion', PublishedIsLogged'
  PROVE  PublicationInv'
<1> USE DEF runtimeVars
<1>1. PublicationTypeOK'
  BY IdleRelies DEF PublicationInv, PublicationTypeOK, Proceed
<1>2. \A g \in Handlers : RequestOK(g)'
  BY <1>1, OthersUndisturbed, IdleRelies
<1>3. LogOK' /\ PublishedWasApproved'
  BY DEF PublicationInv, LogOK, PublishedWasApproved, Grows
<1> QED BY <1>1, <1>2, <1>3 DEF PublicationInv

(* An observation that is recorded is never taken back.                    *)
LEMMA RecordKeepsInv ==
  ASSUME PublicationInv, NEW h \in Handlers, RecordObservation(h)
  PROVE  PublicationInv'
<1> DEFINE p == handler[h].patch
<1>1. /\ p \in Patches /\ observed \in [Patches -> Nat] /\ Threshold \in Nat
      /\ observed' = [observed EXCEPT ![p] = observed[p] + 1] /\ Proceed(h, Idle)
      /\ UNCHANGED <<runtimeVars, suggestion, approvals>>
  BY PublicationAssumption
  DEF RecordObservation, PublicationInv, PublicationTypeOK, RequestOK
<1>2. Grows
  BY <1>1 DEF Grows, runtimeVars, PublicationInv, PublicationTypeOK
<1>3. \A s \in Suggestions : SuggestionOK(s)'
  BY <1>1 DEF PublicationInv, SuggestionOK
<1>4. OneOpenSuggestion' /\ PublishedIsLogged'
  BY <1>1 DEF PublicationInv, OneOpenSuggestion, PublishedIsLogged, runtimeVars
<1> QED
  BY <1>1, <1>2, <1>3, <1>4, WritesKeepInv DEF PublicationInv, PublicationTypeOK

(* A proposal has the observations it needs, its own row included, and no  *)
(* open suggestion beside it.                                              *)
LEMMA ProposeKeepsInv ==
  ASSUME PublicationInv, NEW h \in Handlers, ProposeSuggestion(h)
  PROVE  PublicationInv'
<1> DEFINE p == handler[h].patch
<1>1. /\ p \in Patches /\ observed \in [Patches -> Nat] /\ Threshold \in Nat
      /\ observed[p] + 1 >= Threshold /\ handler[h] \in Requests
      /\ Proceed(h, Idle) /\ UNCHANGED <<runtimeVars, approvals>>
  BY PublicationAssumption
  DEF ProposeSuggestion, PublicationInv, PublicationTypeOK, RequestOK
<1>2. CASE OpenFor(p) # {}
  BY <1>1, <1>2, IdleRelies, ReadsKeepInv DEF ProposeSuggestion, runtimeVars, memoryVars
<1>3. CASE OpenFor(p) = {}
  <2> DEFINE row == [NoSuggestion EXCEPT !.status = "proposed", !.patch = p, !.base = handler[h].base]
  <2>1. PICK s \in Suggestions : suggestion[s] = NoSuggestion /\ suggestion' = [suggestion EXCEPT ![s] = row]
    BY <1>3 DEF ProposeSuggestion
  <2>2. observed' = [observed EXCEPT ![p] = observed[p] + 1]
    BY <1>3 DEF ProposeSuggestion
  <2>3. row \in SuggestionRows /\ row.status = "proposed" /\ row.patch = p
    BY <1>1 DEF NoSuggestion
  <2>4. suggestion'[s] = row /\ \A t \in Suggestions \ {s} : suggestion'[t] = suggestion[t]
    BY <2>1 DEF PublicationInv, PublicationTypeOK
  <2>5. suggestion' \in [Suggestions -> SuggestionRows] /\ observed' \in [Patches -> Nat]
    BY <1>1, <2>1, <2>2, <2>3 DEF PublicationInv, PublicationTypeOK
  <2>6. Grows
    BY <1>1, <2>1, <2>2, <2>4 DEF Grows, runtimeVars, NoSuggestion
  <2>7. \A t \in Suggestions : SuggestionOK(t)'
    BY <1>1, <2>2, <2>3, <2>4 DEF PublicationInv, SuggestionOK
  <2>8. OneOpenSuggestion'
    <3>1. \A t \in Suggestions : suggestion[t].status \in Open => suggestion[t].patch # p
      BY <1>3 DEF OpenFor
    <3>2. SUFFICES ASSUME NEW t \in Suggestions, NEW u \in Suggestions,
                          suggestion'[t].status \in Open, suggestion'[u].status \in Open,
                          suggestion'[t].patch = suggestion'[u].patch
                   PROVE  t = u
      BY DEF OneOpenSuggestion
    <3>3. CASE t # s /\ u # s
      BY <2>4, <3>2, <3>3 DEF PublicationInv, OneOpenSuggestion
    <3>4. CASE t = s \/ u = s
      <4> HIDE DEF p, row
      <4> QED BY <2>3, <2>4, <3>1, <3>2, <3>4
    <3> QED BY <3>3, <3>4
  <2>9. PublishedIsLogged'
    BY <1>1, <2>3, <2>4 DEF PublicationInv, PublishedIsLogged, runtimeVars
  <2> QED
    BY <1>1, <2>5, <2>6, <2>7, <2>8, <2>9, WritesKeepInv DEF PublicationInv, PublicationTypeOK
<1> QED BY <1>2, <1>3

(* A review overwrites any status, and opens none beside an open one. *)
LEMMA ReviewKeepsInv ==
  ASSUME PublicationInv, NEW h \in Handlers, ReviewCommit(h)
  PROVE  PublicationInv'
<1> DEFINE s == handler[h].suggestion
           outcome == handler[h].outcome
<1>1. /\ s \in Suggestions /\ outcome \in {"approved", "rejected"}
      /\ suggestion[s].status # "absent" /\ suggestion[s] \in SuggestionRows
      /\ Proceed(h, Idle) /\ UNCHANGED <<runtimeVars, observed>>
  BY DEF ReviewCommit, PublicationInv, PublicationTypeOK, RequestOK
<1>2. CASE BreaksOpenIndex(s, outcome)
  BY <1>1, <1>2, IdleRelies, ReadsKeepInv DEF ReviewCommit, runtimeVars, memoryVars
<1>3. CASE ~BreaksOpenIndex(s, outcome)
  <2>1. /\ suggestion' = [suggestion EXCEPT ![s].status = outcome]
        /\ approvals' = IF outcome = "approved" THEN approvals \cup {s} ELSE approvals
    BY <1>3 DEF ReviewCommit
  <2>2. /\ suggestion'[s] = [suggestion[s] EXCEPT !.status = outcome]
        /\ \A t \in Suggestions \ {s} : suggestion'[t] = suggestion[t]
        /\ suggestion' \in [Suggestions -> SuggestionRows]
    BY <1>1, <2>1 DEF PublicationInv, PublicationTypeOK
  <2>3. suggestion'[s].status = outcome /\ suggestion'[s].patch = suggestion[s].patch
    BY <1>1, <2>2
  <2>4. Grows
    BY <1>1, <2>1, <2>2, <2>3 DEF Grows, runtimeVars, PublicationInv, PublicationTypeOK
  <2>5. \A t \in Suggestions : SuggestionOK(t)'
    BY <1>1, <2>1, <2>2, <2>3 DEF PublicationInv, SuggestionOK
  <2>6. OneOpenSuggestion'
    BY <1>1, <1>3, <2>2, <2>3 DEF PublicationInv, OneOpenSuggestion, OpenFor, BreaksOpenIndex
  <2>7. PublishedIsLogged'
    BY <1>1, <2>2, <2>3 DEF PublicationInv, PublishedIsLogged, runtimeVars
  <2>8. observed' \in [Patches -> Nat] /\ approvals' \subseteq Suggestions
    BY <1>1, <2>1 DEF PublicationInv, PublicationTypeOK
  <2> QED
    BY <1>1, <2>2, <2>4, <2>5, <2>6, <2>7, <2>8, WritesKeepInv
<1> QED BY <1>2, <1>3

(* What is marked published was committed by the same request. *)
LEMMA MarkKeepsInv ==
  ASSUME PublicationInv, NEW h \in Handlers, MarkPublished(h)
  PROVE  PublicationInv'
<1> DEFINE s == handler[h].suggestion
<1>1. /\ s \in Suggestions /\ suggestion[s].status # "absent" /\ suggestion[s] \in SuggestionRows
      /\ handler[h].base \in 1..MaxVersion
      /\ [version |-> handler[h].base, patch |-> suggestion[s].patch, suggestion |-> s] \in changes
      /\ suggestion' = [suggestion EXCEPT ![s] = [suggestion[s] EXCEPT !.status = "published", !.change = handler[h].base]]
      /\ Proceed(h, Idle) /\ UNCHANGED <<runtimeVars, observed, approvals>>
  BY PublicationAssumption DEF MarkPublished, PublicationInv, PublicationTypeOK, RequestOK
<1>2. /\ suggestion'[s] = [suggestion[s] EXCEPT !.status = "published", !.change = handler[h].base]
      /\ \A t \in Suggestions \ {s} : suggestion'[t] = suggestion[t]
      /\ suggestion' \in [Suggestions -> SuggestionRows]
  BY <1>1 DEF PublicationInv, PublicationTypeOK
<1>3. /\ suggestion'[s].status = "published" /\ suggestion'[s].patch = suggestion[s].patch
      /\ suggestion'[s].change = handler[h].base
  BY <1>1, <1>2
<1>4. Grows
  BY <1>1, <1>2, <1>3 DEF Grows, runtimeVars, PublicationInv, PublicationTypeOK
<1>5. \A t \in Suggestions : SuggestionOK(t)'
  BY <1>1, <1>2, <1>3 DEF PublicationInv, SuggestionOK
<1>6. OneOpenSuggestion'
  BY <1>2, <1>3 DEF PublicationInv, OneOpenSuggestion
<1>7. PublishedIsLogged'
  BY <1>1, <1>2, <1>3 DEF PublicationInv, PublishedIsLogged, runtimeVars
<1> QED
  BY <1>1, <1>2, <1>4, <1>5, <1>6, <1>7, WritesKeepInv DEF PublicationInv, PublicationTypeOK

(* A request that begins or goes on reads what it will rely on. *)
LEMMA RequestsKeepInv ==
  ASSUME PublicationInv, NEW h \in Handlers,
         \/ \E p \in Patches : EditLoad(h, p) \/ \E base \in {Null, version} : ObserveDirectly(h, p, base)
         \/ \E s \in Suggestions :
              PublishCheck(h, s) \/ \E outcome \in {"approved", "rejected"} : ReviewLoad(h, s, outcome)
         \/ Observe(h) \/ PublishLoad(h) \/ RequestFails(h)
  PROVE  PublicationInv'
<1>0. /\ handler \in [Handlers -> Requests] /\ RequestOK(h)
      /\ defaults \subseteq ProfilePatches /\ version \in 1..MaxVersion
      /\ suggestion \in [Suggestions -> SuggestionRows]
      /\ observed \in [Patches -> Nat]
  BY DEF PublicationInv, PublicationTypeOK
<1>1. ASSUME NEW r \in Requests, Proceed(h, r), UNCHANGED <<runtimeVars, memoryVars>>,
             handler'[h] = r => RequestOK(h)'
      PROVE  PublicationInv'
  BY <1>0, <1>1, ReadsKeepInv DEF Proceed
<1>2. ASSUME NEW p \in Patches, EditLoad(h, p) PROVE PublicationInv'
  <2> DEFINE r == [Idle EXCEPT !.at = "edit", !.patch = p, !.read = defaults, !.base = version]
  <2>1. r \in Requests
    BY <1>0 DEF Idle
  <2>2. /\ r.at = "edit" /\ r.patch = p /\ r.suggestion = Null
        /\ r.base = version /\ r.read = defaults
    BY DEF Idle
  <2>3. version' = version /\ defaults' = defaults /\ version \in 1..version
    <3>1. version \in Nat \ {0}
      BY <1>0, PublicationAssumption
    <3>2. version' = version /\ defaults' = defaults
      BY <1>2 DEF EditLoad, runtimeVars
    <3> QED BY <3>1, <3>2
  <2>4. handler'[h] = r => RequestOK(h)'
    <3> HIDE DEF r
    <3> QED BY <2>2, <2>3 DEF RequestOK
  <2> QED BY <1>1, <1>2, <2>1, <2>4 DEF EditLoad
<1>3. ASSUME NEW p \in Patches, NEW base \in {Null, version}, ObserveDirectly(h, p, base)
      PROVE  PublicationInv'
  <2> DEFINE r == [Idle EXCEPT !.at = "observe", !.patch = p, !.base = base]
  <2>1. r \in Requests
    BY <1>0 DEF Idle
  <2>2. handler'[h] = r => RequestOK(h)'
    BY <1>3 DEF ObserveDirectly, RequestOK, Idle, runtimeVars, memoryVars
  <2> QED BY <1>1, <1>3, <2>1, <2>2 DEF ObserveDirectly
<1>4. ASSUME NEW s \in Suggestions, PublishCheck(h, s) PROVE PublicationInv'
  <2> DEFINE r == [Idle EXCEPT !.at = "publish", !.suggestion = s, !.patch = suggestion[s].patch]
  <2>1. suggestion[s].patch \in Patches /\ s \in approvals /\ suggestion[s].status = "approved"
    BY <1>4 DEF PublishCheck, PublicationInv, SuggestionOK
  <2>2. r \in Requests
    BY <1>0, <2>1 DEF Idle
  <2>3. handler'[h] = r => RequestOK(h)'
    BY <1>4, <2>1 DEF PublishCheck, RequestOK, Idle, runtimeVars, memoryVars
  <2> QED BY <1>1, <1>4, <2>2, <2>3 DEF PublishCheck
<1>5. ASSUME NEW s \in Suggestions, NEW outcome \in {"approved", "rejected"}, ReviewLoad(h, s, outcome)
      PROVE  PublicationInv'
  <2> DEFINE r == [Idle EXCEPT !.at = "review", !.suggestion = s, !.outcome = outcome]
  <2>1. r \in Requests
    BY DEF Idle
  <2>2. handler'[h] = r => RequestOK(h)'
    BY <1>5 DEF ReviewLoad, RequestOK, Idle, runtimeVars, memoryVars
  <2> QED BY <1>1, <1>5, <2>1, <2>2 DEF ReviewLoad
<1>6. CASE Observe(h)
  <2> DEFINE p == handler[h].patch
             r == [handler[h] EXCEPT !.at = IF OpenFor(p) = {} /\ Enough(p) THEN "propose" ELSE "record"]
  <2>1. r \in Requests
    BY <1>0
  <2>2. /\ r.at \in {"propose", "record"} /\ r.patch = p /\ p \in Patches
        /\ r.at = "propose" => observed[p] + 1 >= Threshold
    BY <1>0, <1>6 DEF Observe, RequestOK, Enough
  <2>3. handler'[h] = r => RequestOK(h)'
    <3> HIDE DEF r, p
    <3> QED BY <1>6, <2>2 DEF Observe, RequestOK, runtimeVars, memoryVars
  <2> QED BY <1>1, <1>6, <2>1, <2>3 DEF Observe
<1>7. CASE PublishLoad(h)
  <2> DEFINE r == [handler[h] EXCEPT !.at = "merge", !.read = defaults, !.base = version]
  <2>1. r \in Requests
    BY <1>0
  <2>2. handler'[h] = r => RequestOK(h)'
    BY <1>0, <1>7 DEF PublishLoad, RequestOK, runtimeVars, memoryVars
  <2>3. CASE Proceed(h, r)
    BY <1>1, <1>7, <2>1, <2>2, <2>3 DEF PublishLoad
  <2>4. CASE Proceed(h, Idle)
    BY <1>7, <2>4, IdleRelies, ReadsKeepInv DEF PublishLoad
  <2> QED BY <1>7, <2>3, <2>4 DEF PublishLoad
<1>8. CASE RequestFails(h)
  BY <1>8, IdleRelies, ReadsKeepInv DEF RequestFails
<1> QED BY <1>2, <1>3, <1>4, <1>5, <1>6, <1>7, <1>8

(* Each step of each request keeps it.                                     *)
LEMMA InvStep == PublicationInv /\ [PublicationNext]_pubVars => PublicationInv'
<1> SUFFICES ASSUME PublicationInv, [PublicationNext]_pubVars PROVE PublicationInv'
  OBVIOUS
<1>1. ASSUME NEW h \in Handlers, EditCommit(h) PROVE PublicationInv'
  BY <1>1, MergeKeepsInv DEF EditCommit
<1>2. ASSUME NEW h \in Handlers, PublishCommit(h) PROVE PublicationInv'
  BY <1>2, MergeKeepsInv DEF PublishCommit
<1>3. CASE UNCHANGED pubVars
  BY <1>3 DEF pubVars, runtimeVars, memoryVars, PublicationInv, PublicationTypeOK, LogOK, RequestOK,
     SuggestionOK, OneOpenSuggestion, PublishedWasApproved, PublishedIsLogged
<1> QED
  BY <1>1, <1>2, <1>3, RequestsKeepInv, RecordKeepsInv, ProposeKeepsInv, ReviewKeepsInv, MarkKeepsInv
  DEF PublicationNext

(* The invariant holds in every behaviour: requests may overlap, die and   *)
(* be repeated in any order.                                               *)
THEOREM PublicationInvHolds == PublicationSpec => []PublicationInv
BY InvInit, InvStep, PTL DEF PublicationSpec

-----------------------------------------------------------------------------
(* Every version of the profile is in its change log, once, whoever        *)
(* overlaps with whom: the upsert counts from the row it locks             *)
(* (index.ts:1649), not from the version that was read.                    *)
THEOREM ChangeLogGaplessHolds == PublicationSpec => []ChangeLogGapless
<1>1. PublicationInv => ChangeLogGapless
  BY DEF PublicationInv, LogOK, ChangeLogGapless
<1> QED BY <1>1, PublicationInvHolds, PTL

(* The runtime database and agent-memory agree on what was approved, what  *)
(* was published and what it rests on, although no transaction spans them. *)
THEOREM DatabasesAgreeHolds == PublicationSpec => []DatabasesAgree
<1>1. PublicationInv => SuggestionsRestOnEvidence
  <2> SUFFICES ASSUME PublicationInv, NEW s \in Suggestions, suggestion[s].status # "absent"
               PROVE  /\ observed[suggestion[s].patch] >= Threshold
                      /\ Cardinality(OpenFor(suggestion[s].patch)) <= 1
    BY DEF SuggestionsRestOnEvidence
  <2> DEFINE opened == OpenFor(suggestion[s].patch)
  <2>1. \A t, u \in opened : t = u
    BY DEF OpenFor, PublicationInv, OneOpenSuggestion
  <2>2. opened = {} \/ \E t : opened = {t}
    BY <2>1
  <2>3. Cardinality(opened) \in {0, 1}
    <3>1. CASE opened = {}
      BY <3>1, FS_EmptySet
    <3>2. ASSUME NEW t, opened = {t} PROVE Cardinality(opened) = 1
      <4> HIDE DEF opened
      <4> QED BY <3>2, FS_Singleton
    <3> QED BY <2>2, <3>1, <3>2
  <2> QED BY <2>3 DEF PublicationInv, SuggestionOK
<1>2. PublicationInv => DatabasesAgree
  BY <1>1 DEF PublicationInv, DatabasesAgree
<1> QED BY <1>2, PublicationInvHolds, PTL

(* A writer that nobody overlapped since it read undoes nothing. *)
THEOREM LosesOnlyOverlappingHolds == PublicationSpec => LosesOnlyOverlapping
<1> DEFINE P == \A h \in Handlers :
                  handler'[h] # handler[h] /\ ~(defaults \subseteq defaults') =>
                    \E c \in changes : c.version > handler[h].base
<1>1. PublicationInv /\ [PublicationNext]_pubVars => [P]_pubVars
  <2> SUFFICES ASSUME PublicationInv, PublicationNext,
                      NEW h \in Handlers, handler'[h] # handler[h], ~(defaults \subseteq defaults')
               PROVE  \E c \in changes : c.version > handler[h].base
    OBVIOUS
  <2>1. PICK g \in Handlers : handler[g].at \in {"edit", "merge"} /\ \E next : MergeProfile(g, next)
    BY DEF PublicationNext, EditCommit, PublishCommit, EditLoad, ObserveDirectly, Observe,
           RecordObservation, ProposeSuggestion, PublishCheck, ReviewLoad, ReviewCommit,
           PublishLoad, MarkPublished, RequestFails, runtimeVars
  <2>2. g = h
    BY <2>1 DEF MergeProfile, Proceed, PublicationInv, PublicationTypeOK
  <2>3. /\ handler[h].base \in 1..version /\ version \in Nat
        /\ handler[h].base = version => handler[h].read = defaults
    <3>1. version \in Nat
      BY PublicationAssumption DEF PublicationInv, PublicationTypeOK
    <3>2. RequestOK(h) /\ handler[h].at \in {"edit", "merge"}
      BY <2>1, <2>2 DEF PublicationInv
    <3> QED BY <3>1, <3>2 DEF RequestOK
  <2>4. handler[h].base # version
    BY <2>1, <2>2, <2>3 DEF MergeProfile, Normalize, PublicationInv, PublicationTypeOK
  <2>5. version \in 2..version
    BY <2>3, <2>4
  <2>6. PICK c \in changes : c.version = version
    BY <2>5 DEF PublicationInv, LogOK
  <2> QED BY <2>3, <2>4, <2>6
<1> QED BY <1>1, PublicationInvHolds, PTL DEF PublicationSpec, LosesOnlyOverlapping

(* A publication changes the version its suggestion was made for, unless a *)
(* writer that overlapped it has committed since it read the profile.  The *)
(* stale check (index.ts:552) alone does not see to it.                    *)
StaleOnlyWhenOverlapped ==
  [][\A h \in Handlers : PublishCommit(h) =>
       \/ suggestion[handler[h].suggestion].base \in {Null, version}
       \/ \E c \in changes : c.version > handler[h].base]_pubVars

\* The stale check, as long as a publication has not committed.
LoadedOnBase ==
  \A h \in Handlers :
    handler[h].at = "merge" => suggestion[handler[h].suggestion].base \in {Null, handler[h].base}

(* A suggestion keeps the version it was made for.                         *)
LEMMA BasesKept ==
  ASSUME PublicationInv, [PublicationNext]_pubVars,
         NEW s \in Suggestions, suggestion[s].status # "absent"
  PROVE  suggestion'[s].base = suggestion[s].base
<1> USE DEF runtimeVars, memoryVars
<1>1. suggestion \in [Suggestions -> SuggestionRows]
  BY DEF PublicationInv, PublicationTypeOK
<1>2. ASSUME NEW h \in Handlers, ProposeSuggestion(h) PROVE suggestion'[s].base = suggestion[s].base
  BY <1>1, <1>2 DEF ProposeSuggestion, NoSuggestion
<1>3. ASSUME NEW h \in Handlers, ReviewCommit(h) PROVE suggestion'[s].base = suggestion[s].base
  BY <1>1, <1>3 DEF ReviewCommit
<1>4. ASSUME NEW h \in Handlers, MarkPublished(h) PROVE suggestion'[s].base = suggestion[s].base
  BY <1>1, <1>4 DEF MarkPublished
<1>5. CASE UNCHANGED suggestion
  BY <1>5
<1> QED
  BY <1>2, <1>3, <1>4, <1>5
  DEF PublicationNext, pubVars, EditLoad, EditCommit, ObserveDirectly, Observe, RecordObservation,
      PublishCheck, ReviewLoad, PublishLoad, PublishCommit, RequestFails

(* A request comes to its publication by the stale check.                  *)
LEMMA LoadedOnBaseStep ==
  ASSUME PublicationInv, LoadedOnBase, [PublicationNext]_pubVars
  PROVE  LoadedOnBase'
<1> SUFFICES ASSUME NEW g \in Handlers, handler'[g].at = "merge"
             PROVE  suggestion'[handler'[g].suggestion].base \in {Null, handler'[g].base}
  BY DEF LoadedOnBase
<1>1. /\ handler \in [Handlers -> Requests] /\ handler[g] \in Requests
      /\ handler[g].at = "merge" =>
           /\ handler[g].suggestion \in Suggestions
           /\ suggestion[handler[g].suggestion].status # "absent"
           /\ suggestion[handler[g].suggestion].base \in {Null, handler[g].base}
  BY DEF PublicationInv, PublicationTypeOK, RequestOK, LoadedOnBase
<1>2. CASE handler'[g] = handler[g]
  BY <1>1, <1>2, BasesKept
<1>3. CASE PublishLoad(g)
  <2> DEFINE r == [handler[g] EXCEPT !.at = "merge", !.read = defaults, !.base = version]
             s == handler[g].suggestion
  <2>1. \/ handler'[g] = Idle
        \/ handler'[g] = r /\ suggestion[s].base \in {Null, version}
    BY <1>1, <1>3 DEF PublishLoad, Proceed
  <2>2. r.base = version /\ r.suggestion = s /\ Idle.at = "idle"
    BY <1>1 DEF Idle
  <2>3. suggestion' = suggestion
    BY <1>3 DEF PublishLoad, memoryVars
  <2> HIDE DEF r
  <2>4. QED
    BY <2>1, <2>2, <2>3
<1>4. ASSUME handler'[g] # handler[g] PROVE PublishLoad(g)
  <2>1. PICK h \in Handlers :
          \/ \E p \in Patches : \/ EditLoad(h, p)
                                \/ \E base \in {Null, version} : ObserveDirectly(h, p, base)
          \/ EditCommit(h)
          \/ Observe(h) \/ RecordObservation(h) \/ ProposeSuggestion(h)
          \/ \E s \in Suggestions :
               \/ PublishCheck(h, s)
               \/ \E outcome \in {"approved", "rejected"} : ReviewLoad(h, s, outcome)
          \/ ReviewCommit(h)
          \/ PublishLoad(h) \/ PublishCommit(h) \/ MarkPublished(h)
          \/ RequestFails(h)
    BY <1>4 DEF PublicationNext, pubVars
  <2>2. PICK r : Proceed(h, r) /\ (r.at = "merge" => PublishLoad(h))
    <3>1. CASE PublishLoad(h)
      BY <3>1 DEF PublishLoad
    <3>2. CASE EditCommit(h) \/ PublishCommit(h)
      <4>1. PICK next \in {"observe", "mark"} : MergeProfile(h, next)
        BY <3>2 DEF EditCommit, PublishCommit
      <4>2. [handler[h] EXCEPT !.at = next, !.base = version + 1].at = next
        BY <1>1
      <4>3. QED
        BY <4>1, <4>2 DEF MergeProfile
    <3>3. CASE Observe(h)
      <4>1. \A x : [handler[h] EXCEPT !.at = x].at = x
        BY <1>1
      <4>2. QED
        BY <3>3, <4>1 DEF Observe
    <3>4. ASSUME NEW p, NEW base, EditLoad(h, p) \/ ObserveDirectly(h, p, base)
          PROVE  \E q : Proceed(h, q) /\ q.at # "merge"
      <4>1. /\ [Idle EXCEPT !.at = "edit", !.patch = p, !.read = defaults, !.base = version].at = "edit"
            /\ [Idle EXCEPT !.at = "observe", !.patch = p, !.base = base].at = "observe"
        BY DEF Idle
      <4>2. QED
        BY <3>4, <4>1, Zenon DEF EditLoad, ObserveDirectly
    <3>5. ASSUME NEW s, NEW outcome, PublishCheck(h, s) \/ ReviewLoad(h, s, outcome)
          PROVE  \E q : Proceed(h, q) /\ q.at # "merge"
      <4>1. /\ [Idle EXCEPT !.at = "publish", !.suggestion = s, !.patch = suggestion[s].patch].at = "publish"
            /\ [Idle EXCEPT !.at = "review", !.suggestion = s, !.outcome = outcome].at = "review"
        BY DEF Idle
      <4>2. QED
        BY <3>5, <4>1, Zenon DEF PublishCheck, ReviewLoad
    <3>6. ASSUME \/ RecordObservation(h) \/ ProposeSuggestion(h) \/ ReviewCommit(h)
                 \/ MarkPublished(h) \/ RequestFails(h)
          PROVE  \E q : Proceed(h, q) /\ q.at # "merge"
      <4>1. Proceed(h, Idle)
        BY <3>6 DEF RecordObservation, ProposeSuggestion, ReviewCommit, MarkPublished, RequestFails
      <4>2. QED
        BY <4>1 DEF Idle
    <3>7. QED
      BY <2>1, <3>1, <3>2, <3>3, <3>4, <3>5, <3>6
  <2>3. g = h /\ r.at = "merge"
    BY <1>1, <1>4, <2>2 DEF Proceed
  <2>4. QED
    BY <2>2, <2>3
<1> QED BY <1>2, <1>3, <1>4

(* What the stale check is worth: a publication misses its version only if *)
(* a change came between its read and its commit.                          *)
THEOREM StaleOnlyWhenOverlappedHolds == PublicationSpec => StaleOnlyWhenOverlapped
<1>1. PublicationInit => LoadedOnBase
  BY DEF PublicationInit, LoadedOnBase, Idle
<1>2. PublicationInv /\ LoadedOnBase =>
        \A h \in Handlers : PublishCommit(h) =>
          \/ suggestion[handler[h].suggestion].base \in {Null, version}
          \/ \E c \in changes : c.version > handler[h].base
  <2> SUFFICES ASSUME PublicationInv, LoadedOnBase, NEW h \in Handlers, PublishCommit(h),
                      handler[h].base # version
               PROVE  \E c \in changes : c.version > handler[h].base
    BY DEF LoadedOnBase, PublishCommit
  <2>1. version \in Nat /\ handler[h].base \in 1 .. version
    <3>1. version \in 1 .. MaxVersion /\ RequestOK(h) /\ handler[h].at = "merge"
      BY DEF PublicationInv, PublicationTypeOK, PublishCommit
    <3>2. QED
      BY <3>1, PublicationAssumption DEF RequestOK
  <2>2. version \in {c.version : c \in changes}
    BY <2>1 DEF PublicationInv, LogOK
  <2>3. QED
    BY <2>1, <2>2
<1>3. QED
  BY <1>1, <1>2, LoadedOnBaseStep, PublicationInvHolds, PTL DEF PublicationSpec, StaleOnlyWhenOverlapped

-----------------------------------------------------------------------------
(* Recomputed scores                                                       *)

\* What the executor in w holds: as many rows as were there at its claim.
Progress(w) ==
  /\ computing[w] # "start" => pc[w] = "running" /\ seenAtClaim[w] <= seen[w]
  /\ seenAtClaim[w] <= signals

\* An executor that nobody has overtaken holds the rows of every claim.
ReadsCover ==
  \A v, w \in Workers :
    computing[v] = "read" /\ v \notin overtaken => seen[v] >= seenAtClaim[w]

\* Written by such an executor, the score covers all whose upsert is done.
ScoreCovers ==
  ~stale => \A w \in Workers : computing[w] = "written" => score >= seenAtClaim[w]

RecomputeInv ==
  /\ pc \in [Workers -> Locations]
  /\ signals \in Nat /\ score \in Nat
  /\ computing \in [Workers -> {"start", "read", "written"}]
  /\ seen \in [Workers -> Nat] /\ seenAtClaim \in [Workers -> Nat]
  /\ \A w \in Workers : Progress(w)
  /\ ReadsCover /\ ScoreCovers

(* An executor's upsert brings in every row committed when its task was    *)
(* claimed, however many executors there are.                              *)
UpsertCoversItsClaim ==
  [][\A w \in Workers : UpsertScore(w) => score' >= seenAtClaim[w]]_allVars

(* Nothing is claimed or read in an initial state.                         *)
LEMMA RecomputeInit == ScoreInit => RecomputeInv
BY DEF ScoreInit, Init, RecomputeInv, Progress, ReadsCover, ScoreCovers, Locations

(* Steps of others - writers, the rebalance tool, the enqueuing, time -     *)
(* take back no row and leave the executors alone.                         *)
LEMMA OthersKeepRecomputes ==
  ASSUME RecomputeInv,
         UNCHANGED <<pc, computing, seen, score, seenAtClaim, overtaken, stale>>,
         signals' \in Nat, signals <= signals'
  PROVE  RecomputeInv'
<1> USE DEF RecomputeInv
<1>1. \A w \in Workers : Progress(w)'
  BY DEF Progress
<1>2. ReadsCover' /\ ScoreCovers'
  BY DEF ReadsCover, ScoreCovers
<1>3. QED
  BY <1>1, <1>2

(* Each step of the others is such a step.                                 *)
LEMMA OthersStep ==
  ASSUME RecomputeInv,
         \/ \E h \in Writers : LookUpOpenTask(h) \/ CommitSignal(h)
         \/ \E r \in Tools : CollectPlan(r) \/ ApplyPlan(r)
         \/ \E t \in Tasks : EnqueueLegacyTask(t)
         \/ \E t \in Tasks : (LeaseLapses(t) \/ BackoffElapses(t)) /\ UNCHANGED scoreVars
         \/ UNCHANGED allVars
  PROVE  RecomputeInv'
<1> USE DEF vars, taskVars, workerVars, boundVars, historyVars, scoreVars, allVars
<1>0. signals \in Nat
  BY DEF RecomputeInv
<1>1. ASSUME NEW h \in Writers, LookUpOpenTask(h) PROVE RecomputeInv'
  BY <1>0, <1>1, OthersKeepRecomputes DEF LookUpOpenTask
<1>2. ASSUME NEW h \in Writers, CommitSignal(h) PROVE RecomputeInv'
  BY <1>0, <1>2, OthersKeepRecomputes DEF CommitSignal, EnqueueAgentTask
<1>3. ASSUME NEW r \in Tools, CollectPlan(r) PROVE RecomputeInv'
  BY <1>0, <1>3, OthersKeepRecomputes DEF CollectPlan
<1>4. ASSUME NEW r \in Tools, ApplyPlan(r) PROVE RecomputeInv'
  BY <1>0, <1>4, OthersKeepRecomputes DEF ApplyPlan
<1>5. ASSUME NEW t \in Tasks, EnqueueLegacyTask(t) PROVE RecomputeInv'
  BY <1>0, <1>5, OthersKeepRecomputes DEF EnqueueLegacyTask, EnqueueAgentTask
<1>6. ASSUME NEW t \in Tasks, LeaseLapses(t) \/ BackoffElapses(t), UNCHANGED scoreVars
      PROVE  RecomputeInv'
  BY <1>0, <1>6, OthersKeepRecomputes DEF LeaseLapses, BackoffElapses
<1>7. CASE UNCHANGED allVars
  BY <1>0, <1>7, OthersKeepRecomputes
<1>8. QED
  BY <1>1, <1>2, <1>3, <1>4, <1>5, <1>6, <1>7

(* The loop outside of an execution: the executor stays as it is.          *)
LEMMA LoopStep ==
  ASSUME RecomputeInv, NEW w \in Workers, UNCHANGED scoreVars,
         \/ TryRepairLock(w) \/ RequeueExpiredTasks(w) \/ ClaimNothing(w)
         \/ StartAgentRun(w) \/ WorkerStarts(w)
  PROVE  RecomputeInv'
<1> USE DEF workerVars, taskVars, scoreVars, historyVars, RecomputeInv
<1>1. PICK at \in Locations : /\ pc' = [pc EXCEPT ![w] = at]
                              /\ pc[w] # "running" \/ at = "running"
  <2>1. ASSUME UNCHANGED pc, pc[w] = "scan" PROVE pc' = [pc EXCEPT ![w] = "scan"]
    BY <2>1
  <2>2. QED
    BY <2>1 DEF TryRepairLock, RequeueExpiredTasks, ClaimNothing, StartAgentRun, WorkerStarts, Locations
<1>2. \A v \in Workers : Progress(v)'
  BY <1>1 DEF Progress
<1>3. ReadsCover' /\ ScoreCovers'
  BY DEF ReadsCover, ScoreCovers
<1>4. QED
  BY <1>1, <1>2, <1>3

(* A claim counts the rows of the moment; whoever has read by then is      *)
(* overtaken.                                                              *)
LEMMA ClaimStep ==
  ASSUME RecomputeInv, NEW w \in Workers, NEW t \in Tasks, ClaimScoreTask(w, t)
  PROVE  RecomputeInv'
<1> USE DEF RecomputeInv
<1>1. /\ pc[w] = "scan" /\ pc' = [pc EXCEPT ![w] = "claimed"]
      /\ seenAtClaim' = [seenAtClaim EXCEPT ![w] = signals]
      /\ overtaken' = overtaken \cup {v \in Workers : computing[v] = "read"}
      /\ UNCHANGED <<signals, score, computing, seen, stale>>
  BY DEF ClaimScoreTask, ClaimTask
<1>2. pc' \in [Workers -> Locations] /\ seenAtClaim' \in [Workers -> Nat]
  BY <1>1 DEF Locations
<1>3. computing[w] = "start"
  BY <1>1 DEF Progress
<1>4. \A v \in Workers : Progress(v)'
  BY <1>1, <1>3 DEF Progress
<1>5. ReadsCover'
  BY <1>1 DEF ReadsCover
<1>6. ScoreCovers'
  BY <1>1, <1>3 DEF ScoreCovers
<1>7. QED
  BY <1>1, <1>2, <1>4, <1>5, <1>6

(* An execution ends, and with it what its executor held.                  *)
LEMMA EndStep ==
  ASSUME RecomputeInv, NEW w \in Workers,
         CompleteScoreTask(w) \/ FailScoreTask(w) \/ StopDuringScore(w)
  PROVE  RecomputeInv'
<1> USE DEF RecomputeInv
<1>1. /\ \/ pc' = [pc EXCEPT ![w] = "idle"] \/ pc' = [pc EXCEPT ![w] = "down"]
      /\ computing' = [computing EXCEPT ![w] = "start"] /\ seen' = [seen EXCEPT ![w] = 0]
      /\ seenAtClaim' = [seenAtClaim EXCEPT ![w] = 0]
      /\ overtaken' = overtaken \ {w}
      /\ UNCHANGED <<signals, score, stale>>
  BY DEF CompleteScoreTask, FailScoreTask, StopDuringScore, ForgetComputation,
         RecordCompletedTask, RecordFailedTask, EndTurn, WorkerStops
<1>2. pc' \in [Workers -> Locations]
  BY <1>1 DEF Locations
<1>3. /\ computing' \in [Workers -> {"start", "read", "written"}]
      /\ seen' \in [Workers -> Nat] /\ seenAtClaim' \in [Workers -> Nat]
  BY <1>1
<1>4. \A v \in Workers : Progress(v)'
  BY <1>1 DEF Progress
<1>5. ReadsCover'
  BY <1>1 DEF ReadsCover
<1>6. ScoreCovers'
  BY <1>1 DEF ScoreCovers
<1>7. QED
  BY <1>1, <1>2, <1>3, <1>4, <1>5, <1>6

(* The executor reads the rows there are, those of all claims.             *)
LEMMA ReadStep ==
  ASSUME RecomputeInv, NEW w \in Workers, ReadSignals(w)
  PROVE  RecomputeInv'
<1> USE DEF RecomputeInv
<1>1. /\ pc[w] = "running" /\ computing[w] = "start"
      /\ seen' = [seen EXCEPT ![w] = signals]
      /\ computing' = [computing EXCEPT ![w] = "read"]
      /\ UNCHANGED <<pc, signals, score, seenAtClaim, overtaken, stale>>
  BY DEF ReadSignals, vars, workerVars, historyVars
<1>2. \A v \in Workers : Progress(v)'
  BY <1>1 DEF Progress
<1>3. ReadsCover'
  BY <1>1 DEF ReadsCover, Progress
<1>4. ScoreCovers'
  BY <1>1 DEF ScoreCovers
<1>5. QED
  BY <1>1, <1>2, <1>3, <1>4

(* An upsert stores what its executor read, which covers its own claim,    *)
(* and every claim if nobody has overtaken it.                             *)
LEMMA UpsertStep ==
  ASSUME RecomputeInv, NEW w \in Workers, UpsertScore(w)
  PROVE  RecomputeInv' /\ score' >= seenAtClaim[w]
<1> USE DEF RecomputeInv
<1>1. /\ pc[w] = "running" /\ computing[w] = "read"
      /\ score' = seen[w]
      /\ computing' = [computing EXCEPT ![w] = "written"]
      /\ stale' = (w \in overtaken)
      /\ overtaken' = overtaken \ {w}
      /\ UNCHANGED <<pc, signals, seen, seenAtClaim>>
  BY DEF UpsertScore, vars, workerVars
<1>2. \A v \in Workers : Progress(v)'
  BY <1>1 DEF Progress
<1>3. ReadsCover'
  BY <1>1 DEF ReadsCover
<1>4. ScoreCovers'
  BY <1>1 DEF ScoreCovers, ReadsCover
<1>5. score' >= seenAtClaim[w]
  BY <1>1 DEF Progress
<1>6. QED
  BY <1>1, <1>2, <1>3, <1>4, <1>5

(* The invariant over all steps.                                           *)
LEMMA RecomputeStep ==
  ASSUME RecomputeInv, [ScoreNext]_allVars
  PROVE  RecomputeInv'
<1>1. CASE \E w \in Workers : UpsertScore(w)
  BY <1>1, UpsertStep
<1>2. CASE \E w \in Workers : ReadSignals(w)
  BY <1>2, ReadStep
<1>3. CASE \E w \in Workers : CompleteScoreTask(w) \/ FailScoreTask(w) \/ StopDuringScore(w)
  BY <1>3, EndStep
<1>4. CASE \E w \in Workers : \E t \in Tasks : ClaimScoreTask(w, t)
  BY <1>4, ClaimStep
<1>5. CASE \E w \in Workers :
             /\ \/ TryRepairLock(w) \/ RequeueExpiredTasks(w) \/ ClaimNothing(w)
                \/ StartAgentRun(w) \/ WorkerStarts(w)
             /\ UNCHANGED scoreVars
  BY <1>5, LoopStep
<1>6. CASE \/ \E h \in Writers : LookUpOpenTask(h) \/ CommitSignal(h)
           \/ \E r \in Tools : CollectPlan(r) \/ ApplyPlan(r)
           \/ \E t \in Tasks : EnqueueLegacyTask(t)
           \/ \E t \in Tasks : (LeaseLapses(t) \/ BackoffElapses(t)) /\ UNCHANGED scoreVars
           \/ UNCHANGED allVars
  BY <1>6, OthersStep
<1>7. QED
  BY <1>1, <1>2, <1>3, <1>4, <1>5, <1>6 DEF ScoreNext

(* What an executor holds always covers its claim, and, if no claim came   *)
(* between its read and its upsert, every claim: however many workers      *)
(* recompute, die and lose their leases, and whatever the tool moves.      *)
THEOREM RecomputeInvHolds == ScoreSpec => []RecomputeInv
<1>1. RecomputeInv /\ [ScoreNext]_allVars => RecomputeInv'
  BY RecomputeStep
<1>2. QED
  BY <1>1, RecomputeInit, PTL DEF ScoreSpec

(* An upsert brings in all rows committed before its claim; two executors  *)
(* may still bring in theirs in the wrong order.                           *)
THEOREM UpsertCoversItsClaimHolds == ScoreSpec => UpsertCoversItsClaim
<1>1. RecomputeInv => \A w \in Workers : UpsertScore(w) => score' >= seenAtClaim[w]
  BY UpsertStep
<1>2. QED
  BY <1>1, RecomputeInvHolds, PTL DEF ScoreSpec, UpsertCoversItsClaim

(* A recompute that succeeds leaves a score that covers its claim, unless  *)
(* the score is an overtaken executor's: for any number of workers.        *)
THEOREM SuccessCoversItsClaimHolds == ScoreSpec => SuccessCoversItsClaim
<1>1. RecomputeInv =>
        \A w \in Workers : CompleteScoreTask(w) => stale \/ score >= seenAtClaim[w]
  BY DEF RecomputeInv, ScoreCovers, CompleteScoreTask
<1>2. QED
  BY <1>1, RecomputeInvHolds, PTL DEF ScoreSpec, SuccessCoversItsClaim
=============================================================================
