------------------------- MODULE ProfilePublication -------------------------
(***************************************************************************)
(* Operator profiles and the suggestions that improve them: a saga over    *)
(* two services and two databases.  services/api owns the profile and its  *)
(* change log (clartk_runtime); services/agent-memory turns repeated       *)
(* observations into suggestions, keeps their reviews and learns, in a     *)
(* last call, that one was published (clartk_dev).                         *)
(*                                                                         *)
(* One account is modelled; accounts share nothing here.  Transactions run *)
(* at READ COMMITTED and lock what they update, never what they read, so   *)
(* one that reads and then writes is two actions with the values it read   *)
(* in between.  A patch stands for the fields it sets, which no other      *)
(* patch sets.  Left out: the append-only preference events, accounts,     *)
(* sessions and roles.                                                     *)
(***************************************************************************)
EXTENDS Integers, FiniteSets, FiniteSetsExt

CONSTANTS
  Handlers,       \* request handlers of the runtime API
  Patches,        \* patches, and with them the signatures of observations
  ProfilePatches, \* those that set fields a profile has
  Suggestions,    \* rows memory.preference_suggestion may ever hold
  Null,           \* SQL NULL
  Threshold,      \* SUGGESTION_THRESHOLD
  MaxVersion,     \* bound on the profile's version
  MaxObserved     \* bound on the observations

ASSUME PublicationAssumption ==
  /\ ProfilePatches \subseteq Patches
  /\ Null \notin Patches /\ Null \notin Suggestions /\ Null \notin Nat
  /\ Threshold \in Nat \ {0} /\ MaxVersion \in Nat \ {0}
  /\ MaxObserved \in Nat

VARIABLES
  defaults,   \* the patches ui.operator_profile.defaults reflects
  version,    \* ui.operator_profile.version
  changes,    \* ui.profile_change: version, patch, suggestion or Null
  observed,   \* observed[p]: memory.preference_observation rows
  suggestion, \* suggestion[s]: status, patch, base, published change
  approvals,  \* the suggestions with an approving memory.preference_review
  handler     \* handler[h]: the request h serves and what it has read

runtimeVars == <<defaults, version, changes>>
memoryVars == <<observed, suggestion, approvals>>
pubVars == <<runtimeVars, memoryVars, handler>>

Idle == [at |-> "idle", patch |-> Null, suggestion |-> Null, base |-> Null,
         read |-> {}, outcome |-> Null]
NoSuggestion == [status |-> "absent", patch |-> Null, base |-> Null, change |-> Null]
Open == {"proposed", "approved"}

PublicationInit ==
  /\ defaults = {} /\ version = 1 /\ changes = {}
  /\ observed = [p \in Patches |-> 0]
  /\ suggestion = [s \in Suggestions |-> NoSuggestion]
  /\ approvals = {}
  /\ handler = [h \in Handlers |-> Idle]

\* The open suggestions for patch p; a unique index allows one.
OpenFor(p) == {s \in Suggestions : suggestion[s].status \in Open /\ suggestion[s].patch = p}

Observations == MapThenSumSet(LAMBDA p : observed[p], Patches)

Proceed(h, request) == handler' = [handler EXCEPT ![h] = request]
-----------------------------------------------------------------------------
(* The profile transaction of PATCH /v1/me/profile and of the publication: *)
(* read, merge, upsert, and log the change.                                *)

\* normalizeProfileDefaults keeps the fields a profile has.
Normalize(S) == S \cap ProfilePatches

\* Mutants: the patch replaces the profile; the version comes from the read.
MergeReplaces(h, next) ==
  /\ version < MaxVersion
  /\ defaults' = Normalize({handler[h].patch})
  /\ version' = version + 1
  /\ changes' = changes \cup {[version |-> version + 1, patch |-> handler[h].patch,
                               suggestion |-> handler[h].suggestion]}
  /\ Proceed(h, [handler[h] EXCEPT !.at = next, !.base = version + 1])
MergeVersionRead(h, next) ==
  /\ version < MaxVersion
  /\ defaults' = Normalize(handler[h].read \cup {handler[h].patch})
  /\ version' = handler[h].base + 1
  /\ changes' = changes \cup {[version |-> handler[h].base + 1, patch |-> handler[h].patch,
                               suggestion |-> handler[h].suggestion]}
  /\ Proceed(h, [handler[h] EXCEPT !.at = next, !.base = handler[h].base + 1])

\* upsertProfile and insertProfileChange up to the commit.  The defaults come
\* from what was read, the version from the row as it is now.
MergeProfile(h, next) ==
  /\ version < MaxVersion
  /\ defaults' = Normalize(handler[h].read \cup {handler[h].patch})
  /\ version' = version + 1
  /\ changes' = changes \cup {[version |-> version + 1, patch |-> handler[h].patch,
                               suggestion |-> handler[h].suggestion]}
  /\ Proceed(h, [handler[h] EXCEPT !.at = next, !.base = version + 1])

EditLoad(h, p) ==
  /\ handler[h].at = "idle"
  /\ Proceed(h, [Idle EXCEPT !.at = "edit", !.patch = p, !.read = defaults, !.base = version])
  /\ UNCHANGED <<runtimeVars, memoryVars>>

EditCommit(h) ==
  /\ handler[h].at = "edit"
  /\ MergeProfile(h, "observe")
  /\ UNCHANGED memoryVars

\* An observation sent as such; that of a saved view names no version.
ObserveDirectly(h, p, base) ==
  /\ handler[h].at = "idle"
  /\ Proceed(h, [Idle EXCEPT !.at = "observe", !.patch = p, !.base = base])
  /\ UNCHANGED <<runtimeVars, memoryVars>>
-----------------------------------------------------------------------------
(* create_preference_observation in agent-memory, one transaction.         *)

\* The transaction counts its own row.
Enough(p) == observed[p] + 1 >= Threshold

Observe(h) ==
  LET p == handler[h].patch IN
  /\ handler[h].at = "observe"
  /\ Proceed(h, [handler[h] EXCEPT
                   !.at = IF OpenFor(p) = {} /\ Enough(p) THEN "propose" ELSE "record"])
  /\ UNCHANGED <<runtimeVars, memoryVars>>

RecordObservation(h) ==
  LET p == handler[h].patch IN
  /\ handler[h].at = "record" /\ Observations < MaxObserved
  /\ observed' = [observed EXCEPT ![p] = @ + 1]
  /\ Proceed(h, Idle)
  /\ UNCHANGED <<runtimeVars, suggestion, approvals>>

\* If another transaction has proposed the same meanwhile, the INSERT fails and
\* so does the SELECT that handles it: the observation is rolled back too.
ProposeSuggestion(h) ==
  LET p == handler[h].patch IN
  /\ handler[h].at = "propose" /\ Observations < MaxObserved
  /\ IF OpenFor(p) # {}
     THEN UNCHANGED <<observed, suggestion>>
     ELSE /\ observed' = [observed EXCEPT ![p] = @ + 1]
          /\ \E s \in Suggestions :
               /\ suggestion[s] = NoSuggestion
               /\ suggestion' = [suggestion EXCEPT ![s] =
                    [NoSuggestion EXCEPT !.status = "proposed", !.patch = p,
                                         !.base = handler[h].base]]
  /\ Proceed(h, Idle)
  /\ UNCHANGED <<runtimeVars, approvals>>
-----------------------------------------------------------------------------
(* Review: the API has agent-memory check and then update the suggestion.  *)

ReviewLoad(h, s, outcome) ==
  /\ handler[h].at = "idle"
  /\ suggestion[s].status \notin {"absent", "published"}
  /\ Proceed(h, [Idle EXCEPT !.at = "review", !.suggestion = s, !.outcome = outcome])
  /\ UNCHANGED <<runtimeVars, memoryVars>>

\* A closed suggestion cannot be approved while another is open for its patch.
BreaksOpenIndex(s, outcome) ==
  outcome = "approved" /\ OpenFor(suggestion[s].patch) \ {s} # {}

\* The status is replaced whatever it is by now.
ReviewCommit(h) ==
  LET s == handler[h].suggestion  outcome == handler[h].outcome IN
  /\ handler[h].at = "review"
  /\ IF BreaksOpenIndex(s, outcome)
     THEN UNCHANGED <<suggestion, approvals>>
     ELSE /\ approvals' = IF outcome = "approved" THEN approvals \cup {s} ELSE approvals
          /\ suggestion' = [suggestion EXCEPT ![s].status = outcome]
  /\ Proceed(h, Idle)
  /\ UNCHANGED <<runtimeVars, observed>>
-----------------------------------------------------------------------------
(* Publication.                                                            *)

\* Mutant: any open suggestion may be published.
PublishCheckOpen(h, s) ==
  /\ handler[h].at = "idle"
  /\ suggestion[s].status \in Open
  /\ Proceed(h, [Idle EXCEPT !.at = "publish", !.suggestion = s, !.patch = suggestion[s].patch])
  /\ UNCHANGED <<runtimeVars, memoryVars>>

PublishCheck(h, s) ==
  /\ handler[h].at = "idle"
  /\ suggestion[s].status = "approved"
  /\ Proceed(h, [Idle EXCEPT !.at = "publish", !.suggestion = s, !.patch = suggestion[s].patch])
  /\ UNCHANGED <<runtimeVars, memoryVars>>

\* A suggestion for another version than the one read is refused.
PublishLoad(h) ==
  LET base == suggestion[handler[h].suggestion].base IN
  /\ handler[h].at = "publish"
  /\ IF base \notin {Null, version}
     THEN Proceed(h, Idle)
     ELSE Proceed(h, [handler[h] EXCEPT !.at = "merge", !.read = defaults, !.base = version])
  /\ UNCHANGED <<runtimeVars, memoryVars>>

PublishCommit(h) ==
  /\ handler[h].at = "merge"
  /\ MergeProfile(h, "mark")
  /\ UNCHANGED memoryVars

\* record_preference_publication asks nothing of the status it replaces.
MarkPublished(h) ==
  /\ handler[h].at = "mark"
  /\ suggestion' = [suggestion EXCEPT ![handler[h].suggestion] =
       [@ EXCEPT !.status = "published", !.change = handler[h].base]]
  /\ Proceed(h, Idle)
  /\ UNCHANGED <<runtimeVars, observed, approvals>>

\* A transaction is rolled back, a call to agent-memory does not arrive or is
\* answered with an error, or the API process ends: the request ends where it
\* is, what it committed stays, and nothing takes it up again.
RequestFails(h) ==
  /\ handler[h].at # "idle"
  /\ Proceed(h, Idle)
  /\ UNCHANGED <<runtimeVars, memoryVars>>
-----------------------------------------------------------------------------
PublicationNext ==
  \E h \in Handlers :
    \/ \E p \in Patches : \/ EditLoad(h, p)
                          \/ \E base \in {Null, version} : ObserveDirectly(h, p, base)
    \/ EditCommit(h)
    \/ Observe(h) \/ RecordObservation(h) \/ ProposeSuggestion(h)
    \/ \E s \in Suggestions :
         \/ PublishCheck(h, s)
         \/ \E outcome \in {"approved", "rejected"} : ReviewLoad(h, s, outcome)
    \/ ReviewCommit(h)
    \/ PublishLoad(h) \/ PublishCommit(h) \/ MarkPublished(h)
    \/ RequestFails(h)

PublicationSpec == PublicationInit /\ [][PublicationNext]_pubVars
-----------------------------------------------------------------------------
Steps == {"idle", "edit", "observe", "record", "propose", "review", "publish",
          "merge", "mark"}
Requests ==
  [at : Steps, patch : Patches \cup {Null}, suggestion : Suggestions \cup {Null},
   base : 1..MaxVersion \cup {Null}, read : SUBSET ProfilePatches,
   outcome : {"approved", "rejected", Null}]
SuggestionRows ==
  [status : Open \cup {"absent", "rejected", "published"}, patch : Patches \cup {Null},
   base : 1..MaxVersion \cup {Null}, change : 1..MaxVersion \cup {Null}]

PublicationTypeOK ==
  /\ defaults \subseteq ProfilePatches
  /\ version \in 1..MaxVersion
  /\ changes \subseteq [version : 1..MaxVersion, patch : Patches,
                        suggestion : Suggestions \cup {Null}]
  /\ observed \in [Patches -> Nat]
  /\ suggestion \in [Suggestions -> SuggestionRows]
  /\ approvals \subseteq Suggestions
  /\ handler \in [Handlers -> Requests]

(* Overlapping writers still give every change its own version, without a  *)
(* gap: the log and the version always tell the same number of changes.    *)
ChangeLogGapless ==
  /\ PublicationTypeOK
  /\ {c.version : c \in changes} = 2..version
  /\ Cardinality(changes) = version - 1

\* No patch reaches the profile from a suggestion nobody approved.
PublishedWasApproved ==
  \A c \in changes : c.suggestion # Null => c.suggestion \in approvals

\* What agent-memory calls published is a change the runtime database holds.
PublishedIsLogged ==
  \A s \in Suggestions : suggestion[s].status = "published" =>
    [version |-> suggestion[s].change, patch |-> suggestion[s].patch, suggestion |-> s]
      \in changes

\* One open suggestion for each patch, and none without its observations.
SuggestionsRestOnEvidence ==
  \A s \in Suggestions : suggestion[s].status # "absent" =>
    /\ observed[suggestion[s].patch] >= Threshold
    /\ Cardinality(OpenFor(suggestion[s].patch)) <= 1

(* The two databases, which share no transaction, tell one story of each   *)
(* suggestion, whichever calls are lost and whichever requests overlap: it *)
(* rests on observations, enters the profile only after its approval, and  *)
(* is called published only once the change is there.                      *)
DatabasesAgree ==
  PublishedWasApproved /\ PublishedIsLogged /\ SuggestionsRestOnEvidence

(* A writer undoes something only if a change was committed after it read  *)
(* the profile (index.ts:1649): updates are lost to overlapping writers    *)
(* and to nothing else.  The change need not be the lost one: a writer in  *)
(* between may have brought an older patch back from its own old read.     *)
LosesOnlyOverlapping ==
  [][\A h \in Handlers :
       handler'[h] # handler[h] /\ ~(defaults \subseteq defaults') =>
         \E c \in changes : c.version > handler[h].base]_pubVars

(* The stale check means that a suggestion changes the version of the      *)
(* profile it was made for, and no later one.                              *)
PublishedOnItsBase ==
  \A c \in changes : c.suggestion # Null =>
    suggestion[c.suggestion].base \in {Null, c.version - 1}
=============================================================================
