--------------------------- MODULE ReviewScripts ----------------------------
(***************************************************************************)
(* What the scripts of the review lanes make of their inputs: the capture  *)
(* and the analysis of a UI review (scripts/ui-review-lib.mjs), the render *)
(* and the analysis of a preview (scripts/presentation-preview-*.mjs).     *)
(* Pictures, texts and layouts are left out; what the listeners of the     *)
(* browser and the snapshots of the panels report is a set of categories.  *)
(***************************************************************************)
EXTENDS Integers

CONSTANTS Panels,  \* how many panels a scenario set shows
          Noises   \* the sets of categories a browser session may report

\* The findings an analysis can make.  A picture that differs a little from
\* its baseline, though by more than the threshold, is "visual_drift" here.
Severity == [capture_error |-> "critical", page_error |-> "critical", api_error |-> "error",
             console_error |-> "error", request_failure |-> "error",
             missing_content |-> "error", shell_content_missing |-> "error",
             top_level_scroll |-> "error", navigation_truncation |-> "error",
             visual_diff |-> "error", visual_drift |-> "warning",
             loading_stall |-> "warning", layout_overflow |-> "warning"]

ASSUME ScriptsAssumption ==
  Panels \in Nat \ {0} /\ Noises \subseteq SUBSET DOMAIN Severity

\* launchReviewBrowser: Edge is tried when Chromium lacks a library, and
\* only then; a missing library that cannot be fetched is not held against it.
Launched(fault, edge) ==
  CASE fault = "none" -> "chromium"
    [] fault = "library" /\ edge -> "edge"
    [] OTHER -> "none"

Launches == {Launched(f, e) : f \in {"none", "library", "other"}, e \in BOOLEAN}

\* As if only a capture of nothing were an error.
CapturedLeniently(n, noise) == [steps |-> n, error |-> n = 0, seen |-> noise]

\* The nth panel is shown and has settled; after 20 s it is taken as it is.
\* An error before that ends the loop over the panels.
Captured(n, noise) == [steps |-> n, error |-> n < Panels, seen |-> noise]

\* captureDevConsoleReview: whatever happens, a summary is written and the
\* script ends well.  Without a browser there is nothing to report.
Captures == UNION {IF b = "none" THEN {Captured(0, {})}
                   ELSE {Captured(n, z) : n \in 0..Panels, z \in Noises} : b \in Launches}

\* analyzeDevConsoleReview: drift is what comparing the pictures with their
\* baselines shows; a panel without a baseline is not compared.
Drifts == {{}, {"visual_drift"}, {"visual_diff"}}
Analyses(capture, hasBaseline) ==
  {(IF capture.error THEN {"capture_error"} ELSE {}) \cup capture.seen \cup drift :
     drift \in IF hasBaseline /\ capture.steps > 0 THEN Drifts ELSE {{}}}

Outcome(findings) ==
  IF \E f \in findings : Severity[f] \in {"error", "critical"} THEN "failed" ELSE "passed"

-----------------------------------------------------------------------------
(***************************************************************************)
(* Previews.  A deck is its number of slides, known by their position; a   *)
(* companion dresses some of them with media.                              *)
(***************************************************************************)
Decks == {0, Panels}
Companions == [given : BOOLEAN, valid : BOOLEAN, dresses : {{}, {1}, {Panels + 1}},
               media : {"remote", "local", "missing"}]

\* mergeDeckWithCompanion refuses a slide the deck has not.
Merges(deck, c) == c.dresses \subseteq 1..deck

\* loadDeckSources
Loads(deck, c) == c.given => c.valid /\ Merges(deck, c)

\* materializeDeckArtifacts copies what is local.
Materializes(c) == c.given /\ c.dresses # {} => c.media # "missing"

\* presentation-preview-render.mjs: the manifests of the decks it accepts.
Renders ==
  {[steps |-> deck, error |-> FALSE, seen |-> {}] :
     deck \in {n \in Decks : \E c \in Companions : Loads(n, c) /\ Materializes(c)}}

\* presentation-preview-analyze.mjs: without a browser no slide is looked at,
\* and the script ends well.  Errors of the page are not among the warnings.
PreviewWarnings == SUBSET {"missing_libraries", "no_browser"}
=============================================================================
