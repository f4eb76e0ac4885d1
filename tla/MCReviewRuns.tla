---------------------------- MODULE MCReviewRuns ----------------------------
(* One run of either lane.  Runs share nothing in the model.                *)
EXTENDS ReviewRuns

MCNoises == {{}, {"api_error"}}
MCTasks == ReviewTasks
MCDependsOn == [t \in ReviewTasks |-> Predecessors(t)]
=============================================================================
