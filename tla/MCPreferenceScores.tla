------------------------- MODULE MCPreferenceScores -------------------------
(* Instances of PreferenceScores for TLC: interchangeable tasks in the      *)
(* queue preferences.recompute and, where an instance has it, one legacy    *)
(* row in the default queue.                                                *)
EXTENDS PreferenceScores, TLC

CONSTANTS legacy, w1, w2

MCPriority == [t \in Tasks |-> 90]
MCHomeQueue ==
  [t \in Tasks |-> IF t = legacy THEN "default" ELSE "preferences.recompute"]
MCDependsOn == [t \in Tasks |-> {}]
MCWorkerQueues ==
  [w \in Workers |-> IF w = w1 THEN <<"preferences.recompute", "default">>
                               ELSE <<"preferences.recompute">>]
MCSymmetry == Permutations(Tasks \ {legacy}) \cup Permutations(Writers)
=============================================================================
