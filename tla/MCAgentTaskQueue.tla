-------------------------- MODULE MCAgentTaskQueue --------------------------
(* Instances of AgentTaskQueue for TLC.  A chain build <- check, as the     *)
(* hardware lane creates, and an unrelated task of higher priority.         *)
EXTENDS AgentTaskQueue, TLC

CONSTANTS build, check, embed, w1, w2, w3

MCPriority == [t \in Tasks |-> IF t = embed THEN 100 ELSE 0]
MCHomeQueue == [t \in Tasks |-> IF t = embed THEN "maintenance" ELSE "hardware"]
MCDependsOn == [t \in Tasks |-> IF t = check THEN {build} ELSE {}]
MCWorkerQueues ==
  [w \in Workers |-> IF w = w1 THEN <<"maintenance", "hardware">> ELSE <<"hardware">>]
=============================================================================
