----------------------- MODULE MCHardwareDeployments -----------------------
(* Two operators and the worker on one run with the probe and three manual  *)
(* steps: enough for a step to be opened, confirmed and found by different  *)
(* parties.                                                                 *)
EXTENDS HardwareDeployments

MCDependsOn == [t \in {"probe"} |-> {}]
=============================================================================
