-------------------------- MODULE MCHardwareBuilds --------------------------
(* Instances of HardwareBuilds for TLC.  A task is written as its build,    *)
(* its kind and, for a register task, the predecessor that the request      *)
(* happened to pick and the device it names.                                *)
EXTENDS HardwareBuilds, TLC

CONSTANTS b1, u1, u2, w1, device,
          Predecessors, \* what the requests for a publish may pick
          DeviceNames   \* what they may name

MCTasks ==
  {<<b, k>> : b \in Builds, k \in DOMAIN StageStatus}
    \cup {<<b, "register", k, d>> : b \in {b1} \cap Builds, k \in Predecessors, d \in DeviceNames}
MCBuildOf == [t \in MCTasks |-> t[1]]
MCKindOf == [t \in MCTasks |-> t[2]]
MCDeviceOf == [t \in {t \in MCTasks : t[2] = "register"} |-> t[4]]
MCPriority == [t \in MCTasks |-> 0]
MCHomeQueue == [t \in MCTasks |-> "hardware.build"]
MCWorkerQueues == [w \in Workers |-> <<"hardware.build">>]
MCDependsOn ==
  [t \in MCTasks |-> CASE t[2] = "prepare" -> {}
                      [] t[2] = "reserve" -> {<<t[1], "prepare">>}
                      [] t[2] = "assemble" -> {<<t[1], "reserve">>}
                      [] t[2] = "validate" -> {<<t[1], "assemble">>}
                      [] t[2] = "register" -> {<<t[1], t[3]>>}]

MCUnitsOf == [b \in Builds |-> {u1, u2}]
=============================================================================
