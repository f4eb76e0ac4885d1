SPECIFICATION Spec
CONSTANTS
  Tasks = {"probe"}
  DependsOn <- MCDependsOn
  MaxAttempts = 2
  Operators = {o1, o2}
  LastStep = 4
  RequestLimit = 4
  CrashLimit = 1
INVARIANTS
  CompletedRunsConfirmed
  RunningMeansProbing
PROPERTIES
  ManualStepsFinal
  DeploymentsSettle
CHECK_DEADLOCK FALSE
