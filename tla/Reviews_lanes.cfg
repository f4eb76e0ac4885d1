SPECIFICATION Spec
CONSTANTS
  Runs = {"r"}
  Tasks <- MCTasks
  DependsOn <- MCDependsOn
  MaxAttempts = 2
  CrashLimit = 2
  RetryLimit = 1
  Retriable = {"analyze", "promote", "preview_analyze"}
  Panels = 2
  Noises <- MCNoises
INVARIANTS
  StatusTellsTasks
  JudgedAsCaptured
  BaselineAsPromoted
PROPERTIES
  VerdictsKept
  ReviewsConclude
CHECK_DEADLOCK FALSE
