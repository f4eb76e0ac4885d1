SPECIFICATION Spec
CONSTANTS
  build = build  check = check  embed = embed
  w1 = w1  w2 = w2  w3 = w3
  Tasks = {build, check}
  Workers = {w1, w2}
  Operators = {o1}
  Queues = {"maintenance", "hardware"}
  None = None
  Priority <- MCPriority
  HomeQueue <- MCHomeQueue
  DependsOn <- MCDependsOn
  WorkerQueues <- MCWorkerQueues
  MaxAttempts = 2
  CrashProne = {w1, w2}
  MaxCrashes = 2
  MaxOverruns = 0
  MaxRetries = 1
INVARIANTS
  ExclusiveExecution
  AttemptsAccounted
  StartedAfterPrerequisites
PROPERTIES
  SettledUntilRetried
  ImplementsLifecycle
