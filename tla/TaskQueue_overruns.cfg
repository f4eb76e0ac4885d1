SPECIFICATION FairSpec
CONSTANTS
  build = build  check = check  embed = embed
  w1 = w1  w2 = w2  w3 = w3
  Tasks = {build, check}
  Workers = {w1, w2, w3}
  Operators = {}
  Queues = {"maintenance", "hardware"}
  None = None
  Priority <- MCPriority
  HomeQueue <- MCHomeQueue
  DependsOn <- MCDependsOn
  WorkerQueues <- MCWorkerQueues
  MaxAttempts = 2
  CrashProne = {w2}
  MaxCrashes = 1
  MaxOverruns = 1
  MaxRetries = 0
INVARIANTS
  LeaseColumnsAgree
  DuplicatesBounded
PROPERTIES
  EventuallyDrained
