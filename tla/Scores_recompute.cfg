SPECIFICATION ScoreSpec
CONSTANTS
  Tasks = {t1, t2, legacy}
  Workers = {w1, w2}
  Writers = {h1, h2}
  Tools = {r1}
  Operators = {}
  Queues = {"default", "preferences.recompute"}
  DefaultQueue = "default"
  PreferenceQueue = "preferences.recompute"
  legacy = legacy
  w1 = w1
  w2 = w2
  None = None
  Priority <- MCPriority
  HomeQueue <- MCHomeQueue
  DependsOn <- MCDependsOn
  WorkerQueues <- MCWorkerQueues
  MaxAttempts = 1
  CrashProne = {w1}
  MaxCrashes = 1
  MaxOverruns = 0
  MaxRetries = 0
  MaxSignals = 2
SYMMETRY MCSymmetry
INVARIANTS
  RowsReachScore
PROPERTIES
  SuccessCoversItsClaim
