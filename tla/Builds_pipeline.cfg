SPECIFICATION FairHardwareSpec
CONSTANTS
  b1 = b1  u1 = u1  u2 = u2  w1 = w1  device = device
  Builds = {b1}
  Units = {u1, u2}
  UnitsOf <- MCUnitsOf
  Physical = {b1}
  Predecessors = {"prepare", "validate"}
  DeviceNames = {device}
  Blank = Blank
  BuildOf <- MCBuildOf
  KindOf <- MCKindOf
  DeviceOf <- MCDeviceOf
  Tasks <- MCTasks
  Workers = {w1, w2}
  Operators = {}
  Queues = {"hardware.build"}
  None = None
  Priority <- MCPriority
  HomeQueue <- MCHomeQueue
  DependsOn <- MCDependsOn
  WorkerQueues <- MCWorkerQueues
  MaxAttempts = 2
  CrashProne = {w2}
  MaxCrashes = 1
  MaxOverruns = 0
  MaxRetries = 0
  MaxRequests = 1
INVARIANTS
  StatusMatchesTasks
  StagesRestOnEarlierOnes
PROPERTIES BuildConcludes
