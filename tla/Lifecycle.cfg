CONSTANTS
  r1 = r1
  r2 = r2
  r3 = r3
  region = region
  zone = zone
  node = node
  Domains = {region, zone}
  NodeItself = node
  Requests = {r1, r2, r3}
  Priority <- MCPriority
  Discipline = "lifo"
  InitWorkers = 1
  InitCapacity = 2
  Sizes = {}
  FailureSpecs <- MCFailureSpecs
  OverlappingFaults = FALSE
  MaxTime = 0
  Arrivals = {0, 1}
  Budgets = {3, 8}
  ServiceTimes = {1, 5}
  NodeTimeout = 4
  NodeErrors = TRUE
  MaxAttempts = 2
  RetryDelay = 1
  Hop = 1
  FaultPlans <- MCFaultPlans
SPECIFICATION LSpec
INVARIANTS
  OneAttemptAtATime
  DeadlineBinds
  DownWhileHeld
PROPERTIES
  EveryRequestEnds
