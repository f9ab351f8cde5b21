CONSTANTS
  r1 = r1
  r2 = r2
  r3 = r3
  Requests <- MCRequests
  Priority <- MCPriority
  Discipline = "priority"
  InitWorkers = 1
  InitCapacity = 3
  Sizes <- MCSizes
  FailureSpecs <- MCFailureSpecs
  OverlappingFaults = FALSE
  MaxTime = 2
  Warmup = 1
SPECIFICATION USpec
SYMMETRY Symmetric
INVARIANTS
  CountersAgree
  StatusTruthful
  WorkConserving
  Accounted
  AreasExact
PROPERTY ServedByRank
