CONSTANTS
  r1 = r1
  r2 = r2
  r3 = r3
  r4 = r4
  Requests = {r1, r2, r3, r4}
  Topologies <- MCTopologies
  Issued <- MCIssued
SPECIFICATION ESpec
INVARIANTS
  CountersExact
  StreamsHeldInUse
  NoIdleUnit
PROPERTIES
  LinesAreFair
  EveryTransferEnds
