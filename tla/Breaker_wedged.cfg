CONSTANTS
  c1 = c1
  c2 = c2
  c3 = c3
  c4 = c4
  Calls = {c1, c2, c3}
  Fanout = 1
  FailureCount = 3
  TripAt = 2
  RecoveryTimeout = 2
  HalfOpenRequests = 1
SPECIFICATION Spec
PROPERTY HalfOpenResolves
