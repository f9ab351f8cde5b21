CONSTANTS
  d1 = d1
  d2 = d2
  d3 = d3
  c1 = c1
  c2 = c2
  k1 = k1
  k2 = k2
  lane = lane
  None = None
  NoKey = NoKey
  NoLane = NoLane
  Requests <- MCRequests
  Keys = {k1, k2}
  Lanes = {lane}
  Key <- MCKey
  Lane <- MCLane
  Change <- MCChange
  MaxRetries <- MCMaxRetries

SPECIFICATION HeldSpec

INVARIANTS
  SingleFlight
  OrderedConsumption

PROPERTY
  HeldRequestsGoOn

CHECK_DEADLOCK FALSE
