CONSTANTS
  w1 = w1
  r1 = r1
  r2 = r2
  slow = slow
  alice = alice
  Leader = primary
  NoSession = NoSession
  Reads = {r1, r2}
  Writes = {w1}
  Followers = {slow}
  Lag <- MCLag
  HeldAtCommit <- MCHeld
  Session <- MCSession
  Models <- MCModels
  MaxAttempts <- MCAttempts
  Hops = {0, 1}
  MayFreeze = {slow}
  MayTimeOut = {slow}
  MaxTime = 4
  OpsPerKeyBound = 3
  CheckMaxSteps = 6
SPECIFICATION Spec
CONSTRAINT Bounded
SYMMETRY Symmetric
INVARIANTS
  OraclesAgree
  VerdictSound
PROPERTY Promised
