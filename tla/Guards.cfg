CONSTANTS
  m1 = m1
  m2 = m2
  work = work
  events = events
  dead = dead
  NoQueue = NoQueue
  Messages <- MCMessages
  Queues <- MCQueues
  Sources <- MCSources
  Delivery <- MCDelivery
  ProducerRetries = {0, 1}
  MaxForks = 7
  MaxResumes = 0
  k = k
  Keys <- MCKeys
  KeyMaps <- MCKeyMaps
  GuardConfigs <- MCGuardConfigs
  EffectReports = {"silent", "not-found"}
  Guarded <- MCGuarded
SPECIFICATION CoordSpec
INVARIANTS
  Fenced
  ExecutedOnce
  AnsweredOnlyIfDone
PROPERTY ImplementsFencedLock
CHECK_DEADLOCK FALSE
