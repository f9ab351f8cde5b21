CONSTANTS
  m1 = m1
  m2 = m2
  work = work
  events = events
  dead = dead
  NoQueue = NoQueue
  Messages <- MCMessages
  Queues <- MCQueues
  Sources <- MCSources
  Delivery <- MCDelivery
  ProducerRetries = {0, 1}
  MaxResumes = 1
SPECIFICATION DeliverySpec
INVARIANTS
  RedeliveredOnce
  ReceiveLimitHeld
  AcceptedWorkConserved
PROPERTY EveryMessageSettles
CHECK_DEADLOCK FALSE
