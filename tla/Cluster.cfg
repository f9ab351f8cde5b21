CONSTANTS
  api = api
  batch = batch
  Workloads <- MCWorkloads
  PodSize <- MCPodSize
  MachineSize <- MCMachineSize
  MachineCount = 2
  MaxMachines = 3
  Instances <- MCInstances
  Autoscaled = api
  MinInstances = 1
  MaxInstances = 4
  PodStartup = 2
  RescheduleDelay = 3
  MachineProvision = 2
  TickInterval = 2
  Plans <- MCPlans
  MaxTicks = 4
SPECIFICATION Spec
INVARIANTS
  ResourcesExact
  NoPodWaitsBesideRoom
  CapacityIsReady
PROPERTY EveryPodSettles
