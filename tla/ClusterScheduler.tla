--------------------------- MODULE ClusterScheduler ---------------------------
(***************************************************************************)
(* A cluster of machines onto which the replicas of scheduled workloads    *)
(* are placed as pods: placement, a failure of machines, detection and     *)
(* eviction, recovery in place, an autoscaler of one workload and the      *)
(* cluster's own, which boots machines. Translated from                    *)
(* cluster/clusterScheduler.ts, its handlers in engine.ts and the stepping *)
(* policy of traits/autoscaler.ts.                                         *)
(*                                                                         *)
(* All of it runs in events of one priority, taken in the order of their   *)
(* times and then of their insertion. The handlers nest, so the state of   *)
(* the cluster is a record that the operators pass on. What utilization    *)
(* the autoscaler reads is left open.                                      *)
(***************************************************************************)
EXTENDS Integers, Sequences, FiniteSets, FiniteSetsExt, SequencesExt

CONSTANTS
  Workloads, PodSize,        \* [Workloads -> the vcpu and ram of one pod]
  MachineSize,               \* [vcpu, ram]
  MachineCount, MaxMachines,
  Instances,                 \* [Workloads -> Nat], the replicas configured
  Autoscaled,                \* the workload with an autoscaler
  MinInstances, MaxInstances,
  PodStartup, RescheduleDelay, MachineProvision, TickInterval,
  Plans,                     \* placement strategy, and when how many machines fail and recover
  MaxTicks                   \* bound on the autoscaler's ticks

Never == -1
SizeType == [vcpu : Nat, ram : Nat]

ASSUME ClusterAssumption ==
  /\ IsFiniteSet(Workloads)
  /\ PodSize \in [Workloads -> SizeType] /\ MachineSize \in SizeType
  /\ MachineCount \in Nat /\ MaxMachines \in Nat /\ MachineCount <= MaxMachines
  /\ Instances \in [Workloads -> Nat] /\ Autoscaled \in Workloads
  /\ MinInstances \in Nat \ {0} /\ MaxInstances \in Nat /\ MinInstances <= MaxInstances
  /\ {PodStartup, RescheduleDelay, MachineProvision, MaxTicks} \subseteq Nat
  /\ TickInterval \in Nat \ {0}
  /\ \A p \in Plans : /\ p.strategy \in {"spread", "bin-pack"}
                      /\ p.failAt \in Nat /\ p.count \in Nat \ {0}
                      /\ p.recoverAt \in Nat \cup {Never}

VARIABLES
  plan, now,
  cluster,    \* the scheduler: its machines, pods and areas, and the events due
  failed,     \* failedMachinesByCluster: the machines of the last failure
  instances,  \* the autoscaler's current count
  ticks,
  capacity,   \* [Workloads -> Nat], the replicas each workload's node is sized to
  total       \* history: what the areas should be by now

vars == <<plan, now, cluster, failed, instances, ticks, capacity, total>>

Machine(booting) ==
  [up |-> ~booting, provisioning |-> booting, used |-> [vcpu |-> 0, ram |-> 0]]

NoMachine == 0
Places(c) == DOMAIN c.machines
\* A pod's id is its place in the order of creation; a deleted pod leaves a gap.
Gone == [state |-> "gone"]
PodIds(c) == {id \in DOMAIN c.pods : c.pods[id].state # "gone"}
InState(c, s) == {id \in PodIds(c) : c.pods[id].state = s}
PodsOf(c, w) == {id \in PodIds(c) : c.pods[id].workload = w}
ReadyCount(c, w) == Cardinality(PodsOf(c, w) \cap InState(c, "ready"))
SizeOf(c, id) == PodSize[c.pods[id].workload]
Smaller(a, b) == IF a <= b THEN a ELSE b

-----------------------------------------------------------------------------
(* Time-weighted areas *)

Rates(c) ==
  LET up == {m \in Places(c) : c.machines[m].up}
  IN  [ready |-> Cardinality(InState(c, "ready")),
       pending |-> Cardinality(InState(c, "pending")),
       allocated |-> SumFunction([m \in up |-> c.machines[m].used.vcpu]),
       allocatable |-> MachineSize.vcpu * Cardinality(up)]

Accumulate(area, rates, dt) == [k \in DOMAIN area |-> area[k] + rates[k] * dt]

\* Up to t, at the rates in force since the last call.
Accrue(c, t) ==
  IF t <= c.accruedAt THEN c
  ELSE [c EXCEPT !.area = Accumulate(@, Rates(c), t - c.accruedAt), !.accruedAt = t]

-----------------------------------------------------------------------------
(* Events, pods and placement *)

\* insert: behind every event that is due no later.
Schedule(c, t, action, arg) ==
  LET n == Cardinality({i \in DOMAIN c.events : c.events[i].at <= t})
  IN  [c EXCEPT !.events = SubSeq(@, 1, n) \o <<[at |-> t, action |-> action, arg |-> arg]>>
                             \o SubSeq(@, n + 1, Len(@))]

\* The cluster after op for each of the numbers, the lowest first. The set of one
\* that is handed on has TLC evaluate every step once.
Each(op(_, _), c, ids) ==
  CHOOSE d \in MapThenFoldSet(LAMBDA id, one : {op(e, id) : e \in one}, {c},
                              LAMBDA id : id, LAMBDA s : Max(s), ids) : TRUE

ScheduleEach(c, ids, t, action) ==
  Each(LAMBDA d, id : Schedule(d, t, action, id), c, ids)

CreatePods(c, w, n, t, lossAt) ==
  [c EXCEPT !.pods = @ \o [i \in 1 .. n |->
     [workload |-> w, state |-> "pending", machine |-> NoMachine,
      created |-> t, readyAt |-> Never, lossAt |-> lossAt]]]

DeletePod(c, id) == [c EXCEPT !.pods[id] = Gone]

Fits(machine, size) ==
  /\ machine.up
  /\ machine.used.vcpu + size.vcpu <= MachineSize.vcpu
  /\ machine.used.ram + size.ram <= MachineSize.ram

Fitting(c, id) == {m \in Places(c) : Fits(c.machines[m], SizeOf(c, id))}

\* The dominant share of a machine, over the common denominator.
AllocationAfter(machine, size) ==
  LET cpu == (machine.used.vcpu + size.vcpu) * MachineSize.ram
      ram == (machine.used.ram + size.ram) * MachineSize.vcpu
  IN  IF cpu >= ram THEN cpu ELSE ram

\* Spread prefers the machine with the fewest replicas of the workload, then the
\* least allocated; bin-pack the fullest. The lower index breaks a tie.
ChooseMachine(c, id) ==
  LET w == c.pods[id].workload
      Replicas(m) == Cardinality({p \in PodsOf(c, w) : c.pods[p].machine = m})
      Share(m) == AllocationAfter(c.machines[m], PodSize[w])
      Key(m) == IF plan.strategy = "spread" THEN <<Replicas(m), Share(m), m>>
                ELSE <<0, -Share(m), m>>
      Precedes(a, b) == \E i \in 1 .. 3 : a[i] < b[i] /\ \A j \in 1 .. i - 1 : a[j] = b[j]
  IN  CHOOSE m \in Fitting(c, id) :
        \A n \in Fitting(c, id) \ {m} : Precedes(Key(m), Key(n))

Plus(a, b) == [vcpu |-> a.vcpu + b.vcpu, ram |-> a.ram + b.ram]
Minus(a, b) == [vcpu |-> a.vcpu - b.vcpu, ram |-> a.ram - b.ram]

Bind(c, id, m) ==
  [c EXCEPT !.pods[id].machine = m, !.machines[m].used = Plus(@, SizeOf(c, id))]

\* Mutant: a pod that goes leaves its machine as full as it was.
UnbindNothing(c, id) == c

Unbind(c, id) ==
  LET m == c.pods[id].machine
  IN  IF m = NoMachine THEN c
      ELSE [c EXCEPT !.pods[id].machine = NoMachine,
                     !.machines[m].used = Minus(@, SizeOf(c, id))]

\* One pod starts on the machine chosen, if it fits on any; recordPodStarts then
\* schedules the end of its startup.
Start(c, id, t) ==
  IF Fitting(c, id) = {} THEN c
  ELSE LET bound == Bind(c, id, ChooseMachine(c, id))
           started == [bound EXCEPT !.pods[id].state = "starting",
                                    !.pods[id].readyAt = t + PodStartup]
       IN  Schedule(started, t + PodStartup, "pod-ready", id)

\* The pods of the steady state a run starts in are ready at once.
StartInstantly(c, id) ==
  IF Fitting(c, id) = {} THEN c
  ELSE [Bind(c, id, ChooseMachine(c, id)) EXCEPT !.pods[id].state = "ready",
                                                 !.pods[id].readyAt = 0]

SchedulePending(c, t) ==
  Each(LAMBDA d, id : Start(d, id, t), Accrue(c, t), InState(c, "pending"))

\* A pod goes into the first bin with room for it, or into a new one.
FirstFit(c, bins, id) ==
  LET size == SizeOf(c, id)
      Holds(bin) == size.vcpu <= bin.vcpu /\ size.ram <= bin.ram
      room == {b \in DOMAIN bins : Holds(bins[b])}
  IN  IF ~Holds(MachineSize) THEN bins
      ELSE IF room = {} THEN Append(bins, Minus(MachineSize, size))
      ELSE [bins EXCEPT ![Min(room)] = Minus(@, size)]

Booting(c) == Cardinality({m \in Places(c) : c.machines[m].provisioning})

\* How many machines the pending pods fill, the booting ones first.
Packed(c) ==
  Each(LAMBDA bins, id : FirstFit(c, bins, id), [m \in 1 .. Booting(c) |-> MachineSize],
       InState(c, "pending"))

MachinesNeededForPending(c) ==
  Smaller(MaxMachines - Len(c.machines), Len(Packed(c)) - Booting(c))

MaybeProvisionMachines(c, t) ==
  LET n == MachinesNeededForPending(c)
      d == [Accrue(c, t) EXCEPT !.machines = @ \o [i \in 1 .. n |-> Machine(TRUE)]]
  IN  IF n = 0 THEN c
      ELSE ScheduleEach(d, Places(d) \ Places(c), t + MachineProvision, "machine-joined")

\* Mutant: the cluster's autoscaler reacts, but nothing is placed.
ProvisionOnly(c, t) == MaybeProvisionMachines(c, t)

RunClusterScheduling(c, t) == MaybeProvisionMachines(SchedulePending(c, t), t)

-----------------------------------------------------------------------------
Empty ==
  [machines |-> [m \in 1 .. MachineCount |-> Machine(FALSE)],
   pods |-> <<>>, desired |-> Instances, events |-> <<>>,
   area |-> [ready |-> 0, pending |-> 0, allocated |-> 0, allocatable |-> 0],
   accruedAt |-> 0]

\* The workloads are registered in some order; their replicas are placed in it.
InitialCluster(p, order) ==
  LET ticking == Schedule(Empty, TickInterval, "trait-tick", NoMachine)
      Ask(c, i) == CreatePods(c, order[i], Instances[order[i]], 0, Never)
      asked == Each(Ask, ticking, DOMAIN order)
      placed == Each(StartInstantly, asked, PodIds(asked))
      grown == MaybeProvisionMachines(placed, 0)
      failing == Schedule(grown, p.failAt, "machine-failure", p.count)
  IN  IF p.recoverAt > p.failAt
        THEN Schedule(failing, p.recoverAt, "machine-recovery", NoMachine) ELSE failing

Clamp(n) == IF n < MinInstances THEN MinInstances ELSE Smaller(n, MaxInstances)

Init ==
  /\ plan \in Plans /\ now = 0
  /\ \E order \in SetToSeqs(Workloads) : cluster = InitialCluster(plan, order)
  /\ failed = {} /\ ticks = 0
  /\ instances = Clamp(Instances[Autoscaled])
  /\ capacity = [w \in Workloads |-> ReadyCount(cluster, w)]
  /\ total = Empty.area

\* Mutant: a pod that is ready goes unnoticed until the next change.
ApplyNothing(ws) == UNCHANGED capacity

\* applyClusterCapacity for each of the workloads named.
Apply(ws) ==
  capacity' = [w \in Workloads |-> IF w \in ws THEN ReadyCount(cluster', w) ELSE capacity[w]]

\* The event taken, and the cluster without it.
Next1 == Head(cluster.events)
Taken == [cluster EXCEPT !.events = Tail(@)]
Due(action) == cluster.events # <<>> /\ Next1.at = now /\ Next1.action = action
Kept == UNCHANGED <<plan, now, total>>

PodReady ==
  /\ Due("pod-ready")
  /\ LET id == Next1.arg
         c == Accrue(Taken, now)
     IN  IF id \in InState(Taken, "starting")
           THEN /\ cluster' = [c EXCEPT !.pods[id].state = "ready",
                                        !.pods[id].lossAt = Never]
                /\ Apply({c.pods[id].workload})
           ELSE cluster' = Taken /\ UNCHANGED capacity
  /\ UNCHANGED <<failed, instances, ticks>> /\ Kept

\* What stops when the machines ms fail.
LostWith(c, ms) ==
  {id \in InState(c, "ready") \cup InState(c, "starting") : c.pods[id].machine \in ms}

Lose(c, ms, t) ==
  LET Lost(id, pod) == IF id \in LostWith(c, ms)
        THEN [pod EXCEPT !.state = "lost", !.readyAt = Never, !.lossAt = t] ELSE pod
      Failed(m, machine) == IF m \in ms THEN [machine EXCEPT !.up = FALSE] ELSE machine
  IN  [c EXCEPT !.pods = [id \in DOMAIN c.pods |-> Lost(id, c.pods[id])],
                !.machines = [m \in Places(c) |-> Failed(m, c.machines[m])]]

\* Mutant: nobody notices the failure.
EvictNever(c, ms, t) == c
EvictLater(c, ms, t) == ScheduleEach(c, ms, t + RescheduleDelay, "evict")

MachineFailure ==
  /\ Due("machine-failure")
  /\ LET c == Accrue(Taken, now)
         up == {m \in Places(c) : c.machines[m].up}
         ms == {m \in up : Cardinality({n \in up : n <= m}) <= Next1.arg}
     IN  /\ cluster' = EvictLater(Lose(c, ms, now), ms, now)
         /\ Apply({c.pods[id].workload : id \in LostWith(c, ms)})
         /\ failed' = IF ms = {} THEN failed ELSE ms
  /\ UNCHANGED <<instances, ticks>> /\ Kept

\* A replacement inherits the time of the loss.
ReplaceLost(c, id, t) ==
  LET pod == c.pods[id]
  IN  CreatePods(DeletePod(Unbind(c, id), id), pod.workload, 1, t, pod.lossAt)

Evict ==
  /\ Due("evict")
  /\ LET c == Accrue(Taken, now)
         ids == {id \in InState(c, "lost") : c.pods[id].machine = Next1.arg}
         evicted == Each(LAMBDA d, id : ReplaceLost(d, id, now), c, ids)
     IN  cluster' = RunClusterScheduling(evicted, now)
  /\ UNCHANGED <<failed, instances, ticks, capacity>> /\ Kept

Returning(c, m) == [c EXCEPT !.machines[m].up = TRUE]

Return(c, m, t) == Returning(Accrue(c, t), m)

Down(c, m) == m \in Places(c) /\ ~c.machines[m].up /\ ~c.machines[m].provisioning

\* What is still there starts again in place, and its room stays taken.
RecoverMachine(c, m, t) ==
  LET ids == {id \in InState(c, "lost") : c.pods[id].machine = m}
      up == Each(LAMBDA d, id : [d EXCEPT !.pods[id].state = "starting",
                                          !.pods[id].readyAt = t + PodStartup],
                 Return(c, m, t), ids)
  IN  IF Down(c, m) THEN ScheduleEach(up, ids, t + PodStartup, "pod-ready") ELSE c

MachineRecovery ==
  /\ Due("machine-recovery")
  /\ LET c == Each(LAMBDA d, m : RecoverMachine(d, m, now), Taken, failed)
     IN  cluster' = RunClusterScheduling(c, now)
  /\ failed' = {}
  /\ UNCHANGED <<instances, ticks, capacity>> /\ Kept

MachineJoined ==
  /\ Due("machine-joined")
  /\ LET m == Next1.arg
         c == [Accrue(Taken, now) EXCEPT !.machines[m].provisioning = FALSE,
                                         !.machines[m].up = TRUE]
     IN  cluster' = IF m \in Places(Taken) /\ Taken.machines[m].provisioning
                      THEN RunClusterScheduling(c, now) ELSE Taken
  /\ UNCHANGED <<failed, instances, ticks, capacity>> /\ Kept

-----------------------------------------------------------------------------
(* The autoscaler *)

Rank == [pending |-> 0, lost |-> 1, starting |-> 2, ready |-> 3]

\* The pods a scale-down by n may delete: pending first, ready last, the newest of
\* those created at different times first. The code compares ids as texts among
\* those of one time, which is left open here.
Victims(c, w, n) ==
  LET Rather(a, b) ==
        LET p == c.pods[a]  q == c.pods[b]
        IN  \/ Rank[p.state] < Rank[q.state]
            \/ Rank[p.state] = Rank[q.state] /\ p.created > q.created
  IN  {ids \in kSubset(n, PodsOf(c, w)) :
         \A gone \in ids, kept \in PodsOf(c, w) \ ids : ~Rather(kept, gone)}

\* setScheduledReplicas: what the cluster may become when w is to have n replicas.
SetDesired(c, w, n, t) ==
  LET d == [Accrue(c, t) EXCEPT !.desired[w] = n]
      surplus == Cardinality(PodsOf(c, w)) - n
      Delete(ids) ==
        Each(LAMBDA e, id : DeletePod(Unbind(e, id), id), d, ids)
  IN  IF surplus <= 0 THEN {CreatePods(d, w, -surplus, t, Never)}
      ELSE {Delete(ids) : ids \in Victims(c, w, surplus)}

\* One step up, one down, or none, within the bounds.
TraitTick ==
  /\ Due("trait-tick")
  /\ \E step \in {-1, 0, 1} :
       LET n == Clamp(instances + step)
       IN  /\ instances' = n
           /\ \E c \in SetDesired(Taken, Autoscaled, n, now) :
                LET d == RunClusterScheduling(c, now)
                IN  cluster' = IF ticks < MaxTicks
                                 THEN Schedule(d, now + TickInterval, "trait-tick", NoMachine)
                                 ELSE d
  /\ LET ready == ReadyCount(cluster, Autoscaled)
     IN  Apply(IF ReadyCount(cluster', Autoscaled) < ready THEN {Autoscaled} ELSE {})
  /\ ticks' = ticks + 1
  /\ UNCHANGED failed /\ Kept

-----------------------------------------------------------------------------
Tick ==
  /\ cluster.events # <<>> /\ Next1.at > now
  /\ now' = now + 1
  /\ total' = Accumulate(total, Rates(cluster), 1)
  /\ UNCHANGED <<plan, cluster, failed, instances, ticks, capacity>>

\* The loop ends when no event is left.
Finished == cluster.events = <<>> /\ UNCHANGED vars

Next ==
  \/ PodReady \/ MachineFailure \/ Evict \/ MachineRecovery \/ MachineJoined
  \/ TraitTick \/ Tick \/ Finished

\* processEvents is a loop: it goes on as long as there is an event. This is weak
\* fairness of Next, written with the condition that enables it to do anything.
Fair == []<>(cluster.events = <<>>) \/ []<><<Next>>_vars

Spec == Init /\ [][Next]_vars /\ Fair

-----------------------------------------------------------------------------
(* Properties *)

Bound(c, m) == {id \in PodIds(c) : c.pods[id].machine = m}

\* A machine's books are right and its room is never given twice: what it says is
\* used is what the pods bound to it ask for, however they were placed, lost, evicted
\* or deleted; and pods run only on machines that are up. What the run reports of
\* machines and replicas are the exact integrals of these over time.
MachinesExact ==
  \A m \in Places(cluster) :
    LET machine == cluster.machines[m]
        Asked(r) == SumFunction([id \in Bound(cluster, m) |-> SizeOf(cluster, id)[r]])
    IN  /\ \A r \in {"vcpu", "ram"} :
             machine.used[r] = Asked(r) /\ machine.used[r] <= MachineSize[r]
        /\ \A id \in Bound(cluster, m) :
             cluster.pods[id].state \in (IF machine.up THEN {"starting", "ready"} ELSE {"lost"})

AreasExact ==
  Accumulate(cluster.area, Rates(cluster), now - cluster.accruedAt) = total
ResourcesExact == MachinesExact /\ AreasExact

\* No pod stays pending beside a machine with room for it, and none for want of a
\* machine that the cluster could still boot.
NoPodWaitsBesideRoom ==
  /\ \A id \in InState(cluster, "pending") : Fitting(cluster, id) = {}
  /\ MachinesNeededForPending(cluster) = 0

\* Through every failure, recovery, eviction and scaling, a workload has as many pods
\* as it should, and its node is sized to those ready now: not to those asked for,
\* starting or lost.
CapacityIsReady ==
  \A w \in Workloads :
    /\ Cardinality(PodsOf(cluster, w)) = cluster.desired[w]
    /\ capacity[w] = ReadyCount(cluster, w)

\* Every pod lost is replaced or restarted, and in the end each pod is ready, or is
\* pending where no machine fits it and none can be added.
EveryPodSettles ==
  <>[](\A id \in PodIds(cluster) : cluster.pods[id].state \in {"ready", "pending"})

=============================================================================
