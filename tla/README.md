# Verification of the system simulator

TLA+ specifications of the core of this repository: a discrete-event simulator of
distributed systems. A topology of components is compiled into an engine that moves
requests between queueing nodes, injects faults, retries, redelivers, and reports what
became of every request; a worker drives the engine under commands of the user interface.
What a student reads off a run is only as true as this core, so the core is what is
specified.

Each module is translated from the source; `PROJECT.json` maps every definition to the
lines it stands for and lists the runs, mutants, findings, hazards and theorems. Paths
below are relative to `src/src/engine/`.

## Inventory

| Component | State it keeps | Operations | How it interacts | What makes it correct | Modelled by |
| --- | --- | --- | --- | --- | --- |
| Queueing node (`nodes/GGcKNode.ts`) | queue, in-service map, worker counter, frozen and swallowed requests, arrival times, ceilings and targets, status, failure spec, areas | `handleArrival`, `handleCompletion`, `cancelRequest`, `fail`, `recover`, `resizeConcurrency` | called by the engine's handlers; schedules completions | every admitted request in one place; counters and ceilings agree; work conserving; discipline respected; exact utilization | `GGcKNode`, `NodeUtilization` |
| Event loop and request lifecycle (`engine.ts`, `scheduler/min-heap.ts`, `core/events.ts`) | clock, event queue, requests with deadline, generations and retry counts, fault holds, terminals | one handler per event type | reads and writes everything else | one attempt at a time, one terminal, none lost, deadline respected, outages add up | `RequestLifecycle` |
| Circuit breaker (`traits/circuitBreaker.ts`) | phase, outcome window, open-until, probe counters | routing decision, outcome recording | the engine tracks routed calls and reports outcomes | phases keep their evidence apart; probes are accounted; half-open resolves | `CircuitBreaker` |
| Simulation worker (`worker/*`) | running, paused, stopped, engine, pace anchor | messages, chunked loop with awaits | messages from the renderer, posts back | one terminal message per run; pause and stop mean what they say | `WorkerController` |
| Edge network (`network/*`, transfers in `engine.ts`) | connection pools and lines, edge slots and lines, leases | acquire, release, wait, time out | between forwarding and arrival | no lost wake-up, bounded slots, fair lines | `EdgeTransfer` |
| Queue delivery (`traits/ackAndRelease.ts`, `engine.ts`) | consumer attempts, visibility timers, work conservation | accept, fork, redeliver, dead-letter | forks requests into the queue's node; hears of terminals | at least once or at most once, bounded redelivery, every message settles | `QueueDelivery` |
| Lock lease, idempotency (`traits/lockLease.ts`, `traits/idempotencyDedup.ts`) | leases, fencing tokens, journal, dedup window | acquire, expire, release, admit, probe, reconcile | guard the consumers of a queue | mutual exclusion by token, exactly once, no answer for undone work | `CoordinatedDelivery`, `FencedLock` |
| Request collapsing, ordering lanes (`traits/cache.ts`, `traits/changeStream.ts`, held maps of `engine.ts`) | fetches in flight, parked followers and their timers, lane holders and lines | park, lead, resolve, hold, hand over | between arrival and service; hear of terminals | single flight with a shared end; order per lane; nobody held for good | `HeldRequests` |
| Consistency model, linearizability (`traits/consistencyModel.ts`, `semantics/linearizability.ts`) | versions, replication, session floors, ledger, history | read, write, observe, retry, check | before arrival and at terminals of store nodes | each model keeps its promise; the two oracles agree | `ConsistencyModel`, `Linearizability`, `LinearizabilityCheck`, `ConsistencyOracles` |
| Cluster scheduler, autoscaler (`cluster/clusterScheduler.ts`, `traits/autoscaler.ts`) | machines, pods, pending work, desired replicas | place, fail, evict, recover, provision, scale | resizes nodes | books exact, capacity is what is ready, pods settle | `ClusterScheduler` |
| Admission traits (bulkhead, rate limiter, load shedding, capacity) | counters, windows | before-arrival decisions | read node occupancy | limits hold at boundaries | - |
| Stream broker, consumer groups | partition logs, offsets | publish, deliver, commit, rebalance | fork requests | at least once by offset | - |
| Replica cluster, routing, health, hash ring, reservations | leader, weights, cooldowns, ring, stock | elect, pick, probe, reserve | node failures and routing | single leader, no oversell | - |
| Semantics, metrics, tracer, analysis, catalog, validation, classroom, CLI, renderer | derived data | pure functions, observers, UI | read finished runs | see *Not modelled* | - |

The hard behaviours: the program has one thread, and its concurrency is that of the
*simulated* system. Completion, timeout, failure and retry events of many requests race on
one clock and are cancelled lazily by generation counters; a message may be processed by
two consumers; a request may be held behind another whose end is yet to come; faults strike
between any two events; resizes move ceilings under running work. The worker adds real
asynchrony: messages arrive during the loop's awaits. `PROJECT.json` lists these hazards at
their lines, with the properties that cover them.

## Modules

**`GGcKNode`**: one node. Variables are the fields of the class, except that the queue is
kept in the order its discipline will serve it (the code appends and searches when it
dequeues: the same request comes out). One action per branch of each method. A call that
changes nothing (a rejected arrival, an unknown completion) is a stuttering step. Service
times are left out, so a completion may come at any moment. `OverlappingFaults` says whether
a fault may strike a failed node. **`NodeUtilization`** extends it with the lazily accrued
areas; its history `total` accrues every tick at the rates then in force.

**`RequestLifecycle`** composes the node with the engine's event loop. `events` is the heap
as a sequence in extraction order (timestamp, priority, insertion); `AdvanceClock` is the
loop taking the next timestamp; each `Handle...` action is a whole handler, the node call,
the events it schedules in their order and the retry or terminal it leads to included.
`completionSeq` and `timeoutSeq` are the generations that make events stale. A fault plan is a
sequence of outages of the region, the zone or the node; `holds` is the engine's set of
domains that keep the node down. The gateway in front owns the retries and never queues.

**`CircuitBreaker`**: the breaker record of one node. `tracked` are the calls whose metadata
names it; `probes` is a history of those routed in the current half-open period that have not
reported. `Lose` is a call that ends where the engine records no outcome.

**`WorkerController`**: the flags of the controller, the events left in its engine, and
where its loop is. A step is a message handler or the loop from one await to the next;
messages are taken only while the loop awaits.

**`EdgeTransfer`**: requests over a chain of edges. The record `net` holds pools, leases,
slots, lines and phases, because the code's calls nest: a response gives back streams, each
grants one to a waiter, which is put on the edge or in the next line. The operators mirror
those calls and each action is a whole handler: `Release`, `ReleaseConnectionLeases` and
`AdmitEdgeSlotWaiters` fold over waiters and edges as their loops do. `FreeStreams` is the set
whose size `release` adds up before it takes waiters, `StreamTaken` the stream `acquire` counts.
Time is left out: a deadline may pass at any moment a request waits or flies.

**`QueueDelivery`**: each message is a sequence of consumer attempts. An action is what an
event of one attempt does to the message: acceptance, service, visibility timeout, end with
its follow-up or dead letter, and the second timer that a resumed node starts. The record
`conservation` is the engine's account of accepted, delivered and lost work. The queue's node is
left to `GGcKNode`: it may take any time and may turn any attempt away.

**`CoordinatedDelivery`** EXTENDS it and conjoins to each step of an attempt what the
idempotency manager (journal, probe and reconciliation, or dedup window) and the distributed
lock make of it. **`FencedLock`** is the abstract lock: a grant when everybody still at work
has outlived the lease, an expiry the holder is not told of, a release. The refinement mapping
(`ImplementsFencedLock`) maps a client to an attempt, its token while it works, and `late` to the
attempts at work whose lease is gone; waits, purges, takeovers, late releases and
everything in journal and queue stutter.

**`HeldRequests`**: a cache with collapsing that may be an ordered consumer too. `MarkTerminal`
is the heart: the end of a request frees its key, resolves those parked behind it, applies its
change, and hands its lane to the next in line, which arrives, all in one step as in
`markRequestTerminal`. What the node has cached, whether it is up and what lies behind it are
nondeterministic.

**`ConsistencyModel`**: one key of a replicated store, each read and write with its attempts,
the stamps taken when it arrives and the ledger written when it is observed. A retry leaves
`completionSeq` as it was, so the completion event of an attempt that timed out in service stays
in the heap (`left`, filled by `Retry` and used by `ServiceEnds`): it ends the service of a later
attempt of the request if that is at the same node when it comes.
**`Linearizability`** defines what a linearizable history is, **`LinearizabilityCheck`** is the
checker's search for it, and **`ConsistencyOracles`** puts that over the recorded history.

**`ClusterScheduler`**: machines, pods and the cluster's events; the record `cluster` is passed
along because the handlers nest. A pod's number is its place in the order of creation, so that
`Each`, which takes the lowest number first, goes over pods and machines in the order of the
code's loops. What utilization the autoscaler reads
is open, so it may step up or down at every tick.

`...Proofs` modules hold the theorems of the module they name; `...MC` modules give constants
their values for TLC. Operators commented *Mutant* are the plausible bugs that each property
is checked to detect; no specification uses them.

## Runs

| Run | Question | Bounds |
| --- | --- | --- |
| `node` | Counters, status and places agree (`CountersAgree`, `StatusTruthful`, `Accounted`); no work beside an idle worker (`WorkConserving`); who starts outranks who waits (`ServedByRank`); the areas are exact integrals (`AreasExact`) | 3 requests, two of one priority (symmetric), c = 1, K = 3, resizes to (0,0), (1,2), (2,1), five kinds of fault, clock 0..2, warmup ends at 1 |
| `lifecycle` | One attempt under way per pending request and nothing of an ended one (`OneAttemptAtATime`); deadlines bind (`DeadlineBinds`); the node is down while any domain holds it (`DownWhileHeld`); every request ends (`EveryRequestEnds`) | lifo, 3 requests arriving at 0 or 1, deadlines 3 or 8 later, services 1 or 5 against a node timeout of 4, 2 attempts, injected errors, single outages and overlapping ones of region, zone and node |
| `breaker` | No phase takes evidence into the next (`PhasesKeepApart`); only a lost probe keeps a slot (`SlotsBelongToProbes`); half-open resolves unless a probe is lost (`ProbesResolve`) | 4 calls, fan-out 2, window 3 of which 2 trip, recovery 2, 2 probes |
| `worker` | One terminal message (`LoopAnswersOnce`), a pause holds (`PauseHolds`), a full result is whole (`CompleteIsWhole`), runs that are not left paused end (`RunsEnd`) | 4 events in slices of 2, waits of 1, 6 messages, errors in slices and steps |
| `edges` | Counters exact (`CountersExact`), streams held while used (`StreamsHeldInUse`), nobody waits beside a free unit (`NoIdleUnit`), lines are fair (`LinesAreFair`), every transfer ends (`EveryTransferEnds`) | 3 requests over two edges or 4 over one, six chains mixing one-query, multiplexed, one-shot, publish-only and unpooled edges |
| `delivery` | One consumer unless the visibility ran out, one follow-up per cause (`RedeliveredOnce`); the receive limit holds (`ReceiveLimitHeld`); accepted work is delivered, lost or under way (`AcceptedWorkConserved`); every message settles (`EveryMessageSettles`) | 2 messages; a redelivering queue, one that never does, a dead-letter queue; limit 2; producers with 0 or 1 retry spent; one resume |
| `guards` | Late holders have older tokens (`Fenced`); one execution per key (`ExecutedOnce`); a duplicate is answered only for finished work (`AnsweredOnlyIfDone`); all of it implements the fenced lock (`ImplementsFencedLock`) | 2 messages with one key, up to 7 attempts each, dedup window, journal, and journal with reconciliation; external reports silent or not-found |
| `cluster` | What machines give and take back adds up (`ResourcesExact`); no pod waits beside room (`NoPodWaitsBesideRoom`); the node has the capacity of the ready pods (`CapacityIsReady`); every pod settles (`EveryPodSettles`) | 2 workloads of different shape, 2 machines and 1 to boot, spread and bin-pack, 1 or 2 machines failing at 1, 2 or 4 and back at 3, 5, 7 or never, 4 autoscaler ticks |
| `consistency` | Each model keeps its promise (`Promised`); stale counts and linearizability agree (`OraclesAgree`); the bounded check never reports what is not so (`VerdictSound`) | a write and two reads of one session, a follower 3 ticks behind that may freeze and has a timeout, clock to 4, 6 search steps, 3 recorded operations; under the strong model one request at a time is retried, once, the write or a read that timed out at the follower and left its completion behind, and then the run is two ticks shorter; under read-your-writes, where only writes set the floor, there is one read |
| `held` | One fetch per key, followers wait for it and end as it did (`SingleFlight`); a lane passes one at a time in order of arrival (`OrderedConsumption`); nobody is held for good (`HeldRequestsGoOn`) | 3 deliveries in a lane, two of them changes of one key, 2 clients of that key, one retry |
| `lifecycle_stale_completion`, `breaker_wedged` | expect a violation, see *Findings* | |

Why these bounds suffice: three requests are one in service, one waiting and one arriving,
frozen or swallowed, and a tie; ceilings of 0 to 3 cover draining below, at and above the
occupancy; one retry is the smallest number at which events of two attempts coexist; the
times let a service end before, at and after the node timeout, and both before, at and after
the deadline, with the faults before, during and after. Four calls are two fan-outs. Four
transfers on two slots are two in flight and two in line, so that a slot refused by one waiter
must reach the next. A receive limit of two is a first delivery, a redelivery and a
dead letter. A lane of three is a holder and two in line, and a key with two changes and two
clients has leaders, followers and a leader that is itself a lane's holder. Two machines that
just hold the configured pods make an eviction wait for room. A mutant of the code breaks each
property within its run.

Deadlock is checked except in `worker`, `delivery`, `guards` and `held`, whose inputs are
finite and really end. The lifecycle ends in `Finished`.

### Fairness

* `RequestLifecycle`, `QueueDelivery`, `HeldRequests`, `ClusterScheduler`: the event loop takes
  the next event while there is one. `processEvents` is a synchronous loop; the model is of a
  run whose duration does not cut it short. In `HeldRequests` and `ClusterScheduler` the
  condition that enables the step is written out, which is cheaper for TLC than ENABLED.
  Deadlines, visibility timeouts and lease expiries have no fairness of their own in
  `HeldRequests`, `EdgeTransfer` and the leases: whoever waits must be woken by the others.
* `CircuitBreaker`: requests keep being routed, time passes, and each call under way ends in
  an answer or in a loss.
* `EdgeTransfer`: what flies arrives and what is at a node leaves it (`Fair`).
* `WorkerController`: every sleep ends and its continuation runs. No fairness of messages: the
  user need not act.

## Findings

Two runs expect a violation of what a comment or a document of the repository says.

* `lifecycle_stale_completion`: an attempt that times out in service leaves a valid completion
  event behind, which completes the retry of the request in the instant it starts, against
  "every task occupies its worker for real time" (`nodes/GGcKNode.ts:879`). It also makes strong
  reads stale, see below.
* `breaker_wedged`: probes lost on the edge or reset by a crash keep their slots; the breaker
  stays half-open and rejects everything from then on.

Met while modelling, and kept in the models as the code has them; the properties are stated
so that they promise only what the code does:

* Node: a second freezing fault overwrites the frozen requests, which then belong to nobody
  and never end: no event of theirs finds them (`nodes/GGcKNode.ts:485`). The properties of
  `RequestLifecycle` except exactly those, `Overwritten`; a degraded fault on a frozen node replaces the specification its
  recovery consults (`:432`); a request frozen in service on a node without a timeout has no event
  left and, if the node does not recover, never ends.
* Fault domains: two outages of the same domain share one hold, and a failure of the node
  alone has none, so that a recovery of a domain ends it.
* Breaker: a success of a call routed earlier closes an open breaker at once;
  `halfOpenRequests` is not validated on the resilience path (`traits/circuitBreaker.ts:67`).
* Edges: an inner caller's retry gives back the streams of the outer calls too
  (`engine.ts:3530`).
* Worker: an engine error in a step message is answered twice; a pause and a resume within one
  sleep leave the pace anchored where it was; a pause between the last step and the loop's wake
  leaves a finished run open until it is resumed or stopped.
* Queue delivery: the redelivery that a visibility timeout forks copies the mark that the message
  has reappeared (`engine.ts:3327`), so that its own failure is neither redelivered nor
  dead-lettered, though a message is to be "dead-lettered after maxReceiveCount failures"
  (`src/docs/reference/13-messaging-and-streaming.md:127`); retries the producer spent count as
  receives; duplicates of a visibility timeout are counted as delivered work once more; two
  queues that are each other's dead-letter queue pass a message round for ever; a resumed queue
  node starts a second timer.
* Guards: an attempt admitted after a reconciliation leaves no intent while it works
  (`traits/idempotencyDedup.ts:384` against `:210`); a redelivery inherits the attachment of its
  predecessor to the journal; the dedup window answers a redelivery as a duplicate though the
  first delivery failed; a retry of a request that has not ended is blocked by its own intent.
* Ordered consumption: per-partition or per-key consumption "prevents" stale overwrites
  (`traits/changeStream.ts:167`), "removing violations" (`analysis/supportLedger.ts:334`). A
  change that is redelivered, or that edges reorder on its way, comes to the lane after a newer one
  and is applied after it; `OrderedConsumption` states what the lane does promise.
* Collapsing: at a node that is down the traits do not look at arrivals, so a request goes on
  without a lead or a leader.
* Consistency: two kinds of read at a follower may break the promise of their model. A read at a
  frozen follower skips the wait for replication (`engine.ts:1428`). And a read that times out in
  service and is retried at the same follower may be completed by its first attempt's event
  (`nodes/GGcKNode.ts:391`, `engine.ts:1882`), before the replication that the second attempt is to
  wait for: it arrives, times out, a write commits, the retry arrives and is stamped with it, and
  what was left behind ends the wait. The read is observed without the write and counted as stale
  under the strong model, at a follower that never froze. `Promised` excepts those two
  (`~seen`, `CutShort`) and no others; without `CutShort` TLC finds the second on the bounds of
  `consistency`. The two oracles agree on such reads too: they are counted as stale.
  Left out is a degraded node whose `serviceTimeMultiplier` is below 1, which the parser admits
  (`nodes/failure.ts:85`): it shortens the waits as well (`nodes/GGcKNode.ts:872`).
* Cluster: a pod-ready event of the start before a failure is taken for the one after it
  (`cluster/clusterScheduler.ts:370`).

## Theorems

Proved by TLAPS for every value of the constants, from the named assumptions on them only.

* `RequestLifecycleProofs`, first about `GGcKNode` alone, from the assumptions of that module.
  `IInv` strengthens the properties by what makes each survive the others'
  steps: the worker counter equals the length of `inService`; the ceilings are at least their
  targets, so that draining never cuts below the work still there; a failed node has an empty
  queue and no service, so that a recovery deals out exactly the frozen requests, for which there
  is room; work waits only at the full ceiling. From it `CountersAgree`, `WorkConserving`
  and, if faults do not overlap, `StatusTruthful`.
  In the same module, `Placed` gives each place a set that its sequence lists without repetition;
  the sets lie apart and make up who is here. It is inductive with `IInv` and `FaultStands` (a
  fault that froze requests has failed the node: a resume deals out the frozen in place of the
  line, which must be empty). Lemmas say what cutting, joining, inserting, removing and
  sorting list. `Accounted` follows, if faults do not overlap. `RankInv` adds that line and
  frozen requests stand in the order of their ranks, which arrivals, failures and recoveries
  keep: a merge of sorted parts is sorted, and what is taken off the front outranks the rest.
  `ServedByRank` follows.
* The same module, about `NodeUtilization`. `UInv`: what is missing from an area is its rate over the interval
  still open. Each call closes the interval at the old rates before it sets new ones; so
  `AreasExact`. Without the areas a step is one of the node: `USpec => Spec`.
* The same module, about `RequestLifecycle`. The queue is a sequence in order whatever is scheduled; lemmas say
  that what is scheduled is in it with what was there, one event at a time or several at
  once (`Scheduled`, `ScheduledTogether`). `LifeInv` says that the queue is sorted, that the
  places of the node hold as above, with the overwritten as strays, and of each
  request (`Attempt`) that it is on one event that carries an attempt or in the node, never
  both, that such an event is of the generation in force and comes no later than the
  deadline, and that one in the node has a live timeout no later than its deadline. Each
  handler's lemma shows what happens to the request in hand (it arrives, goes on or ends);
  the others' attempts stay (`OthersStay`). A reset ends a whole list of attempts at once
  (`AttemptsEndTogether`). `OneAttemptAtATime` follows, with overlapping faults, and
  `DeadlineBinds` for a node that has a timeout: without one a queued or served request
  has no event that ends it at its deadline. `OutageInv` is about the plan of faults: of each
  outage the queue holds its failure event, or only its recovery, or (once over) neither
  (`Course`), and `holds` is the set of the domains whose outage is in force (`Holding`).
  `DownWhileHeld` follows for a `Separate` plan: at most one outage of a domain, since two of
  one domain share a hold and the first to recover lifts it, and degraded faults apart from
  the others. Every plan of the run is one.
* `CircuitBreakerProofs`. `PhasesKeepApart` is inductive with the types. `SlotsBelongToProbes`
  needs that a route adds a call to `probes` for every slot it takes and that any outcome a
  half-open breaker survives, a stale one included, gives a slot back; cardinality lemmas
  carry the count.
* `WorkerControllerProofs`. `LoopAnswersOnce`: the loop exists exactly while the run does. The
  action properties `PauseHolds` and `CompleteIsWhole` follow by cases on the step.
* `CoordinatedDeliveryProofs`, first about the queue. `DInv` says of each message that its attempts form a `Chain` (an attempt
  has as many successors as its end and its timeouts have asked for) and are `Numbered` by
  receives; `RedeliveredOnce` and `ReceiveLimitHeld` follow, for every dead-letter graph.
  For `AcceptedWorkConserved`, `LedgerInv` counts the messages sent and the attempts that ended
  without a follower; a message's last attempt has none, so each message has an attempt that
  ended or one under way, and exactly one where no visibility ran out.
* The same module, about the guards. `LockInv` ties the lease table to the attempts: the active lease
  belongs to an attempt under way that holds its token, tokens are distinct and at most the
  last one, and those at work hold one. `GuardInv` says that a journal entry stands for the attempt
  it admitted. Results: `Fenced`, `ExecutedOnce`,
  `AnsweredOnlyIfDone`
  (by `AnswerInv`: a committed entry stands for an attempt of its key that worked and was
  delivered), `AcceptedWorkConserved` under the guards, that the queue's promises survive the guards,
  and `ImplementsFencedLock`: initial states map to initial states and each step to a
  grant, an expiry, a release or a stutter.
* `ConsistencyModelProofs`. `Inv` says that what is recorded is past, versions that are required
  exist, whoever waits waits until its version is applied, and requests are created before
  they arrive. What completes a read before its wait is over is what another attempt left behind
  (`ServedLate`). From these `Promised`, an action property, for any numbers and any lag. `OracleInv`
  adds what ties the history to the ledger: each version was written by exactly one recorded
  operation (`Written`), nobody learned of a version before its commit (`Genuine`), a stamp was
  the newest version when the request had been created (`Stamped`), and, as long as no read is
  counted as stale, every read began before the version after its own was committed (`Current`).
  Then the witness can be named: operations in the order of their versions, each write before
  the reads of it, and these as they began (`Before`). That it respects real time is
  `RealTime`; that a finite set can be listed in such an order at all is `SetsCanBeListed`, an
  induction over finite sets from the well-founded order of their sizes. `OraclesAgree`
  follows, also where a write committed twice or nobody learned its outcome; and where no
  follower freezes and no read that may be retried can time out at one, the strong model counts
  nothing as stale and is therefore linearizable (`StrongIsLinearizable`; `Seen` says that what
  would disturb a read stays at the leader). Both conditions are needed, see *Findings*.
* `HeldRequestsProofs`. `FlightInv`: those in line wait, each once, in their own lane; the cache
  waits to hear of exactly those who fetch; whoever is parked has a leader who fetches its
  key; a timer in force is that of somebody parked; a fate is the leader's end. A terminal
  keeps it though it moves the leader, the followers and the next of a lane at once
  (`TerminalKeepsFlight`). `SingleFlight` follows. `LaneInv` adds, for each lane, that its
  arrivals are recorded once each, that whoever has gone on holds the lane, that line and
  arrivals are in one order, and that all before one who has gone on have ended.
  `OrderedConsumption` follows.
* `EdgeTransferProofs`. `IInv` says of each edge (`Sound`) that its slots are those in flight and
  its line for slots those who stand in it, each once (`SlotsAt`); that no connection has more
  streams than it may and each has as many in use as leases name it (`PoolAt`); that its line for
  streams lists who waits (`WaitAt`); that a lease names an open connection and is held exactly
  while its call is under way (`UseAt`); and that nobody waits beside a free stream or slot.
  An operation leaves an edge unsound only for the requests that are about to give their streams
  back, the parameter `owing`, so that it is the invariant also between the calls of one
  handler. `MapThenFoldSet` recurs over sets: `FoldTrace` turns a fold over a line into a sequence
  of states, one per element, by a bounded induction that the prover accepts (`UpTo`), and each
  fold's lemma then follows one step at a time. A stream given back serves as many waiters as
  `FreeStreams` has room for, because each grant takes one out of that set. From `IInv`:
  `CountersExact`, `StreamsHeldInUse`, `NoIdleUnit`, and with it, as an action property,
  `LinesAreFair`: fairness of single steps composes along a fold (`FairnessComposes`) since
  whoever is in line before and after was in line between.
* `ClusterSchedulerProofs`. `ClusterInv` says that the cluster is `Fine` and `Served`. `Fine`: each
  pod that does not wait is on a machine, and lost exactly when that is down; what a machine
  says is used is its `Load`, the sum of what the pods bound to it ask for, and at most its
  size; each workload has as many pods as desired; and the areas, with the time since the
  last accrual at the rates now in force added, are what they should be (`Dated`). A
  call that settles them first may then change machines and pods. `Served`: no
  pending pod fits anywhere, and no machine can be booted for one. Scheduling makes any `Fine`
  cluster `Served` (`RunFine`): a pod's turn takes room and gives none back, so who found none
  before finds none after (`FoldFills`), and the machines asked for, once they boot, are the bins
  that `FirstFit` opened for the pods (`PackedAhead`). The steps that do not schedule
  take no room away and give none (`ReadiedFine`, `LoseFine`). The loops are folds over sets of
  numbers, the lowest first: `SetInduction` gets induction over finite sets from
  the well-founded order of their sizes, `FoldIsDefined` shows that what the library's
  `MapThenFoldSet` chooses exists, and with `FoldKeeps` each loop needs only one of its steps.
  The victims of a scale-down may be any that its order allows. From it
  `ResourcesExact`, `CapacityIsReady` and `NoPodWaitsBesideRoom`.

Only model-checked: liveness under fairness, which is out of this prover's reach, and
`VerdictSound`, since the checker's search is a RECURSIVE operator and what a recursion over
data computes cannot be proved here. It shows on the run that the search says of the recorded
history what `Linearizable`, the definition that the proofs use, says of it.

## Not modelled, and why

* Within modelled components: the `wfq` discipline and the two-tier CPU contention of the node;
  routing, fan-out, snapshots and tombstone pruning of the engine; producer batches, per-client
  pools and unreliable protocols of the edges; what exclusive database transactions count and
  attempts that pass a lock more than once; the proportional autoscaler; what caches hold; leader
  election, failover and quorum reads; what the partitions of a stream are.
* Whole components yet to come: admission traits, stream broker and consumer groups,
  reservations and cold starts, routing, health and hash ring, request semantics.
* Times that only delay (handshakes, latencies, link reservations, backoff growth and jitter) and
  random draws: the models leave the time open or choose from sets instead.
* Observers and pure reporting: metrics, tracer, event stream, analysis, grading, catalog,
  validation, scenarios, classroom, CLI and renderer change no state of the simulation. They are
  by far the largest part of the repository and have no behaviour over time to check.

## Plan

1. *Done*: node and areas, lifecycle with fault domains, breaker, worker, edge transfers, queue
   delivery with guards and lock, held requests, consistency with its oracles, the cluster, and
   the proofs above.
2. The replica cluster (elections and quorums) under `ConsistencyModel`, and the stream broker
   with consumer groups in front of `HeldRequests`.
3. Producer batches and client pools in `EdgeTransfer`.
4. Admission traits, reservations, health probes and the hash ring; `wfq`.
5. An abstract ledger of the cluster's room that `ClusterScheduler` implements.
