--------------------------- MODULE NodeUtilization ---------------------------
(***************************************************************************)
(* The time-weighted integrals GGcKNode.ts keeps beside the node's state:  *)
(* busy workers, worker ceiling and, after warmup, requests in the system. *)
(* They are accrued lazily, on the calls into the node; the history        *)
(* variables total accrue every unit of time at the rates in force then.   *)
(***************************************************************************)
EXTENDS GGcKNode

CONSTANT Warmup  \* where the measured window of the in-system area begins

ASSUME WarmupAssumption == Warmup \in Nat

VARIABLES
  lastAccrual, busyArea, capacityArea, inSystemArea,
  total            \* history: what the three areas should be by now

areas == <<lastAccrual, busyArea, capacityArea, inSystemArea>>

\* How much of the interval from a to b lies in the measured window.
Measured(a, b) == Larger(0, b - Larger(a, Warmup))

UInit ==
  /\ Init
  /\ lastAccrual = 0 /\ busyArea = 0 /\ capacityArea = 0 /\ inSystemArea = 0
  /\ total = [busy |-> 0, capacity |-> 0, inSystem |-> 0]

\* Mutant: an idle node returns early and leaves its interval open.
AccrueUnlessIdle ==
  IF activeWorkers = 0 THEN UNCHANGED areas
  ELSE LET dt == Larger(0, now - lastAccrual)
       IN  /\ inSystemArea' = inSystemArea + InSystem * Measured(lastAccrual, now)
           /\ busyArea' = busyArea + activeWorkers * dt
           /\ capacityArea' = capacityArea + maxWorkers * dt
           /\ lastAccrual' = Larger(lastAccrual, now)

\* At the top of every call, at the rates that held since the last one.
AccrueBusy ==
  LET dt == Larger(0, now - lastAccrual)
  IN  /\ inSystemArea' = inSystemArea + InSystem * Measured(lastAccrual, now)
      /\ busyArea' = busyArea + activeWorkers * dt
      /\ capacityArea' = capacityArea + maxWorkers * dt
      /\ lastAccrual' = Larger(lastAccrual, now)

AccruedCall == Call /\ AccrueBusy /\ UNCHANGED total

\* A rejected arrival, a stale completion, an unknown cancellation, or the
\* closing of the integrals: the node is unchanged, the areas are not.
IdleCall == AccrueBusy /\ UNCHANGED <<vars, total>>

UTick ==
  /\ Tick
  /\ total' = [busy |-> total.busy + activeWorkers,
               capacity |-> total.capacity + maxWorkers,
               inSystem |-> total.inSystem + (IF now >= Warmup THEN InSystem ELSE 0)]
  /\ UNCHANGED areas

UNext == AccruedCall \/ IdleCall \/ UTick

USpec == UInit /\ [][UNext]_<<vars, areas, total>>

-----------------------------------------------------------------------------
(* utilizationAreasAt: what a reader sees now, without accruing. *)
BusyAreaAt == busyArea + activeWorkers * Larger(0, now - lastAccrual)
CapacityAreaAt == capacityArea + maxWorkers * Larger(0, now - lastAccrual)

\* Telemetry read at any instant is the exact integral, however the calls that
\* change the worker count and the ceiling interleave with the clock; and so is the
\* L of Little's law, where queued, served and frozen requests count from the end
\* of warmup, and swallowed ones never.
AreasExact ==
  /\ BusyAreaAt = total.busy
  /\ CapacityAreaAt = total.capacity
  /\ inSystemArea + InSystem * Measured(lastAccrual, now) = total.inSystem

=============================================================================
