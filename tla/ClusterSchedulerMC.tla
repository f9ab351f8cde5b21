-------------------------- MODULE ClusterSchedulerMC --------------------------
(* Values for checking ClusterScheduler with TLC. *)
EXTENDS ClusterScheduler

CONSTANTS api, batch

MCWorkloads == {api, batch}

\* A machine holds two pods of api, or one of each: never two of batch. Two machines
\* hold what is configured, but neither the fourth pod of api nor all of it after a
\* failure; the third is booted then.
MCPodSize ==
  [w \in MCWorkloads |-> IF w = api THEN [vcpu |-> 2, ram |-> 1] ELSE [vcpu |-> 1, ram |-> 3]]
MCMachineSize == [vcpu |-> 4, ram |-> 4]
MCInstances == [w \in MCWorkloads |-> 2]

MCPlans ==
  {p \in [strategy : {"spread", "bin-pack"}, failAt : {1, 2, 4}, count : {1, 2},
          recoverAt : {Never, 3, 5, 7}] : p.recoverAt = Never \/ p.recoverAt > p.failAt}

=============================================================================
