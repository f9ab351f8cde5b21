-------------------------- MODULE RequestLifecycleMC --------------------------
(* Values for checking RequestLifecycle with TLC. *)
EXTENDS RequestLifecycle

CONSTANTS r1, r2, r3, region, zone, node

MCPriority == [r \in Requests |-> 1]

Failure(m, i, v) == [mode |-> m, inFlight |-> i, recovery |-> v]
Outage(d, t, n, spec) == [domain |-> d, from |-> t, lasts |-> n, spec |-> spec]

SomeSpecs ==
  {Failure("reject", "reset", "reset"), Failure("blackhole", "hang", "reset"),
   Failure("hang", "hang", "resume"), Failure("hang", "reset", "reset")}

Degraded == Failure("degraded", "reset", "reset")
MCFailureSpecs == SomeSpecs \cup {Degraded}

\* No fault, an outage that ends, and one that does not.
SinglePlans ==
  {<<>>} \cup {<<Outage(node, t, 2, spec)>> : t \in {1, 2}, spec \in SomeSpecs}
         \cup {<<Outage(node, 1, 0, spec)>> : spec \in SomeSpecs}
         \cup {<<Outage(node, 1, 2, Degraded)>>}

\* Outages that overlap or touch: of a region and a zone, and of a zone and the node
\* in either order. The second may freeze a node that is frozen.
Kill == Failure("reject", "reset", "reset")
Stop == Failure("hang", "hang", "resume")
OverlappingPlans ==
  {<<Outage(region, 1, 3, p[1]), Outage(zone, 2, n, p[2])>> :
     p \in {<<Stop, Kill>>, <<Kill, Stop>>, <<Stop, Stop>>}, n \in {1, 2, 3}}
  \cup {<<Outage(d[1], 1, n, Stop), Outage(d[2], 2, 2, Kill)>> :
          d \in {<<node, zone>>, <<zone, node>>}, n \in {1, 2, 4}}

MCFaultPlans == SinglePlans \cup OverlappingPlans

NoFaults == {<<>>}

=============================================================================
