---------------------------- MODULE EdgeTransferMC ----------------------------
(* Values for checking EdgeTransfer with TLC. *)
EXTENDS EdgeTransfer

CONSTANTS r1, r2, r3, r4

Edge(reuse, connections, streams, slots, paired, attempts) ==
  [reuse |-> reuse, connections |-> connections, streams |-> streams,
   slots |-> slots, paired |-> paired, attempts |-> attempts]

\* One query at a time on one of a few connections.
Http(connections, slots, attempts) ==
  Edge("keep-alive", connections, 1, slots, TRUE, attempts)
\* Streams of persistent connections.
Grpc(connections, attempts) == Edge("persistent", connections, 2, 1, TRUE, attempts)
\* A connection for each request.
OneShot(attempts) == Edge("per-request", 1, 1, 2, TRUE, attempts)
\* Publishing: the stream is free on delivery.
Publish(attempts) == Edge("keep-alive", 1, 2, 1, FALSE, attempts)
\* No connection model.
Plain(slots, attempts) == Edge("none", 1, 1, slots, TRUE, attempts)

MCTopologies ==
  {<<Http(2, 2, 1), OneShot(2)>>, <<OneShot(2), Http(1, 1, 1)>>,
   <<Grpc(2, 1), Publish(2)>>, <<Publish(2), Grpc(1, 1)>>,
   <<Plain(1, 1), Plain(1, 2)>>, <<Plain(2, 2)>>}

\* A fourth request where there is one edge: two in flight and two in line.
MCIssued(edges) == IF Len(edges) = 1 THEN Requests ELSE Requests \ {r4}

=============================================================================
