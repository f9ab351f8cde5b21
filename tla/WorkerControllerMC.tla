-------------------------- MODULE WorkerControllerMC --------------------------
(* WorkerController with the constants its configurations give it. *)
EXTENDS WorkerController

=============================================================================
