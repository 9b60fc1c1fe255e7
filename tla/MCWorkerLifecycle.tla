-------------------------- MODULE MCWorkerLifecycle --------------------------
(* Instances of WorkerLifecycle: the pauses double.                         *)
EXTENDS WorkerLifecycle

Doubling == [n \in 1..MaxRetries |-> n]

=============================================================================
