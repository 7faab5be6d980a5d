-------------------------- MODULE MCExecutionQueue --------------------------
(***************************************************************************)
(* Instances of ExecutionQueue for TLC.                                    *)
(***************************************************************************)
EXTENDS ExecutionQueue, TLC

CONSTANTS r1, r2, w1, w2

\* One worker on each of two replicas.
HostTwoReplicas == (w1 :> r1) @@ (w2 :> r2)

\* One replica with a pool of two workers.
HostOneReplica == (w1 :> r1) @@ (w2 :> r1)
=============================================================================
