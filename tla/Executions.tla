----------------------------- MODULE Executions -----------------------------
(***************************************************************************)
(* What the execution store and the worker pool together promise a caller  *)
(* who submitted a trusted action: the life of an execution row, and how   *)
(* often its action has an effect on the cluster.                          *)
(*                                                                         *)
(* The store interface, internal/store/store.go, names the operations; the *)
(* module ExecutionQueue describes how several server replicas carry them  *)
(* out concurrently and is shown to implement this specification.          *)
(***************************************************************************)
EXTENDS Naturals

CONSTANT Execs      \* the ids of the executions that are ever requested

VARIABLES
    status,         \* the status column of the row, "absent" before its insert
    output,         \* TRUE when executions_output holds a row for the execution
    ran             \* how many times the action's Execute was started

absVars == <<status, output, ran>>

Terminal == {"succeeded", "failed"}
Statuses == {"absent", "pending", "running"} \cup Terminal

AbsInit ==
    /\ status = [e \in Execs |-> "absent"]
    /\ output = [e \in Execs |-> FALSE]
    /\ ran = [e \in Execs |-> 0]

\* Store.CreateExecution: the row appears in status pending.
Submit(e) ==
    /\ status[e] = "absent"
    /\ status' = [status EXCEPT ![e] = "pending"]
    /\ UNCHANGED <<output, ran>>

\* Store.ClaimNextExecution: one caller moves a pending row to running.
Claim(e) ==
    /\ status[e] = "pending"
    /\ status' = [status EXCEPT ![e] = "running"]
    /\ UNCHANGED <<output, ran>>

\* Runner.Run: the action starts, for the first and only time.
Start(e) ==
    /\ status[e] = "running"
    /\ ran[e] = 0
    /\ ran' = [ran EXCEPT ![e] = 1]
    /\ UNCHANGED <<status, output>>

\* Store.UpdateExecutionWithResult: status and output change in one transaction.
\* Only a succeeded execution has an output.
Complete(e) ==
    /\ status[e] = "running"
    /\ ran[e] = 1
    /\ \E s \in Terminal :
          /\ status' = [status EXCEPT ![e] = s]
          /\ output' = [output EXCEPT ![e] = (s = "succeeded")]
    /\ UNCHANGED ran

AbsNext == \E e \in Execs : Submit(e) \/ Claim(e) \/ Start(e) \/ Complete(e)

AbsSpec == AbsInit /\ [][AbsNext]_absVars
=============================================================================
