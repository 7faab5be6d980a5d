------------------------ MODULE ExecutionQueueProofs ------------------------
(***************************************************************************)
(* Proofs about ExecutionQueue, for any number of executions, replicas and *)
(* workers, for both stores, and for any number of faults and restarts.    *)
(***************************************************************************)
EXTENDS ExecutionQueue, TLAPS

\* The initial states satisfy the inductive invariant.
LEMMA InitIndInv == Init => IndInv
  <1> SUFFICES ASSUME Init PROVE IndInv
    OBVIOUS
  <1>1. TypeOK
    <2>1. (CHOOSE r \in Replicas : TRUE) \in Replicas
      BY QueueAssumption
    <2>2. QED
      BY <2>1 DEF Init, TypeOK, Statuses, Terminal, ReqStates, WorkerStates, Phases
  <1>2. DownInv /\ JobInv /\ SelectInv /\ OwnerInv
    BY QueueAssumption DEF Init, DownInv, JobInv, SelectInv, OwnerInv, Owning
  <1>3. RowInv /\ StuckExactlyWhenLost
    BY DEF Init, RowInv, StuckExactlyWhenLost, Terminal
  <1>4. QED
    BY <1>1, <1>2, <1>3 DEF IndInv

-----------------------------------------------------------------------------
(* One lemma per group of actions: each preserves IndInv.                  *)

\* The CreateExecution handler leaves workers and their rows alone: it only turns
\* an absent row pending.
LEMMA HandlerIndInv ==
  ASSUME IndInv, NEW e \in Execs,
         \/ \E r \in Replicas, t \in Stamps : StampRequest(e, r, t)
         \/ InsertRow(e)
         \/ Acknowledge(e)
         \/ InsertError(e)
  PROVE  IndInv'
  <1> USE DEF IndInv
  <1>1. TypeOK'
    <2>1. CASE \E r \in Replicas, t \in Stamps : StampRequest(e, r, t)
      BY <2>1, QueueAssumption
         DEF TypeOK, StampRequest, poolVars, procVars, failVars, ReqStates
    <2>2. CASE InsertRow(e)
      BY <2>2 DEF TypeOK, InsertRow, poolVars, procVars, failVars, Statuses, ReqStates
    <2>3. CASE Acknowledge(e)
      BY <2>3 DEF TypeOK, Acknowledge, rowVars, poolVars, procVars, failVars, ReqStates
    <2>4. CASE InsertError(e)
      BY <2>4 DEF TypeOK, InsertError, Fault, rowVars, poolVars, procVars, ReqStates
    <2>5. QED
      BY <2>1, <2>2, <2>3, <2>4
  <1>2. UNCHANGED <<pc, job, result, deadTx, ran, lost, output>>
    BY DEF StampRequest, InsertRow, Acknowledge, InsertError, poolVars, procVars, rowVars
  <1>3. \A f \in Execs : row'[f] = row[f] \/ (row[f] = "absent" /\ row'[f] = "pending")
    BY DEF StampRequest, InsertRow, Acknowledge, InsertError, rowVars, RowInv, TypeOK
  <1>4. JobInv'
    BY <1>2 DEF JobInv
  <1>5. \A w \in Workers : job[w] # NoExec => job[w] \in Execs
    BY DEF TypeOK
  <1>6. SelectInv'
    BY <1>2, <1>3, <1>5 DEF SelectInv, JobInv, TypeOK
  <1>7. OwnerInv'
    BY <1>2, <1>3, <1>5 DEF OwnerInv, JobInv, Owning
  <1>8. RowInv'
    <2>1. CASE \E r \in Replicas, t \in Stamps : StampRequest(e, r, t)
      BY <2>1 DEF StampRequest, RowInv, TypeOK
    <2>2. CASE InsertRow(e)
      BY <2>2 DEF InsertRow, RowInv, TypeOK, Terminal
    <2>3. CASE Acknowledge(e)
      BY <2>3 DEF Acknowledge, RowInv, TypeOK, rowVars
    <2>4. CASE InsertError(e)
      BY <2>4 DEF InsertError, RowInv, TypeOK, rowVars
    <2>5. QED
      BY <2>1, <2>2, <2>3, <2>4
  <1>9. StuckExactlyWhenLost'
    BY <1>2, <1>3 DEF StuckExactlyWhenLost, Owned
  <1>10. DownInv'
    BY <1>2 DEF DownInv, StampRequest, InsertRow, Acknowledge, InsertError, procVars
  <1>11. QED
    BY <1>1, <1>10, <1>4, <1>6, <1>7, <1>8, <1>9

\* Steps that only move a worker that holds no row, or give a selected row back.
LEMMA IdleStepIndInv ==
  ASSUME IndInv, NEW w \in Workers,
         CheckContext(w) \/ ClaimNothing(w) \/ Wake(w) \/ ClaimError(w)
  PROVE  IndInv'
  <1> USE DEF IndInv
  <1>1. TypeOK'
    <2> USE DEF TypeOK, Goto, procVars, rowVars, httpVars, WorkerStates
    <2>1. CASE CheckContext(w)
      BY <2>1 DEF CheckContext, failVars
    <2>2. CASE ClaimNothing(w)
      BY <2>2 DEF ClaimNothing, failVars
    <2>3. CASE Wake(w)
      BY <2>3 DEF Wake, failVars
    <2>4. CASE ClaimError(w)
      BY <2>4 DEF ClaimError, Fault, AfterClaimError, failVars
    <2>5. QED
      BY <2>1, <2>2, <2>3, <2>4
  <1>2. UNCHANGED <<row, req, output, deadTx, ran, lost, result>>
    BY DEF CheckContext, ClaimNothing, Wake, ClaimError, procVars, rowVars, httpVars
  <1>3. /\ \A v \in Workers : v # w => pc'[v] = pc[v] /\ job'[v] = job[v]
        /\ pc[w] \notin Owning /\ pc[w] # "update"
        /\ pc'[w] \in {"exited", "wait", "claim", "check"}
        /\ job'[w] = NoExec
    BY DEF CheckContext, ClaimNothing, Wake, ClaimError, AfterClaimError, Goto, TypeOK, Owning,
       JobInv
  <1>4. JobInv'
    BY <1>2, <1>3 DEF JobInv, Owning
  <1>5. SelectInv'
    BY <1>2, <1>3 DEF SelectInv
  <1>6. OwnerInv'
    BY <1>2, <1>3 DEF OwnerInv, Owning
  <1>7. RowInv'
    BY <1>2 DEF RowInv
  <1>8. StuckExactlyWhenLost'
    BY <1>2, <1>3 DEF StuckExactlyWhenLost, Owned, Owning
  <1>9. DownInv'
    BY <1>3 DEF DownInv, CheckContext, ClaimNothing, Wake, ClaimError, procVars
  <1>10. QED
    BY <1>1, <1>9, <1>4, <1>5, <1>6, <1>7, <1>8

\* The SELECT of a claim: under PostgreSQL the row was not locked, under SQLite
\* no other transaction was open.
LEMMA ClaimSelectIndInv ==
  ASSUME IndInv, NEW w \in Workers, ClaimSelect(w)
  PROVE  IndInv'
  <1> USE DEF IndInv
  <1>1. PICK e \in Execs : Oldest(e) /\ job' = [job EXCEPT ![w] = e]
    BY DEF ClaimSelect
  <1>2. /\ row[e] = "pending"
        /\ Backend = "postgres" => ~Locked(e)
    BY <1>1 DEF Oldest, Claimable
  <1>3. UNCHANGED <<row, req, output, deadTx, ran, lost, result>>
    BY DEF ClaimSelect, procVars, rowVars, httpVars
  <1>4. /\ pc[w] = "claim"
        /\ pc' = [pc EXCEPT ![w] = "selected"]
        /\ job' = [job EXCEPT ![w] = e]
    BY <1>1 DEF ClaimSelect, Goto
  <1>5. TypeOK'
    BY <1>4 DEF TypeOK, ClaimSelect, procVars, failVars, rowVars, httpVars, WorkerStates
  <1>6. JobInv'
    BY <1>3, <1>4, QueueAssumption DEF JobInv, TypeOK, Owning
  <1>7. SelectInv'
    <2>1. CASE Backend = "postgres"
      BY <1>2, <1>3, <1>4, <2>1 DEF SelectInv, TypeOK, Locked
    <2>2. CASE Backend = "sqlite"
      <3>1. \A v \in Workers : pc[v] # "selected"
        BY <2>2, SqliteAssumption DEF ClaimSelect, ConnFree, Pool
      <3>2. QED
        BY <1>2, <1>3, <1>4, <2>2, <3>1 DEF SelectInv, TypeOK
    <2>3. QED
      BY <2>1, <2>2, QueueAssumption
  <1>8. OwnerInv'
    BY <1>3, <1>4 DEF OwnerInv, Owning, TypeOK
  <1>9. RowInv'
    BY <1>3 DEF RowInv
  <1>10. StuckExactlyWhenLost'
    BY <1>3, <1>4 DEF StuckExactlyWhenLost, Owned, Owning, TypeOK
  <1>11. DownInv'
    BY <1>4 DEF DownInv, ClaimSelect, procVars, TypeOK
  <1>12. QED
    BY <1>11, <1>5, <1>6, <1>7, <1>8, <1>9, <1>10

\* The COMMIT of a claim: the row had been selected by this worker only, so no
\* other worker selects it or owns it, and its action has not run.
LEMMA ClaimCommitIndInv ==
  ASSUME IndInv, NEW w \in Workers, ClaimCommit(w)
  PROVE  IndInv'
  <1> USE DEF IndInv
  <1> DEFINE e == job[w]
  <1>1. /\ pc[w] = "selected" /\ e \in Execs /\ row[e] = "pending" /\ e \notin deadTx
        /\ ran[e] = 0 /\ req[e] \notin {"none", "stamped"}
    BY DEF ClaimCommit, JobInv, SelectInv, RowInv, TypeOK
  <1>2. /\ UNCHANGED <<req, output, deadTx, ran, lost, result, job>>
        /\ row' = [row EXCEPT ![e] = "running"]
        /\ pc' = [pc EXCEPT ![w] = "claimed"]
    BY DEF ClaimCommit, Goto, procVars, httpVars
  <1>3. TypeOK'
    BY <1>1, <1>2 DEF TypeOK, ClaimCommit, procVars, failVars, httpVars, WorkerStates, Statuses
  <1>4. JobInv'
    BY <1>1, <1>2 DEF JobInv, TypeOK, Owning
  <1>5. SelectInv'
    BY <1>1, <1>2 DEF SelectInv, TypeOK, JobInv
  <1>6. OwnerInv'
    BY <1>1, <1>2 DEF OwnerInv, TypeOK, Owning, JobInv
  <1>7. RowInv'
    BY <1>1, <1>2 DEF RowInv, TypeOK, Terminal
  <1>8. StuckExactlyWhenLost'
    <2>1. Owned(e)'
      BY <1>1, <1>2 DEF Owned, Owning, TypeOK
    <2>2. \A f \in Execs : f # e => (Owned(f)' <=> Owned(f))
      BY <1>1, <1>2 DEF Owned, Owning, TypeOK
    <2>3. QED
      BY <1>1, <1>2, <2>1, <2>2 DEF StuckExactlyWhenLost, TypeOK
  <1>9. DownInv'
    BY <1>1, <1>2 DEF DownInv, ClaimCommit, procVars, TypeOK
  <1>10. QED
    BY <1>9, <1>3, <1>4, <1>5, <1>6, <1>7, <1>8

\* A worker that owns a row goes on: it starts the action, or the action returns.
LEMMA RunIndInv ==
  ASSUME IndInv, NEW w \in Workers, Process(w) \/ RunFinish(w)
  PROVE  IndInv'
  <1> USE DEF IndInv
  <1> DEFINE e == job[w]
  <1>1. pc[w] \in {"claimed", "run"} /\ e \in Execs /\ row[e] = "running"
    BY DEF Process, RunFinish, JobInv, OwnerInv, Owning, TypeOK
  <1>2. UNCHANGED <<row, req, output, deadTx, lost, job>>
    BY DEF Process, RunFinish, procVars, rowVars, httpVars
  <1>3. TypeOK'
    <2> USE DEF TypeOK, Goto, procVars, rowVars, httpVars, failVars, WorkerStates
    <2>1. CASE Process(w)
      BY <1>1, <2>1 DEF Process
    <2>2. CASE RunFinish(w)
      BY <1>1, <2>2 DEF RunFinish
    <2>3. QED
      BY <2>1, <2>2
  <1>4. /\ \A v \in Workers : v # w => pc'[v] = pc[v] /\ result'[v] = result[v]
        /\ pc'[w] \in {"run", "update"}
        /\ result'[w] # "none" <=> pc'[w] = "update"
        /\ \A f \in Execs : f # e => ran'[f] = ran[f]
        /\ ran'[e] = 1
    BY <1>1 DEF Process, RunFinish, Goto, TypeOK, OwnerInv, JobInv, Owning, Terminal
  <1>5. JobInv'
    BY <1>1, <1>2, <1>4 DEF JobInv, TypeOK, Owning
  <1>6. SelectInv'
    BY <1>1, <1>2, <1>4 DEF SelectInv
  <1>7. OwnerInv'
    BY <1>1, <1>2, <1>4 DEF OwnerInv, Owning, JobInv, TypeOK
  <1>8. RowInv'
    BY <1>1, <1>2, <1>4 DEF RowInv, Terminal, TypeOK
  <1>9. StuckExactlyWhenLost'
    BY <1>1, <1>2, <1>4 DEF StuckExactlyWhenLost, Owned, Owning
  <1>10. DownInv'
    BY <1>1, <1>4 DEF DownInv, Process, RunFinish, procVars
  <1>11. QED
    BY <1>10, <1>3, <1>5, <1>6, <1>7, <1>8, <1>9

\* A worker gives up the row it owns: the claim's answer was lost or the update
\* failed, and the row is stranded; or the update decided it.
LEMMA ReleaseIndInv ==
  ASSUME IndInv, NEW w \in Workers,
         ClaimAnswerLost(w) \/ Update(w) \/ UpdateError(w)
  PROVE  IndInv'
  <1> USE DEF IndInv
  <1>0. PICK e \in Execs : e = job[w]
    BY DEF ClaimAnswerLost, Update, UpdateError, JobInv, Owning, TypeOK
  <1>1. /\ pc[w] \in {"claimed", "update"} /\ e \in Execs /\ row[e] = "running"
        /\ pc[w] = "update" => ran[e] = 1 /\ result[w] \in Terminal
        /\ ran[e] <= 1
    BY <1>0 DEF ClaimAnswerLost, Update, UpdateError, JobInv, OwnerInv, Owning, TypeOK
  <1>2. TypeOK'
    <2> USE DEF TypeOK, Goto, procVars, rowVars, httpVars, failVars, WorkerStates
    <2>1. CASE ClaimAnswerLost(w)
      BY <1>0, <1>1, <2>1 DEF ClaimAnswerLost, AfterClaimError, Fault
    <2>2. CASE Update(w)
      BY <1>0, <1>1, <2>2 DEF Update, AfterUpdate, Statuses
    <2>3. CASE UpdateError(w)
      BY <1>0, <1>1, <2>3 DEF UpdateError, AfterUpdate, Fault
    <2>4. QED
      BY <2>1, <2>2, <2>3
  <1>3. /\ UNCHANGED <<req, deadTx, ran>>
        /\ \A v \in Workers : v # w => pc'[v] = pc[v] /\ job'[v] = job[v] /\ result'[v] = result[v]
        /\ pc'[w] \in {"check", "wait", "exited"}
        /\ job'[w] = NoExec
        /\ result'[w] = "none"
        /\ \A f \in Execs : f # e => row'[f] = row[f] /\ output'[f] = output[f]
        /\ \/ row'[e] = "running" /\ output'[e] = output[e] /\ lost' = lost \cup {e}
           \/ /\ pc[w] = "update" /\ row'[e] = result[w] /\ lost' = lost
              /\ output'[e] = (result[w] = "succeeded")
    <2> USE DEF TypeOK, Goto, procVars, rowVars, httpVars
    <2>1. CASE ClaimAnswerLost(w)
      BY <1>0, <1>1, <2>1 DEF ClaimAnswerLost, AfterClaimError, JobInv
    <2>2. CASE Update(w)
      BY <1>0, <1>1, <2>2 DEF Update, AfterUpdate
    <2>3. CASE UpdateError(w)
      BY <1>0, <1>1, <2>3 DEF UpdateError, AfterUpdate
    <2>4. QED
      BY <2>1, <2>2, <2>3
  <1>4. JobInv'
    BY <1>3 DEF JobInv, Owning
  <1>5. SelectInv'
    BY <1>0, <1>1, <1>3 DEF SelectInv, JobInv, TypeOK, Owning
  <1>6. \A v \in Workers : v # w /\ pc[v] \in Owning => job[v] # e
    BY <1>0, <1>1 DEF OwnerInv, Owning
  <1>7. OwnerInv'
    BY <1>0, <1>1, <1>3, <1>6 DEF OwnerInv, Owning, JobInv, TypeOK
  <1>8. RowInv'
    <2>1. output'[e] <=> row'[e] = "succeeded"
      BY <1>1, <1>3 DEF RowInv
    <2>2. row'[e] \in {"running"} \cup Terminal /\ (row'[e] \in Terminal => ran[e] = 1)
      BY <1>1, <1>3 DEF Terminal
    <2>3. QED
      BY <1>1, <1>3, <2>1, <2>2 DEF RowInv, Terminal
  <1>9. StuckExactlyWhenLost'
    <2>1. ~Owned(e)' /\ Owned(e)
      BY <1>0, <1>1, <1>3, <1>6, QueueAssumption DEF Owned, Owning
    <2>2. \A f \in Execs : f # e => (Owned(f)' <=> Owned(f))
      BY <1>0, <1>1, <1>3, QueueAssumption DEF Owned, Owning
    <2>3. QED
      BY <1>1, <1>3, <2>1, <2>2 DEF StuckExactlyWhenLost, Terminal
  <1>10. DownInv'
    BY <1>1, <1>3 DEF DownInv, ClaimAnswerLost, Update, UpdateError, procVars
  <1>11. QED
    BY <1>10, <1>2, <1>4, <1>5, <1>7, <1>8, <1>9

\* Server steps that leave every worker's row alone.
LEMMA ServerIndInv ==
  ASSUME IndInv,
         \/ \E r \in Replicas : Signal(r) \/ HandlersDrained(r) \/ Restart(r)
         \/ \E e \in Execs : AbortDeadTx(e)
  PROVE  IndInv'
  <1> USE DEF IndInv
  <1>1. CASE \E r \in Replicas : Signal(r) \/ HandlersDrained(r)
    <2>1. UNCHANGED <<row, output, created, req, via, pc, job, result, notify, deadTx, ran, lost>>
      BY <1>1 DEF Signal, HandlersDrained, rowVars, httpVars, poolVars
    <2>2. TypeOK'
      BY <1>1, <2>1 DEF TypeOK, Signal, HandlersDrained, Phases, Pool, failVars
    <2>3. DownInv'
      BY <1>1, <2>1, QueueAssumption DEF DownInv, Signal, HandlersDrained, TypeOK
    <2>4. QED
      BY <2>1, <2>2, <2>3 DEF JobInv, SelectInv, OwnerInv, RowInv, StuckExactlyWhenLost, Owned
  <1>2. CASE \E r \in Replicas : Restart(r)
    <2>1. PICK r \in Replicas : Restart(r)
      BY <1>2
    <2>2. /\ UNCHANGED <<row, output, created, req, via, job, result, notify, grace, deadTx, ran,
                         lost, faults, crashes, signals>>
          /\ phase' = [phase EXCEPT ![r] = "up"]
          /\ pc' = [w \in Workers |-> IF w \in Pool(r) THEN "check" ELSE pc[w]]
      BY <2>1 DEF Restart, rowVars, httpVars, failVars
    <2>3. TypeOK'
      BY <2>2 DEF TypeOK, Phases, WorkerStates
    <2>4. \A w \in Pool(r) : pc[w] = "exited"
      BY <2>1 DEF Restart, DownInv, Pool
    <2>5. \A w \in Workers : pc'[w] = pc[w] \/ (pc'[w] = "check" /\ pc[w] = "exited")
      BY <2>2, <2>4
    <2>6. JobInv' /\ SelectInv' /\ OwnerInv' /\ RowInv'
      BY <2>2, <2>5 DEF JobInv, SelectInv, OwnerInv, RowInv, Owning
    <2>7. StuckExactlyWhenLost'
      BY <2>2, <2>5 DEF StuckExactlyWhenLost, Owned, Owning
    <2>8. DownInv'
      BY <2>2, <2>4 DEF DownInv, Pool, TypeOK
    <2>9. QED
      BY <2>3, <2>6, <2>7, <2>8
  <1>3. CASE \E e \in Execs : AbortDeadTx(e)
    <2>1. /\ UNCHANGED <<row, output, created, req, via, pc, job, result, notify, phase, grace,
                         ran, lost, faults, crashes, signals>>
          /\ deadTx' \subseteq deadTx
      BY <1>3 DEF AbortDeadTx, rowVars, httpVars, poolVars, failVars
    <2>2. QED
      BY <2>1 DEF TypeOK, DownInv, JobInv, SelectInv, OwnerInv, RowInv, StuckExactlyWhenLost, Owned
  <1>4. QED
    BY <1>1, <1>2, <1>3

\* The end of a process: rows its workers own are stranded, rows they selected
\* stay locked for a while, everything else is untouched.
LEMMA ExitIndInv ==
  ASSUME IndInv, NEW r \in Replicas,
         Exit(r), faults' \in Nat, crashes' \in Nat, signals' \in Nat
  PROVE  IndInv'
  <1> USE DEF IndInv
  <1>1. /\ UNCHANGED <<row, output, created, via, ran>>
        /\ \A w \in Pool(r) : pc'[w] = "exited" /\ job'[w] = NoExec /\ result'[w] = "none"
        /\ \A w \in Workers \ Pool(r) :
              pc'[w] = pc[w] /\ job'[w] = job[w] /\ result'[w] = result[w]
    BY DEF Exit, rowVars, Pool
  <1>2. /\ lost' \subseteq Execs
        /\ deadTx' \subseteq Execs
        /\ \A e \in Execs : e \in lost' <=>
              e \in lost \/ \E w \in Pool(r) : pc[w] \in Owning /\ job[w] = e
        /\ \A e \in Execs : e \in deadTx' =>
              \/ e \in deadTx
              \/ Backend = "postgres" /\ \E w \in Pool(r) : pc[w] = "selected" /\ job[w] = e
    BY DEF Exit, TypeOK, JobInv, Pool
  <1>3. TypeOK'
    BY <1>1, <1>2 DEF Exit, TypeOK, Pool, WorkerStates, ReqStates, Phases
  <1>4. JobInv'
    BY <1>1 DEF JobInv, Owning
  <1>5. SelectInv'
    <2>1. \A w \in Workers : pc'[w] = "selected" =>
             w \notin Pool(r) /\ pc[w] = "selected" /\ job'[w] = job[w] /\ job[w] \in Execs
      BY <1>1 DEF TypeOK, JobInv
    <2>2. \A e \in Execs : e \in deadTx' => row[e] = "pending"
      BY <1>2 DEF SelectInv, Pool
    <2>3. \A w \in Workers : pc'[w] = "selected" => job[w] \notin deadTx'
      BY <1>2, <2>1 DEF SelectInv, Pool
    <2>4. Backend = "sqlite" => deadTx' = {}
      BY DEF Exit, SelectInv
    <2>5. QED
      BY <1>1, <1>2, <2>1, <2>2, <2>3, <2>4 DEF SelectInv
  <1>6. OwnerInv'
    BY <1>1 DEF OwnerInv, Owning, Pool
  <1>7. RowInv'
    BY <1>1 DEF RowInv, Exit, InFlight, TypeOK
  <1>8. StuckExactlyWhenLost'
    <2> SUFFICES ASSUME NEW e \in Execs
                 PROVE  e \in lost' <=> (row'[e] = "running" /\ ~Owned(e)')
      BY DEF StuckExactlyWhenLost
    <2>1. Owned(e)' <=> \E w \in Workers \ Pool(r) : pc[w] \in Owning /\ job[w] = e
      BY <1>1 DEF Owned, Owning
    <2>2. (\E w \in Pool(r) : pc[w] \in Owning /\ job[w] = e) => row[e] = "running" /\ ~Owned(e)'
      BY <2>1 DEF OwnerInv, Pool
    <2>3. QED
      BY <1>1, <1>2, <2>1, <2>2 DEF StuckExactlyWhenLost, Owned, Pool
  <1>9. DownInv'
    BY <1>1 DEF DownInv, Exit, Pool, TypeOK
  <1>10. QED
    BY <1>3, <1>4, <1>5, <1>6, <1>7, <1>8, <1>9

\* Every step preserves the inductive invariant.
LEMMA NextIndInv == IndInv /\ [Next]_vars => IndInv'
  <1> SUFFICES ASSUME IndInv, [Next]_vars PROVE IndInv'
    OBVIOUS
  <1>1. CASE \E e \in Execs : \/ \E r \in Replicas, t \in Stamps : StampRequest(e, r, t)
                              \/ Handler(e)
                              \/ InsertError(e)
    BY <1>1, HandlerIndInv DEF Handler
  <1>2. CASE \E w \in Workers : CheckContext(w) \/ ClaimNothing(w) \/ Wake(w) \/ ClaimError(w)
    BY <1>2, IdleStepIndInv
  <1>3. CASE \E w \in Workers : ClaimSelect(w)
    BY <1>3, ClaimSelectIndInv
  <1>4. CASE \E w \in Workers : ClaimCommit(w)
    BY <1>4, ClaimCommitIndInv
  <1>5. CASE \E w \in Workers : Process(w) \/ RunFinish(w)
    BY <1>5, RunIndInv
  <1>6. CASE \E w \in Workers : ClaimAnswerLost(w) \/ Update(w) \/ UpdateError(w)
    BY <1>6, ReleaseIndInv
  <1>7. CASE \/ \E r \in Replicas : Signal(r) \/ HandlersDrained(r) \/ Restart(r)
             \/ \E e \in Execs : AbortDeadTx(e)
    BY <1>7, ServerIndInv
  <1>8. CASE \E r \in Replicas : PoolDrained(r) \/ Deadline(r) \/ Crash(r)
    <2>1. PICK r \in Replicas : PoolDrained(r) \/ Deadline(r) \/ Crash(r)
      BY <1>8
    <2>2. Exit(r) /\ faults' \in Nat /\ crashes' \in Nat /\ signals' \in Nat
      BY <2>1 DEF PoolDrained, Deadline, Crash, failVars, IndInv, TypeOK
    <2>3. QED
      BY <2>2, ExitIndInv
  <1>9. CASE UNCHANGED vars
    BY <1>9 DEF vars, rowVars, httpVars, poolVars, procVars, failVars, IndInv, TypeOK, DownInv,
       JobInv, SelectInv, OwnerInv, RowInv, StuckExactlyWhenLost, Owned
  <1>10. QED
    BY <1>1, <1>2, <1>3, <1>4, <1>5, <1>6, <1>7, <1>8, <1>9 DEF Next, WorkerStep, ServerStep

-----------------------------------------------------------------------------
(* The theorems.                                                           *)

\* The inductive invariant holds in every reachable state.
THEOREM QueueInvariant == Spec => []IndInv
  BY InitIndInv, NextIndInv, PTL DEF Spec

\* Whatever the workers and replicas do and whatever fails, ClaimNextExecution and
\* process start the action of an execution at most once.
THEOREM AtMostOnce == Spec => []RunAtMostOnce
  <1>1. IndInv => RunAtMostOnce
    <2> SUFFICES ASSUME IndInv, NEW e \in Execs PROVE ran[e] <= 1
      BY DEF RunAtMostOnce
    <2>1. row[e] \in {"absent", "pending"} \/ row[e] = "running" \/ row[e] \in Terminal
      BY DEF IndInv, TypeOK, Statuses
    <2>2. QED
      BY <2>1 DEF IndInv, RowInv
  <1>2. QED
    BY <1>1, QueueInvariant, PTL

\* A row is stranded in running only by a lost answer of the claim, a failed
\* update or the end of its worker's process, and then for good.
THEOREM StuckCauses == Spec => []StuckExactlyWhenLost
  <1>1. IndInv => StuckExactlyWhenLost
    BY DEF IndInv
  <1>2. QED
    BY <1>1, QueueInvariant, PTL

\* Every step of the queue is a step of the abstract life of executions, or leaves
\* it unchanged.
LEMMA StepRefines == IndInv /\ [Next]_vars => [Abs!AbsNext]_(Abs!absVars)
  <1> SUFFICES ASSUME IndInv, [Next]_vars PROVE [Abs!AbsNext]_(Abs!absVars)
    OBVIOUS
  <1> USE DEF Abs!absVars, Abs!AbsNext
  <1>1. ASSUME NEW e \in Execs, InsertRow(e) PROVE Abs!Submit(e)
    BY <1>1 DEF InsertRow, Abs!Submit, IndInv, RowInv
  <1>2. ASSUME NEW w \in Workers, ClaimCommit(w)
        PROVE  job[w] \in Execs /\ Abs!Claim(job[w])
    BY <1>2 DEF ClaimCommit, Abs!Claim, IndInv, SelectInv, JobInv, TypeOK
  <1>3. ASSUME NEW w \in Workers, Process(w)
        PROVE  job[w] \in Execs /\ Abs!Start(job[w])
    <2>1. job[w] \in Execs /\ row[job[w]] = "running" /\ ran[job[w]] = 0
      BY <1>3 DEF Process, IndInv, OwnerInv, JobInv, TypeOK, Owning
    <2>2. ran' = [ran EXCEPT ![job[w]] = 1] /\ UNCHANGED <<row, output>>
      BY <1>3, <2>1 DEF Process, rowVars
    <2>3. QED
      BY <2>1, <2>2 DEF Abs!Start
  <1>4. ASSUME NEW w \in Workers, Update(w)
        PROVE  job[w] \in Execs /\ Abs!Complete(job[w])
    <2>1. /\ job[w] \in Execs /\ row[job[w]] = "running" /\ ran[job[w]] = 1
          /\ result[w] \in Abs!Terminal
      BY <1>4 DEF Update, Abs!Terminal, IndInv, OwnerInv, JobInv, TypeOK, Owning, Terminal
    <2>2. /\ row' = [row EXCEPT ![job[w]] = result[w]]
          /\ output' = [output EXCEPT ![job[w]] = (result[w] = "succeeded")]
          /\ UNCHANGED ran
      BY <1>4 DEF Update
    <2>3. QED
      BY <2>1, <2>2 DEF Abs!Complete
  <1>5. ASSUME NEW e \in Execs,
               \/ \E r \in Replicas, t \in Stamps : StampRequest(e, r, t)
               \/ Acknowledge(e) \/ InsertError(e) \/ AbortDeadTx(e)
        PROVE  UNCHANGED Abs!absVars
    BY <1>5 DEF StampRequest, Acknowledge, InsertError, AbortDeadTx, rowVars
  <1>6. ASSUME NEW w \in Workers,
               \/ CheckContext(w) \/ ClaimSelect(w) \/ ClaimNothing(w) \/ Wake(w)
               \/ RunFinish(w) \/ ClaimError(w) \/ ClaimAnswerLost(w) \/ UpdateError(w)
        PROVE  UNCHANGED Abs!absVars
    BY <1>6 DEF CheckContext, ClaimSelect, ClaimNothing, Wake, RunFinish, ClaimError,
       ClaimAnswerLost, UpdateError, rowVars
  <1>7. ASSUME NEW r \in Replicas, ServerStep(r) \/ Signal(r) \/ Crash(r)
        PROVE  UNCHANGED Abs!absVars
    BY <1>7 DEF ServerStep, HandlersDrained, PoolDrained, Deadline, Restart, Signal, Crash, Exit,
       rowVars
  <1>8. CASE UNCHANGED vars
    BY <1>8 DEF vars, rowVars
  <1>9. CASE Next
    BY <1>1, <1>2, <1>3, <1>4, <1>5, <1>6, <1>7, <1>9 DEF Next, Handler, WorkerStep
  <1>10. QED
    BY <1>8, <1>9

\* The workers, the store and the shutdown sequence together implement the life of
\* an execution: absent, pending, running, then one terminal status for good, the
\* action started once in between, and an output exactly if it succeeded.
THEOREM Refinement == Spec => RefinesExecutions
  <1>1. Init => Abs!AbsInit
    BY DEF Init, Abs!AbsInit
  <1>2. QED
    BY <1>1, StepRefines, QueueInvariant, PTL DEF Spec, RefinesExecutions, Abs!AbsSpec

\* What is decided stays decided: no claim, update, fault, crash or restart changes the
\* status or the output of an execution that has succeeded or failed.
THEOREM DecidedIsFinal ==
  Spec => [][\A e \in Execs :
                row[e] \in Terminal => row'[e] = row[e] /\ output'[e] = output[e]]_vars
  <1>1. IndInv /\ [Next]_vars =>
           [\A e \in Execs : row[e] \in Terminal => row'[e] = row[e] /\ output'[e] = output[e]]_vars
    <2> SUFFICES ASSUME IndInv, [Next]_vars, NEW e \in Execs, row[e] \in Terminal
                 PROVE  row'[e] = row[e] /\ output'[e] = output[e]
      OBVIOUS
    <2>0. row \in [Execs -> Statuses] /\ output \in [Execs -> BOOLEAN]
      BY DEF IndInv, TypeOK
    <2>1. Abs!AbsNext \/ UNCHANGED Abs!absVars
      BY StepRefines
    <2>2. CASE UNCHANGED Abs!absVars
      BY <2>2 DEF Abs!absVars
    <2>3. ASSUME NEW f \in Execs, Abs!Submit(f) \/ Abs!Claim(f) \/ Abs!Start(f) \/ Abs!Complete(f)
          PROVE  row'[e] = row[e] /\ output'[e] = output[e]
      <3>1. CASE Abs!Submit(f) \/ Abs!Claim(f)
        BY <2>0, <3>1 DEF Abs!Submit, Abs!Claim, Terminal
      <3>2. CASE Abs!Start(f)
        BY <3>2 DEF Abs!Start
      <3>3. CASE Abs!Complete(f)
        <4>1. f # e
          BY <3>3 DEF Abs!Complete, Terminal
        <4> QED
          BY <2>0, <3>3, <4>1 DEF Abs!Complete
      <3> QED
        BY <2>3, <3>1, <3>2, <3>3
    <2> QED
      BY <2>1, <2>2, <2>3 DEF Abs!AbsNext
  <1> QED
    BY <1>1, QueueInvariant, PTL DEF Spec
=============================================================================
